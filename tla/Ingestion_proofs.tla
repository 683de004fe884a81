-------------------------- MODULE Ingestion_proofs --------------------------
(***************************************************************************)
(* Proofs about Ingestion for every set of submissions and workers, every  *)
(* MaxAttempts and any number of failures.                                 *)
(***************************************************************************)
EXTENDS Ingestion, TLAPS

-----------------------------------------------------------------------------
(* Types: the helpers of the actions, then one lemma per group of actions.  *)

\* Pushing ids of submissions keeps the queue a sequence of submissions.
LEMMA PushedType ==
    ASSUME NEW s \in Subs, NEW n \in Nat, queue \in Seq(Subs)
    PROVE  Pushed(n, s) \in Seq(Subs)
  <1>1. [i \in 1..n |-> s] \in Seq(Subs)
    OBVIOUS
  <1>2. QED
    BY <1>1 DEF Pushed

\* An actor that is doing something does it for a submission.
LEMMA JobIsSub ==
    ASSUME LocalsOK, NEW a \in Actors, pc[a] # "idle"
    PROVE  Job(a) \in Subs
  BY DEF LocalsOK, Job, Actors

LEMMA ReturnType ==
    ASSUME LocalsOK, NEW a \in Actors, Return(a)
    PROVE  LocalsOK'
  BY DEF LocalsOK, Return, Actors, Calls

LEMMA GotoType ==
    ASSUME LocalsOK, NEW a \in Actors, pc[a] # "idle",
           NEW call \in Calls \ {"idle"}, Goto(a, call), UNCHANGED locals
    PROVE  LocalsOK'
  BY DEF LocalsOK, Goto, locals, Actors

LEMMA ProcessErrorType ==
    ASSUME LocalsOK, NEW a \in Actors, pc[a] # "idle", ProcessError(a)
    PROVE  LocalsOK'
  <1>1. "getJob" \in Calls \ {"idle"}
    BY DEF Calls, FailingCalls
  <1>2. QED
    BY <1>1, GotoType, ReturnType DEF ProcessError

LEMMA FailType ==
    ASSUME faults \in 0..MaxFaults, NEW kind, Fail(kind)
    PROVE  faults' \in 0..MaxFaults
  BY IngestionAssumption DEF Fail

LEMMA TypedHandler ==
    ASSUME TypeOK, NEW s \in Subs, Handler(s)
    PROVE  TypeOK'
  <1>1. /\ s \in Actors
        /\ {"createSubmission", "createJob", "getSubmission", "push", "getJob"}
               \subseteq Calls \ {"idle"}
    BY DEF Actors, Calls, ProcessingCalls, FailingCalls
  <1>2. ASSUME NEW n \in 1..2 PROVE Pushed(n, s) \in Seq(Subs)
    <2>1. n \in Nat /\ queue \in Seq(Subs)
      BY DEF TypeOK, JobsOK
    <2>2. QED
      BY <2>1, PushedType
  <1>3. LocalsOK'
    BY <1>1, ReturnType, GotoType DEF TypeOK, Handler, At, PutText, CreateSubmission, CreateJob, PushJob
  <1>4. faults' \in 0..MaxFaults
    BY FailType DEF TypeOK, Handler, PutText, CreateSubmission, CreateJob, PushJob
  <1>5. SubmissionsOK'
    BY DEF TypeOK, SubmissionsOK, Handler, PutText, CreateSubmission, CreateJob, PushJob, submissions
  <1>6. JobsOK'
    <2>1. Pushed(1, s) \in Seq(Subs) /\ Pushed(2, s) \in Seq(Subs)
      BY <1>2
    <2>2. queue' \in Seq(Subs)
      BY <1>2, <2>1 DEF TypeOK, JobsOK, Handler, PutText, CreateSubmission, CreateJob, PushJob
    <2>3. QED
      BY <2>2 DEF TypeOK, JobsOK, Handler, PutText, CreateSubmission, CreateJob, PushJob, jobs
  <1>7. QED
    BY <1>3, <1>4, <1>5, <1>6 DEF TypeOK

LEMMA TypedWorker ==
    ASSUME TypeOK, NEW w \in Workers, Worker(w)
    PROVE  TypeOK'
  <1>1. /\ w \in Actors
        /\ {"claim", "getSubmission"} \subseteq Calls \ {"idle"}
    BY DEF Actors, Calls, ProcessingCalls
  <1>2. pc[w] # "idle" => cur[w] \in Subs
    BY <1>1, JobIsSub DEF TypeOK, Job
  <1>3. queue # <<>> => Head(queue) \in Subs /\ Tail(queue) \in Seq(Subs)
    BY DEF TypeOK, JobsOK
  <1>4. LocalsOK'
    <2>1. CASE Pop(w)
      <3>1. CASE UNCHANGED <<cur, pc>>
        BY <2>1, <3>1 DEF Pop, TypeOK, LocalsOK
      <3>2. CASE cur' = [cur EXCEPT ![w] = Head(queue)] /\ Goto(w, "claim")
        <4>1. Head(queue) \in Subs /\ Head(queue) # None
          BY <1>3, <2>1, IngestionAssumption DEF Pop
        <4>2. "claim" \in Calls /\ "claim" # "idle"
          BY <1>1
        <4>3. pc' \in [Actors -> Calls] /\ cur' \in [Workers -> Subs \cup {None}]
          BY <1>1, <3>2, <4>1, <4>2 DEF Goto, TypeOK, LocalsOK
        <4>4. \A v \in Workers : pc'[v] = "idle" <=> cur'[v] = None
          BY <1>1, <3>2, <4>1, <4>2 DEF Goto, TypeOK, LocalsOK, Actors
        <4>5. QED
          BY <2>1, <4>3, <4>4 DEF Pop, TypeOK, LocalsOK
      <3>3. QED
        BY <2>1, <3>1, <3>2 DEF Pop
    <2>2. CASE Claim(w)
      BY <1>1, <2>2, ReturnType, GotoType DEF TypeOK, At, Claim
    <2>3. CASE Repush(w)
      BY <1>1, <2>3, ReturnType DEF TypeOK, Repush
    <2>4. QED
      BY <2>1, <2>2, <2>3 DEF Worker
  <1>5. faults' \in 0..MaxFaults
    BY FailType DEF TypeOK, Worker, Pop, Claim, Repush
  <1>6. SubmissionsOK'
    BY DEF TypeOK, SubmissionsOK, Worker, Pop, Claim, Repush, submissions
  <1>7. queue' \in Seq(Subs)
    <2>1. CASE Pop(w)
      BY <1>3, <2>1 DEF Pop
    <2>2. CASE Claim(w)
      BY <2>2 DEF Claim, TypeOK, JobsOK
    <2>3. CASE Repush(w)
      <3>1. /\ Pushed(1, cur[w]) \in Seq(Subs)
            /\ Pushed(2, cur[w]) \in Seq(Subs)
        BY <1>2, <2>3, PushedType DEF Repush, At, TypeOK, JobsOK
      <3>2. QED
        BY <2>3, <3>1 DEF Repush, TypeOK, JobsOK
    <2>4. QED
      BY <2>1, <2>2, <2>3 DEF Worker
  <1>8. jobStatus' \in [Subs -> {"absent", "queued", "running", "retry", "failed", "done"}]
        /\ attempts' \in [Subs -> Nat]
    <2>1. CASE UNCHANGED jobs
      BY <2>1 DEF TypeOK, JobsOK, jobs
    <2>2. CASE pc[w] # "idle" /\ SetRunning(cur[w])
      BY <1>2, <2>2 DEF SetRunning, TypeOK, JobsOK
    <2>3. QED
      BY <2>1, <2>2 DEF Worker, Pop, Claim, Repush, At
  <1>9. QED
    BY <1>4, <1>5, <1>6, <1>7, <1>8 DEF TypeOK, JobsOK

LEMMA TypedProcess ==
    ASSUME TypeOK, NEW a \in Actors, Process(a)
    PROVE  TypeOK'
  <1>1. /\ ProcessingCalls \cup FailingCalls \cup {"repush"} \subseteq Calls \ {"idle"}
        /\ pc[a] \in ProcessingCalls \cup FailingCalls
    BY DEF Calls, ProcessingCalls, FailingCalls, Process, At, GetSubmission, GetText,
           Find, CreateCase, FindAgain, SetFailed, SetProcessed, SetDuplicate, Delete,
           SetRawDeleted, GetCase, SetDone, GetJob, SetRetry
  <1>2. Job(a) \in Subs /\ pc[a] # "idle"
    BY <1>1, JobIsSub DEF TypeOK
  <1>3. LocalsOK'
    <2>1. CASE Find(a) \/ FindAgain(a)
      BY <1>1, <1>2, <2>1 DEF Find, FindAgain, LookUp, SameHash, Goto, TypeOK, LocalsOK,
         SubmissionsOK, ProcessingCalls, Actors
    <2>2. CASE GetJob(a)
      <3>1. MayRetry(Job(a)) \in BOOLEAN
        BY DEF MayRetry
      <3>2. CASE /\ retry' = [retry EXCEPT ![a] = MayRetry(Job(a))]
                 /\ Goto(a, "setRetry")
                 /\ UNCHANGED <<cur, found, faults>>
        BY <1>1, <1>2, <3>1, <3>2 DEF Goto, TypeOK, LocalsOK, FailingCalls, Actors
      <3>3. QED
        BY <2>2, <3>2, ReturnType DEF GetJob, TypeOK
    <2>3. CASE GetSubmission(a) \/ GetText(a) \/ CreateCase(a)
      BY <1>1, <1>2, <2>3, GotoType, ProcessErrorType
         DEF GetSubmission, GetText, CreateCase, TypeOK, ProcessingCalls
    <2>4. CASE SetFailed(a) \/ SetProcessed(a) \/ SetDuplicate(a)
      BY <1>1, <1>2, <2>4, GotoType, ProcessErrorType
         DEF SetFailed, SetProcessed, SetDuplicate, TypeOK, ProcessingCalls
    <2>5. CASE Delete(a) \/ SetRawDeleted(a) \/ GetCase(a)
      BY <1>1, <1>2, <2>5, GotoType, ProcessErrorType
         DEF Delete, SetRawDeleted, GetCase, Answer, TypeOK, ProcessingCalls
    <2>6. CASE SetDone(a) \/ SetRetry(a)
      BY <1>1, <1>2, <2>6, GotoType, ReturnType DEF SetDone, SetRetry, TypeOK
    <2>7. QED
      BY <2>1, <2>2, <2>3, <2>4, <2>5, <2>6 DEF Process
  <1>4. faults' \in 0..MaxFaults
    BY FailType DEF TypeOK, Process, GetSubmission, GetText, Find, CreateCase, FindAgain,
       LookUp, SetFailed, SetProcessed, SetDuplicate, Ignored, Delete, SetRawDeleted,
       GetCase, SetDone, GetJob, SetRetry
  <1>5. SubmissionsOK'
    <2>1. CASE SetFailed(a) \/ SetProcessed(a)
      BY <1>2, <2>1 DEF SetFailed, SetProcessed, UpdateSubmissionStatus, Ignored, TypeOK,
         SubmissionsOK
    <2>2. CASE SetDuplicate(a)
      <3>1. found[a] \in Subs \cup {None}
        BY DEF TypeOK, LocalsOK
      <3>2. QED
        BY <1>2, <2>2, <3>1 DEF SetDuplicate, UpdateSubmissionStatus, Ignored, TypeOK,
           SubmissionsOK
    <2>3. CASE Delete(a) \/ SetRawDeleted(a)
      BY <1>2, <2>3 DEF Delete, SetRawDeleted, Ignored, TypeOK, SubmissionsOK
    <2>4. CASE CreateCase(a)
      BY <1>2, <2>4 DEF CreateCase, TypeOK, SubmissionsOK
    <2>5. CASE UNCHANGED submissions
      BY <2>5 DEF TypeOK, SubmissionsOK, submissions
    <2>6. QED
      BY <2>1, <2>2, <2>3, <2>4, <2>5 DEF Process, GetSubmission, GetText, Find, FindAgain,
         LookUp, GetCase, SetDone, GetJob, SetRetry
  <1>6. JobsOK'
    <2>1. CASE SetDone(a)
      BY <1>2, <2>1 DEF SetDone, Ignored, TypeOK, JobsOK
    <2>2. CASE SetRetry(a)
      BY <1>2, <2>2 DEF SetRetry, TypeOK, JobsOK
    <2>3. CASE UNCHANGED jobs /\ UNCHANGED queue
      BY <2>3 DEF TypeOK, JobsOK, jobs
    <2>4. QED
      BY <2>1, <2>2, <2>3 DEF Process, GetSubmission, GetText, Find, FindAgain, LookUp,
         CreateCase, SetFailed, SetProcessed, SetDuplicate, Delete, SetRawDeleted, GetCase,
         GetJob
  <1>7. QED
    BY <1>3, <1>4, <1>5, <1>6 DEF TypeOK

LEMMA TypedCrash ==
    ASSUME TypeOK, NEW a \in Actors, Crash(a)
    PROVE  TypeOK'
  BY ReturnType, FailType DEF Crash, TypeOK, SubmissionsOK, JobsOK, submissions, jobs

LEMMA TypedStep == TypeOK /\ [Next]_vars => TypeOK'
  <1>1. ASSUME TypeOK, UNCHANGED vars
        PROVE  TypeOK'
    BY <1>1 DEF TypeOK, SubmissionsOK, JobsOK, LocalsOK, vars, submissions, jobs, locals
  <1>2. QED
    BY <1>1, TypedHandler, TypedWorker, TypedProcess, TypedCrash DEF Next

\* The types hold in every behaviour: a worker works for a job exactly while
\* it is not waiting, and the queue only ever holds ids of submissions.
THEOREM TypeCorrect == Spec => []TypeOK
  <1>1. Init => TypeOK
    BY IngestionAssumption DEF Init, TypeOK, SubmissionsOK, JobsOK, LocalsOK, Actors, Calls
  <1>2. QED
    BY <1>1, TypedStep, PTL DEF Spec

-----------------------------------------------------------------------------
(* Contributions: no fault makes the pipeline forget a text or name a case *)
(* that does not hold it.                                                   *)

InQueue(s) == \E i \in 1..Len(queue) : queue[i] = s

\* Nobody knows the id of a submission before its handler pushes it.
Unknown(s) == ~InQueue(s) /\ \A w \in Workers : cur[w] # s

Accepting == {"start", "createSubmission", "createJob", "push"}

AcceptedAlone ==
    \A s \in Subs :
        /\ pc[s] \in Accepting => Unknown(s)
        /\ pc[s] \in {"start", "createSubmission"} => dupOf[s] = None

\* What an actor has learned before each of the calls that rely on it.
CaseKnown == {"delete", "setRawDeleted", "getCase", "setDone"}

Learned(a) ==
    /\ found[a] # None => pc[a] # "idle" /\ found[a] \in SameHash(Job(a))
    /\ pc[a] = "setDuplicate" => found[a] # None
    /\ pc[a] = "setProcessed" => Job(a) \in cases
    /\ pc[a] \in CaseKnown => SameHash(Job(a)) # {}

AllLearned == \A a \in Actors : Learned(a)

ContributionInv ==
    /\ TypeOK
    /\ AcceptedAlone
    /\ AllLearned
    /\ NoContributionLost
    /\ OutcomeNamesItsCase
    /\ DoneHasCase

\* A step is the step of one actor; it leaves the locals of the others alone
\* and never removes a case.
Step(a) ==
    \/ a \in Subs /\ Handler(a)
    \/ a \in Workers /\ Worker(a)
    \/ Process(a)
    \/ Crash(a)

LEMMA NextIsStep == Next => \E a \in Actors : Step(a)
  BY DEF Next, Step, Actors

LEMMA OthersKeep ==
    ASSUME TypeOK, NEW a \in Actors, Step(a), NEW b \in Actors, b # a
    PROVE  pc'[b] = pc[b] /\ found'[b] = found[b] /\ Job(b)' = Job(b)
  <1>1. CASE a \in Subs /\ Handler(a)
    BY <1>1 DEF Handler, PutText, CreateSubmission, CreateJob, PushJob, Return, Goto, locals,
       TypeOK, LocalsOK, Job
  <1>2. CASE a \in Workers /\ Worker(a)
    BY <1>2 DEF Worker, Pop, Claim, Repush, Return, Goto, locals, TypeOK, LocalsOK, Job
  <1>3. CASE Process(a)
    BY <1>3 DEF Process, GetSubmission, GetText, Find, CreateCase, FindAgain, LookUp,
       SetFailed, SetProcessed, SetDuplicate, Delete, SetRawDeleted, GetCase, SetDone,
       GetJob, SetRetry, ProcessError, Return, Goto, locals, TypeOK, LocalsOK, Job
  <1>4. CASE Crash(a)
    BY <1>4 DEF Crash, Return, TypeOK, LocalsOK, Job
  <1>5. QED
    BY <1>1, <1>2, <1>3, <1>4 DEF Step

LEMMA CasesGrow ==
    ASSUME NEW a \in Actors, Step(a)
    PROVE  cases \subseteq cases'
  BY DEF Step, Handler, PutText, CreateSubmission, CreateJob, PushJob, Worker, Pop, Claim,
     Repush, Process, GetSubmission, GetText, Find, CreateCase, FindAgain, LookUp,
     SetFailed, SetProcessed, SetDuplicate, Delete, SetRawDeleted, GetCase, SetDone,
     GetJob, SetRetry, Crash, submissions

LEMMA SameHashGrows ==
    ASSUME NEW a \in Actors, Step(a), NEW s
    PROVE  SameHash(s) \subseteq SameHash(s)'
  BY CasesGrow DEF SameHash

\* Ids enter the queue by a push of their handler or of their worker only.
LEMMA PushedHolds ==
    ASSUME TypeOK, NEW s \in Subs, NEW n \in Nat, queue' = Pushed(n, s),
           NEW r, InQueue(r)'
    PROVE  InQueue(r) \/ r = s
  <1>1. PICK i \in 1..Len(queue') : queue'[i] = r
    BY DEF InQueue
  <1>2. /\ queue \in Seq(Subs)
        /\ [k \in 1..n |-> s] \in Seq(Subs)
        /\ Len([k \in 1..n |-> s]) = n
    BY DEF TypeOK, JobsOK
  <1>3. Len(queue') = Len(queue) + n
    BY <1>2 DEF Pushed
  <1>4. CASE i <= Len(queue)
    BY <1>1, <1>2, <1>4 DEF InQueue, Pushed
  <1>5. CASE i > Len(queue)
    BY <1>1, <1>2, <1>3, <1>5 DEF Pushed
  <1>6. QED
    BY <1>1, <1>2, <1>3, <1>4, <1>5

LEMMA PoppedHolds ==
    ASSUME TypeOK, queue # <<>>, queue' = Tail(queue), NEW r, InQueue(r)'
    PROVE  InQueue(r)
  <1>1. PICK i \in 1..Len(queue') : queue'[i] = r
    BY DEF InQueue
  <1>2. queue \in Seq(Subs)
    BY DEF TypeOK, JobsOK
  <1>3. Len(queue') = Len(queue) - 1 /\ queue'[i] = queue[i + 1]
    BY <1>1, <1>2
  <1>4. i + 1 \in 1..Len(queue) /\ queue[i + 1] = r
    BY <1>1, <1>2, <1>3
  <1>5. QED
    BY <1>4 DEF InQueue

LEMMA HeadHolds ==
    ASSUME TypeOK, queue # <<>>
    PROVE  InQueue(Head(queue))
  <1>1. queue \in Seq(Subs)
    BY DEF TypeOK, JobsOK
  <1>2. 1 \in 1..Len(queue) /\ queue[1] = Head(queue)
    BY <1>1
  <1>3. QED
    BY <1>2 DEF InQueue

LEMMA ProcessLeaves ==
    ASSUME TypeOK, NEW a \in Actors, Process(a) \/ Crash(a)
    PROVE  pc'[a] \notin Accepting /\ queue' = queue
  BY DEF Crash, Process, GetSubmission, GetText, Find, CreateCase, FindAgain, LookUp,
     SetFailed, SetProcessed, SetDuplicate, Answer, Delete, SetRawDeleted, GetCase, SetDone,
     GetJob, SetRetry, ProcessError, Return, Goto, TypeOK, LocalsOK, Accepting

LEMMA ProcessKeepsCur ==
    ASSUME TypeOK, NEW a \in Actors, Process(a) \/ Crash(a), NEW w \in Workers
    PROVE  cur'[w] \in {cur[w], None}
  BY DEF Crash, Process, GetSubmission, GetText, Find, CreateCase, FindAgain, LookUp,
     SetFailed, SetProcessed, SetDuplicate, Delete, SetRawDeleted, GetCase, SetDone,
     GetJob, SetRetry, ProcessError, Return, locals, TypeOK, LocalsOK

\* Before it pushes, a handler changes neither the queue nor what workers hold.
LEMMA AcceptingHandler ==
    ASSUME TypeOK, NEW s \in Subs, Handler(s)
    PROVE  /\ cur' = cur
           /\ pc[s] \in Accepting
           /\ pc'[s] \in Accepting => queue' = queue
           /\ \/ queue' = queue
              \/ \E n \in 1..2 : queue' = Pushed(n, s)
  <1>1. s \in Actors /\ s \notin Workers
    BY IngestionAssumption DEF Actors
  <1>2. CASE PutText(s) \/ CreateSubmission(s) \/ CreateJob(s)
    BY <1>1, <1>2 DEF PutText, CreateSubmission, CreateJob, At, Goto, Return, locals, TypeOK,
       LocalsOK, Accepting
  <1>3. CASE PushJob(s)
    BY <1>1, <1>3 DEF PushJob, At, Goto, Return, locals, TypeOK, LocalsOK, Accepting
  <1>4. QED
    BY <1>2, <1>3 DEF Handler

LEMMA WorkerQueue ==
    ASSUME TypeOK, NEW w \in Workers, Worker(w)
    PROVE  \/ /\ queue' = queue
              /\ cur' \in {cur, [cur EXCEPT ![w] = None]}
           \/ /\ queue # <<>> /\ queue' = Tail(queue)
              /\ cur' \in {cur, [cur EXCEPT ![w] = Head(queue)]}
           \/ /\ cur[w] \in Subs
              /\ \E n \in 1..2 : queue' = Pushed(n, cur[w])
              /\ cur' = [cur EXCEPT ![w] = None]
  <1>1. CASE Pop(w)
    BY <1>1 DEF Pop
  <1>2. CASE Claim(w)
    BY <1>2 DEF Claim, Return, locals
  <1>3. CASE Repush(w)
    <2>1. cur[w] \in Subs
      BY <1>3, JobIsSub DEF Repush, At, Job, TypeOK, Actors
    <2>2. QED
      BY <1>3, <2>1 DEF Repush, Return
  <1>4. QED
    BY <1>1, <1>2, <1>3 DEF Worker

\* A submission becomes known to others when its own handler pushes it.
LEMMA UnknownStays ==
    ASSUME TypeOK, NEW a \in Actors, Step(a), NEW s \in Subs, Unknown(s),
           a = s => queue' = queue
    PROVE  Unknown(s)'
  <1>1. CASE a \in Subs /\ Handler(a)
    <2>1. CASE queue' = queue
      BY <1>1, <2>1, AcceptingHandler DEF Unknown, InQueue
    <2>2. CASE a # s /\ \E n \in 1..2 : queue' = Pushed(n, a)
      <3>1. ~InQueue(s)'
        BY <1>1, <2>2, PushedHolds DEF Unknown
      <3>2. QED
        BY <1>1, <3>1, AcceptingHandler DEF Unknown
    <2>3. QED
      BY <1>1, <2>1, <2>2, AcceptingHandler
  <1>2. CASE a \in Workers /\ Worker(a)
    <2>1. CASE queue' = queue /\ cur' \in {cur, [cur EXCEPT ![a] = None]}
      BY <2>1, IngestionAssumption DEF Unknown, InQueue, TypeOK, LocalsOK
    <2>2. CASE /\ queue # <<>> /\ queue' = Tail(queue)
               /\ cur' \in {cur, [cur EXCEPT ![a] = Head(queue)]}
      <3>1. ~InQueue(s)' /\ Head(queue) # s
        BY <2>2, PoppedHolds, HeadHolds DEF Unknown
      <3>2. QED
        BY <2>2, <3>1 DEF Unknown, TypeOK, LocalsOK
    <2>3. CASE /\ cur[a] \in Subs
               /\ \E n \in 1..2 : queue' = Pushed(n, cur[a])
               /\ cur' = [cur EXCEPT ![a] = None]
      <3>1. cur[a] # s
        BY <1>2 DEF Unknown
      <3>2. ~InQueue(s)'
        BY <2>3, <3>1, PushedHolds DEF Unknown
      <3>3. QED
        BY <2>3, <3>2, IngestionAssumption DEF Unknown, TypeOK, LocalsOK
    <2>4. QED
      BY <1>2, <2>1, <2>2, <2>3, WorkerQueue
  <1>3. CASE Process(a) \/ Crash(a)
    <2>1. queue' = queue /\ \A w \in Workers : cur'[w] \in {cur[w], None}
      BY <1>3, ProcessLeaves, ProcessKeepsCur
    <2>2. QED
      BY <2>1, IngestionAssumption DEF Unknown, InQueue
  <1>4. QED
    BY <1>1, <1>2, <1>3 DEF Step

LEMMA UnknownKept ==
    ASSUME ContributionInv, NEW a \in Actors, Step(a), NEW s \in Subs,
           pc'[s] \in Accepting
    PROVE  Unknown(s)' /\ pc[s] \in Accepting /\ Unknown(s)
  <1>1. /\ s \in Actors /\ s \notin Workers
        /\ TypeOK /\ AcceptedAlone
    BY IngestionAssumption DEF Actors, ContributionInv
  <1>2. a = s => Handler(s)
    BY <1>1, ProcessLeaves DEF Step
  <1>3. pc[s] \in Accepting /\ (a = s => queue' = queue)
    BY <1>1, <1>2, OthersKeep, AcceptingHandler
  <1>4. Unknown(s)
    BY <1>1, <1>3 DEF AcceptedAlone
  <1>5. QED
    BY <1>1, <1>3, <1>4, UnknownStays

LEMMA AcceptedAloneKept ==
    ASSUME ContributionInv, NEW a \in Actors, Step(a)
    PROVE  AcceptedAlone'
  <1>1. SUFFICES ASSUME NEW s \in Subs, pc'[s] \in {"start", "createSubmission"}
                 PROVE  dupOf'[s] = None
    BY UnknownKept DEF AcceptedAlone, Accepting
  <1>2. /\ pc[s] \in Accepting /\ Unknown(s)
        /\ s \in Actors /\ s \notin Workers
        /\ TypeOK /\ AcceptedAlone
    BY <1>1, UnknownKept, IngestionAssumption DEF ContributionInv, Actors, Accepting
  <1>3. pc[s] \in {"start", "createSubmission"}
    <2>1. CASE a # s
      BY <1>1, <1>2, <2>1, OthersKeep
    <2>2. CASE a = s
      <3>1. Handler(s)
        BY <1>1, <1>2, <2>2, ProcessLeaves DEF Step, Accepting
      <3>2. pc'[s] \in {"start", "createSubmission"} => At(s, "start")
        BY <1>2, <3>1 DEF Handler, PutText, CreateSubmission, CreateJob, PushJob, Return,
           Goto, TypeOK, LocalsOK
      <3>3. QED
        BY <1>1, <3>2 DEF At
    <2>3. QED
      BY <2>1, <2>2
  <1>4. dupOf[s] = None
    BY <1>2, <1>3 DEF AcceptedAlone
  <1>5. dupOf' = dupOf \/ \E d : dupOf' = [dupOf EXCEPT ![Job(a)] = d] /\ Process(a)
    BY DEF Step, Handler, PutText, CreateSubmission, CreateJob, PushJob, Worker, Pop, Claim,
       Repush, Process, GetSubmission, GetText, Find, CreateCase, FindAgain, LookUp,
       SetFailed, SetProcessed, SetDuplicate, UpdateSubmissionStatus, Ignored, Delete,
       SetRawDeleted, GetCase, SetDone, GetJob, SetRetry, Crash, submissions
  <1>6. Process(a) => Job(a) # s
    <2>1. Process(a) => a # s
      BY <1>1, <1>2, ProcessLeaves DEF Accepting
    <2>2. QED
      BY <1>2, <2>1 DEF Job, Unknown
  <1>7. QED
    BY <1>2, <1>4, <1>5, <1>6 DEF TypeOK, SubmissionsOK

LEMMA OtherLearned ==
    ASSUME ContributionInv, NEW a \in Actors, Step(a), NEW b \in Actors, b # a
    PROVE  Learned(b)'
  <1>1. /\ TypeOK /\ Learned(b)
        /\ cases \subseteq cases'
        /\ pc'[b] = pc[b] /\ found'[b] = found[b] /\ Job(b)' = Job(b)
    BY OthersKeep, CasesGrow DEF ContributionInv, AllLearned
  <1>2. \A s : SameHash(s) \subseteq SameHash(s)'
    BY SameHashGrows
  <1>3. SameHash(Job(b))' = {c \in cases' : Canonical[c] = Canonical[Job(b)]}
    BY <1>1 DEF SameHash
  <1>4. SameHash(Job(b)) \subseteq SameHash(Job(b))'
    BY <1>1, <1>3 DEF SameHash
  <1>5. QED
    BY <1>1, <1>4 DEF Learned

\* After Return an actor has nothing to know.
LEMMA ReturnLearned ==
    ASSUME TypeOK, NEW a \in Actors, Return(a)
    PROVE  Learned(a)'
  BY DEF Return, Learned, CaseKnown, TypeOK, LocalsOK

\* Going on without a look-up keeps what was found.
LEMMA GotoLearned ==
    ASSUME TypeOK, NEW a \in Actors, Learned(a), cases \subseteq cases',
           NEW call \in Calls \ {"idle"}, Goto(a, call), UNCHANGED locals, pc[a] # "idle",
           call = "setDuplicate" => found[a] # None,
           call = "setProcessed" => Job(a) \in cases',
           call \in CaseKnown => SameHash(Job(a)) # {} \/ Job(a) \in cases'
    PROVE  Learned(a)'
  <1>1. /\ Job(a)' = Job(a) /\ found'[a] = found[a] /\ pc'[a] = call
    BY DEF Goto, locals, Job, TypeOK, LocalsOK
  <1>2. SameHash(Job(a))' = {c \in cases' : Canonical[c] = Canonical[Job(a)]}
    BY <1>1 DEF SameHash
  <1>3. SameHash(Job(a)) \subseteq SameHash(Job(a))'
    BY <1>2 DEF SameHash
  <1>4. Job(a) \in cases' => Job(a) \in SameHash(Job(a))'
    BY <1>2
  <1>5. QED
    BY <1>1, <1>3, <1>4 DEF Learned

LEMMA ProcessErrorLearned ==
    ASSUME TypeOK, NEW a \in Actors, Learned(a), cases \subseteq cases',
           ProcessError(a), pc[a] # "idle"
    PROVE  Learned(a)'
  <1>1. "getJob" \in Calls \ {"idle"} /\ "getJob" \notin CaseKnown
    BY DEF Calls, FailingCalls, CaseKnown
  <1>2. QED
    BY <1>1, GotoLearned, ReturnLearned DEF ProcessError

LEMMA HandlerLearned ==
    ASSUME ContributionInv, NEW s \in Subs, Handler(s)
    PROVE  Learned(s)'
  <1>1. /\ s \in Actors /\ Step(s) /\ TypeOK /\ Learned(s)
        /\ cases \subseteq cases'
        /\ {"createSubmission", "createJob", "getSubmission", "push", "getJob"}
               \subseteq Calls \ ({"idle", "setDuplicate", "setProcessed"} \cup CaseKnown)
    BY CasesGrow DEF Actors, Step, ContributionInv, AllLearned, Calls, ProcessingCalls,
       FailingCalls, CaseKnown
  <1>2. pc[s] # "idle"
    BY DEF Handler, PutText, CreateSubmission, CreateJob, PushJob, At
  <1>3. QED
    BY <1>1, <1>2, ReturnLearned, GotoLearned
       DEF Handler, PutText, CreateSubmission, CreateJob, PushJob

LEMMA WorkerLearned ==
    ASSUME ContributionInv, NEW w \in Workers, Worker(w)
    PROVE  Learned(w)'
  <1>1. /\ w \in Actors /\ Step(w) /\ TypeOK /\ Learned(w)
        /\ cases \subseteq cases'
        /\ "getSubmission" \in Calls \ ({"idle", "setDuplicate", "setProcessed"} \cup CaseKnown)
    BY CasesGrow DEF Actors, Step, ContributionInv, AllLearned, Calls, ProcessingCalls,
       CaseKnown
  <1>2. CASE Pop(w)
    <2>1. found'[w] = None /\ pc'[w] \in {"idle", "claim"}
      BY <1>1, <1>2 DEF Pop, At, Goto, Learned, TypeOK, LocalsOK
    <2>2. QED
      BY <2>1 DEF Learned, CaseKnown
  <1>3. CASE Claim(w)
    BY <1>1, <1>3, ReturnLearned, GotoLearned DEF Claim, At
  <1>4. CASE Repush(w)
    BY <1>1, <1>4, ReturnLearned DEF Repush
  <1>5. QED
    BY <1>2, <1>3, <1>4 DEF Worker

LEMMA LookUpLearned ==
    ASSUME TypeOK, NEW a \in Actors, Learned(a), pc[a] # "idle",
           NEW miss \in {"createCase", "setFailed"}, LookUp(a, "setDuplicate", miss)
    PROVE  Learned(a)'
  <1>1. Job(a)' = Job(a) /\ cases' = cases
    BY DEF LookUp, submissions, Job
  <1>2. SameHash(Job(a))' = SameHash(Job(a))
    BY <1>1 DEF SameHash
  <1>3. CASE /\ \E c \in SameHash(Job(a)) : found' = [found EXCEPT ![a] = c]
             /\ Goto(a, "setDuplicate")
    <2>1. found'[a] \in SameHash(Job(a)) /\ pc'[a] = "setDuplicate"
      BY <1>3 DEF Goto, TypeOK, LocalsOK
    <2>2. found'[a] # None
      BY <2>1, IngestionAssumption DEF SameHash, TypeOK, SubmissionsOK
    <2>3. QED
      BY <1>2, <2>1, <2>2 DEF Learned, CaseKnown
  <1>4. CASE Goto(a, miss) /\ UNCHANGED found
    <2>1. pc'[a] = miss
      BY <1>4 DEF Goto, TypeOK, LocalsOK
    <2>2. QED
      BY <1>2, <1>4, <2>1 DEF Learned, CaseKnown
  <1>5. QED
    BY <1>3, <1>4 DEF LookUp

LEMMA ProcessLearned ==
    ASSUME ContributionInv, NEW a \in Actors, Process(a)
    PROVE  Learned(a)'
  <1>1. /\ TypeOK /\ Learned(a) /\ Step(a)
        /\ cases \subseteq cases'
    BY CasesGrow DEF Step, ContributionInv, AllLearned
  <1>2. {"getText", "find", "setFailed", "findAgain", "setRetry", "repush"}
            \subseteq Calls \ ({"idle", "setDuplicate", "setProcessed"} \cup CaseKnown)
    BY DEF Calls, ProcessingCalls, FailingCalls, CaseKnown
  <1>3. {"setProcessed"} \cup CaseKnown \subseteq Calls \ {"idle", "setDuplicate"}
        /\ "setProcessed" \notin CaseKnown
    BY DEF Calls, ProcessingCalls, CaseKnown
  <1>4. CASE GetSubmission(a) \/ GetText(a) \/ SetFailed(a)
    BY <1>1, <1>2, <1>4, GotoLearned, ProcessErrorLearned
       DEF GetSubmission, GetText, SetFailed, At
  <1>5. CASE Find(a) \/ FindAgain(a)
    BY <1>1, <1>5, LookUpLearned DEF Find, FindAgain, At
  <1>6. CASE CreateCase(a)
    <2>1. SameHash(Job(a)) = {} /\ cases' = cases \cup {Job(a)} => Job(a) \in cases'
      OBVIOUS
    <2>2. QED
      BY <1>1, <1>2, <1>3, <1>6, <2>1, GotoLearned DEF CreateCase, At
  <1>7. CASE SetProcessed(a) \/ SetDuplicate(a)
    <2>1. SameHash(Job(a)) # {}
      BY <1>1, <1>7 DEF SetProcessed, SetDuplicate, At, Learned, SameHash
    <2>2. pc[a] # "idle" /\ UNCHANGED locals /\ \E call \in CaseKnown : Goto(a, call)
      BY <1>7 DEF SetProcessed, SetDuplicate, At, CaseKnown
    <2>3. QED
      BY <1>1, <1>3, <2>1, <2>2, GotoLearned
  <1>8. CASE Delete(a) \/ SetRawDeleted(a)
    <2>1. SameHash(Job(a)) # {}
      BY <1>1, <1>8 DEF Delete, SetRawDeleted, At, Learned, CaseKnown
    <2>2. pc[a] # "idle" /\ UNCHANGED locals /\ \E call \in CaseKnown : Goto(a, call)
      BY <1>8 DEF Delete, SetRawDeleted, At, CaseKnown, Answer
    <2>3. QED
      BY <1>1, <1>3, <2>1, <2>2, GotoLearned
  <1>9. CASE GetCase(a)
    <2>1. SameHash(Job(a)) # {} /\ pc[a] # "idle"
      BY <1>1, <1>9 DEF GetCase, At, Learned, CaseKnown
    <2>2. CASE ProcessError(a)
      BY <1>1, <2>1, <2>2, ProcessErrorLearned
    <2>3. CASE Goto(a, "setDone") /\ UNCHANGED locals
      BY <1>1, <1>3, <2>1, <2>3, GotoLearned DEF CaseKnown
    <2>4. QED
      BY <1>9, <2>2, <2>3 DEF GetCase
  <1>10. CASE SetDone(a)
    BY <1>1, <1>10, ReturnLearned DEF SetDone
  <1>11. CASE GetJob(a)
    <2>1. CASE Goto(a, "setRetry") /\ UNCHANGED <<cur, found>>
      <3>1. Job(a)' = Job(a) /\ SameHash(Job(a))' = SameHash(Job(a))
        BY <1>11, <2>1 DEF Job, SameHash, GetJob, submissions
      <3>2. pc'[a] = "setRetry"
        BY <1>1, <2>1 DEF Goto, TypeOK, LocalsOK
      <3>3. QED
        BY <1>1, <2>1, <3>1, <3>2 DEF Learned, CaseKnown
    <2>2. QED
      BY <1>1, <1>11, <2>1, ReturnLearned DEF GetJob
  <1>12. CASE SetRetry(a)
    BY <1>1, <1>2, <1>12, ReturnLearned, GotoLearned DEF SetRetry, At
  <1>13. QED
    BY <1>4, <1>5, <1>6, <1>7, <1>8, <1>9, <1>10, <1>11, <1>12 DEF Process

LEMMA AllLearnedKept ==
    ASSUME ContributionInv, NEW a \in Actors, Step(a)
    PROVE  AllLearned'
  <1>1. Learned(a)'
    <2>1. CASE Crash(a)
      BY <2>1, ReturnLearned DEF Crash, ContributionInv
    <2>2. QED
      BY <2>1, HandlerLearned, WorkerLearned, ProcessLearned DEF Step
  <1>2. QED
    BY <1>1, OtherLearned DEF AllLearned

\* The actions that write a submission, seen from any submission s.
LEMMA PurgesAfterCase ==
    ASSUME ContributionInv, NEW a \in Actors, Step(a), NEW s \in Subs,
           raw'[s] = "deleted" \/ rawDeleted'[s]
    PROVE  SameHash(s) # {}
  <1>1. TypeOK /\ NoContributionLost /\ Learned(a)
    BY DEF ContributionInv, AllLearned
  <1>2. CASE raw[s] = "deleted" \/ rawDeleted[s]
    BY <1>1, <1>2 DEF NoContributionLost
  <1>3. CASE ~(raw[s] = "deleted" \/ rawDeleted[s])
    <2>1. Delete(a) \/ SetRawDeleted(a) \/ (a \in Subs /\ PutText(a)) \/ UNCHANGED <<raw, rawDeleted>>
      BY DEF Step, Handler, CreateSubmission, CreateJob, PushJob, Worker, Pop, Claim,
         Repush, Process, GetSubmission, GetText, Find, CreateCase, FindAgain, LookUp,
         SetFailed, SetProcessed, SetDuplicate, GetCase, SetDone, GetJob, SetRetry, Crash,
         submissions
    <2>2. ~(a \in Subs /\ PutText(a))
      BY <1>1, <1>3 DEF PutText, TypeOK, SubmissionsOK
    <2>3. Delete(a) \/ SetRawDeleted(a)
      BY <1>3, <2>1, <2>2
    <2>4. s = Job(a)
      BY <1>1, <1>3, <2>3 DEF Delete, SetRawDeleted, Ignored, TypeOK, SubmissionsOK
    <2>5. pc[a] \in CaseKnown
      BY <2>3 DEF Delete, SetRawDeleted, At, CaseKnown
    <2>6. QED
      BY <1>1, <2>4, <2>5 DEF Learned
  <1>4. QED
    BY <1>2, <1>3

LEMMA NoContributionLostKept ==
    ASSUME ContributionInv, NEW a \in Actors, Step(a)
    PROVE  NoContributionLost'
  <1>1. SUFFICES ASSUME NEW s \in Subs, raw'[s] = "deleted" \/ rawDeleted'[s]
                 PROVE  SameHash(s)' # {}
    BY DEF NoContributionLost
  <1>2. SameHash(s) # {}
    BY <1>1, PurgesAfterCase
  <1>3. QED
    BY <1>2, SameHashGrows

LEMMA DoneHasCaseKept ==
    ASSUME ContributionInv, NEW a \in Actors, Step(a)
    PROVE  DoneHasCase'
  <1>1. SUFFICES ASSUME NEW s \in Subs, jobStatus'[s] = "done"
                 PROVE  SameHash(s) # {}
    BY SameHashGrows DEF DoneHasCase
  <1>2. TypeOK /\ DoneHasCase /\ Learned(a)
    BY DEF ContributionInv, AllLearned
  <1>3. CASE jobStatus[s] = "done"
    BY <1>2, <1>3 DEF DoneHasCase
  <1>4. CASE jobStatus[s] # "done"
    <2>1. SetDone(a) /\ s = Job(a)
      BY <1>1, <1>2, <1>4 DEF Step, Handler, PutText, CreateSubmission, CreateJob, PushJob,
         Worker, Pop, Claim, SetRunning, Repush, Process, GetSubmission, GetText, Find,
         CreateCase, FindAgain, LookUp, SetFailed, SetProcessed, SetDuplicate, Delete,
         SetRawDeleted, GetCase, SetDone, GetJob, SetRetry, Ignored, Crash, jobs, TypeOK, JobsOK
    <2>2. QED
      BY <1>2, <2>1 DEF SetDone, At, Learned, CaseKnown
  <1>5. QED
    BY <1>3, <1>4

\* What the columns of one submission say together.
Outcome(s) ==
    /\ subStatus[s] = "duplicate" => dupOf[s] \in SameHash(s)
    /\ subStatus[s] = "processed" => s \in cases
    /\ subStatus[s] # "duplicate" => dupOf[s] = None

LEMMA OutcomeNamesItsCaseKept ==
    ASSUME ContributionInv, NEW a \in Actors, Step(a)
    PROVE  OutcomeNamesItsCase'
  <1>1. SUFFICES ASSUME NEW s \in Subs PROVE Outcome(s)'
    BY DEF OutcomeNamesItsCase, Outcome
  <1>2. TypeOK /\ Outcome(s) /\ Learned(a) /\ AcceptedAlone
    BY DEF ContributionInv, AllLearned, OutcomeNamesItsCase, Outcome
  <1>3. SameHash(s) \subseteq SameHash(s)' /\ cases \subseteq cases'
    BY SameHashGrows, CasesGrow
  <1>4. CASE subStatus'[s] = subStatus[s] /\ dupOf'[s] = dupOf[s]
    BY <1>2, <1>3, <1>4 DEF Outcome
  <1>5. CASE a = s /\ CreateSubmission(s)
    <2>1. dupOf'[s] = None
      BY <1>2, <1>5 DEF CreateSubmission, At, AcceptedAlone
    <2>2. subStatus'[s] \in {subStatus[s], "queued"}
      BY <1>2, <1>5 DEF CreateSubmission, TypeOK, SubmissionsOK
    <2>3. QED
      BY <1>2, <1>3, <1>5, <2>1, <2>2 DEF Outcome, CreateSubmission
  <1>6. CASE s = Job(a) /\ \E d \in {None} : UpdateSubmissionStatus(s, "failed", d)
    BY <1>1, <1>2, <1>6 DEF UpdateSubmissionStatus, Outcome, TypeOK, SubmissionsOK
  <1>7. CASE /\ s = Job(a) /\ pc[a] = "setProcessed"
             /\ UpdateSubmissionStatus(s, "processed", None)
    BY <1>1, <1>2, <1>3, <1>7 DEF UpdateSubmissionStatus, Outcome, Learned, TypeOK, SubmissionsOK
  <1>8. CASE /\ s = Job(a) /\ pc[a] = "setDuplicate"
             /\ UpdateSubmissionStatus(s, "duplicate", found[a])
    BY <1>1, <1>2, <1>3, <1>8 DEF UpdateSubmissionStatus, Outcome, Learned, TypeOK, SubmissionsOK
  <1>9. QED
    <2>1. CASE UNCHANGED <<subStatus, dupOf>>
      BY <1>4, <2>1
    <2>2. CASE a \in Subs /\ CreateSubmission(a)
      BY <1>2, <1>4, <1>5, <2>2 DEF CreateSubmission, TypeOK, SubmissionsOK
    <2>3. CASE SetFailed(a) \/ SetProcessed(a) \/ SetDuplicate(a)
      <3>1. CASE s # Job(a)
        <4>1. \A st, d : UpdateSubmissionStatus(Job(a), st, d) =>
                  subStatus'[s] = subStatus[s] /\ dupOf'[s] = dupOf[s]
          BY <1>1, <1>2, <3>1 DEF UpdateSubmissionStatus, TypeOK, SubmissionsOK
        <4>2. QED
          BY <1>4, <2>1, <2>3, <4>1 DEF SetFailed, SetProcessed, SetDuplicate, Ignored
      <3>2. CASE s = Job(a)
        BY <1>6, <1>7, <1>8, <2>1, <2>3, <3>2 DEF SetFailed, SetProcessed, SetDuplicate, Ignored, At
      <3>3. QED
        BY <3>1, <3>2
    <2>4. QED
      BY <2>1, <2>2, <2>3 DEF Step, Handler, PutText, CreateJob, PushJob, Worker, Pop, Claim,
         Repush, Process, GetSubmission, GetText, Find, CreateCase, FindAgain, LookUp,
         Delete, SetRawDeleted, GetCase, SetDone, GetJob, SetRetry, Crash, submissions

LEMMA ContributionStep == ContributionInv /\ [Next]_vars => ContributionInv'
  <1>1. ASSUME ContributionInv, NEW a \in Actors, Step(a), Next
        PROVE  ContributionInv'
    <2>1. TypeOK'
      BY <1>1, TypedStep DEF ContributionInv
    <2>2. QED
      BY <1>1, <2>1, AcceptedAloneKept, AllLearnedKept, NoContributionLostKept,
         OutcomeNamesItsCaseKept, DoneHasCaseKept DEF ContributionInv
  <1>2. ASSUME ContributionInv, UNCHANGED vars
        PROVE  ContributionInv'
    <2>1. TypeOK'
      BY <1>2, TypedStep DEF ContributionInv
    <2>2. QED
      BY <1>2, <2>1 DEF ContributionInv, AcceptedAlone, Unknown, InQueue, AllLearned, Learned,
         Job, SameHash, NoContributionLost, OutcomeNamesItsCase, DoneHasCase, vars,
         submissions, jobs, locals
  <1>3. QED
    BY <1>1, <1>2, NextIsStep

LEMMA InitContribution == Init => ContributionInv
  <1>1. ASSUME Init PROVE TypeOK
    BY <1>1, IngestionAssumption DEF Init, TypeOK, SubmissionsOK, JobsOK, LocalsOK, Actors, Calls
  <1>2. ASSUME Init PROVE AcceptedAlone /\ AllLearned
    BY <1>2, IngestionAssumption DEF Init, AcceptedAlone, Unknown, InQueue, AllLearned,
       Learned, Actors, CaseKnown
  <1>3. ASSUME Init PROVE NoContributionLost /\ OutcomeNamesItsCase /\ DoneHasCase
    BY <1>3 DEF Init, NoContributionLost, OutcomeNamesItsCase, DoneHasCase
  <1>4. QED
    BY <1>1, <1>2, <1>3 DEF ContributionInv

LEMMA ContributionInvariant == Spec => []ContributionInv
  BY InitContribution, ContributionStep, PTL DEF Spec

\* No raw text is deleted before a case holds its redacted content, for any
\* number of submissions, workers, hash classes and failures.
THEOREM ContributionsSafe == Spec => []NoContributionLost
  BY ContributionInvariant, PTL DEF ContributionInv

\* The outcome a contributor polls names an existing case of the same hash.
THEOREM OutcomesHold == Spec => []OutcomeNamesItsCase
  BY ContributionInvariant, PTL DEF ContributionInv

\* A job is recorded as done only when its content is in a case.
THEOREM DoneJobsHold == Spec => []DoneHasCase
  BY ContributionInvariant, PTL DEF ContributionInv

-----------------------------------------------------------------------------
(* Attempts: who may still write the status of a job, and what each step   *)
(* does to the job of one submission.                                      *)

\* The calls at which an actor holds an attempt: a worker from its claim to
\* the write that ends it, a handler while it records a failed push.
HoldingCalls(a) ==
    IF a \in Workers THEN ProcessingCalls \cup FailingCalls ELSE FailingCalls

Holds(a, s) == Job(a) = s /\ pc[a] \in HoldingCalls(a)

\* The holder has read attempts below the limit and is about to write retry.
WillRetry(a, s) == Holds(a, s) /\ At(a, "setRetry") /\ retry[a]

JobKept(s) == jobStatus'[s] = jobStatus[s] /\ attempts'[s] = attempts[s]

Quiet(a, s) ==
    /\ JobKept(s)
    /\ Holds(a, s)' => Holds(a, s)
    /\ ~(Holds(a, s)' /\ At(a, "setRetry")')

Decides(a, s) ==
    /\ JobKept(s) /\ Holds(a, s)
    /\ At(a, "setRetry")' /\ retry'[a] = MayRetry(s)

Accepts(a, s) ==
    /\ a = s /\ pc[s] = "createJob"
    /\ jobStatus'[s] = "queued" /\ attempts'[s] = attempts[s]
    /\ ~Holds(a, s)'

PushFails(a, s) ==
    /\ a = s /\ pc[s] = "push" /\ JobKept(s)
    /\ ~At(a, "setRetry")'

Claims(a, s) ==
    /\ a \in Workers /\ cur[a] = s /\ Claimable(s)
    /\ jobStatus'[s] = "running" /\ attempts'[s] = attempts[s] + 1
    /\ ~Holds(a, s) /\ ~At(a, "setRetry")'

Finishes(a, s) ==
    /\ Job(a) = s /\ At(a, "setDone")
    /\ jobStatus'[s] = "done" /\ attempts'[s] = attempts[s]
    /\ ~Holds(a, s)'

Ends(a, s) ==
    /\ Holds(a, s) /\ At(a, "setRetry")
    /\ jobStatus'[s] = (IF retry[a] THEN "retry" ELSE "failed")
    /\ attempts'[s] = attempts[s]
    /\ ~Holds(a, s)'

LEMMA OthersHold ==
    ASSUME TypeOK, NEW a \in Actors, Step(a), NEW b \in Actors, b # a, NEW s
    PROVE  /\ Holds(b, s)' <=> Holds(b, s)
           /\ WillRetry(b, s)' <=> WillRetry(b, s)
           /\ At(b, "setRetry")' <=> At(b, "setRetry")
           /\ retry'[b] = retry[b]
  <1>1. pc'[b] = pc[b] /\ Job(b)' = Job(b)
    BY OthersKeep
  <1>2. retry'[b] = retry[b]
    <2>1. CASE a \in Subs /\ Handler(a)
      BY <2>1 DEF Handler, PutText, CreateSubmission, CreateJob, PushJob, Return, Goto, locals,
         TypeOK, LocalsOK
    <2>2. CASE a \in Workers /\ Worker(a)
      BY <2>2 DEF Worker, Pop, Claim, Repush, Return, Goto, locals, TypeOK, LocalsOK
    <2>3. CASE Process(a) \/ Crash(a)
      BY <2>3 DEF Process, GetSubmission, GetText, Find, CreateCase, FindAgain, LookUp,
         SetFailed, SetProcessed, SetDuplicate, Delete, SetRawDeleted, GetCase, SetDone,
         GetJob, SetRetry, Crash, ProcessError, Return, Goto, locals, TypeOK, LocalsOK
    <2>4. QED
      BY <2>1, <2>2, <2>3 DEF Step
  <1>3. Holds(b, s)' <=> Holds(b, s)
    BY <1>1 DEF Holds, HoldingCalls
  <1>4. QED
    BY <1>1, <1>2, <1>3 DEF WillRetry, At

\* An actor that returns holds nothing, whatever it held.
LEMMA ReturnHolds ==
    ASSUME TypeOK, NEW a \in Actors, Return(a), NEW s
    PROVE  ~Holds(a, s)' /\ ~At(a, "setRetry")'
  <1>1. pc'[a] \in {"idle", "end"}
    BY DEF Return, TypeOK, LocalsOK
  <1>2. QED
    BY <1>1 DEF Holds, HoldingCalls, ProcessingCalls, FailingCalls, At

\* An actor that goes on for the same job holds it after the step only if it
\* did before, unless the call is the first of an attempt.
LEMMA GotoHolds ==
    ASSUME TypeOK, NEW a \in Actors, NEW call, Goto(a, call), UNCHANGED cur, NEW s,
           call \in HoldingCalls(a) => pc[a] \in HoldingCalls(a)
    PROVE  /\ Holds(a, s)' => Holds(a, s)
           /\ At(a, "setRetry")' => call = "setRetry"
  BY DEF Goto, TypeOK, LocalsOK, Holds, HoldingCalls, Job, At

LEMMA ProcessErrorHolds ==
    ASSUME TypeOK, NEW a \in Actors, ProcessError(a), NEW s,
           pc[a] \in ProcessingCalls \cup FailingCalls
    PROVE  /\ Holds(a, s)' => Holds(a, s)
           /\ ~At(a, "setRetry")'
  <1>1. CASE a \in Workers /\ Goto(a, "getJob") /\ UNCHANGED locals
    BY <1>1, GotoHolds DEF HoldingCalls, locals
  <1>2. QED
    BY <1>1, ReturnHolds DEF ProcessError

LEMMA JobStepHandler ==
    ASSUME TypeOK, NEW a \in Subs, Handler(a), NEW s \in Subs
    PROVE  Quiet(a, s) \/ Accepts(a, s) \/ PushFails(a, s)
  <1>1. a \in Actors /\ a \notin Workers /\ Job(a) = a
    BY IngestionAssumption DEF Actors, Job
  <1>2. HoldingCalls(a) = {"getJob", "setRetry"}
    BY <1>1 DEF HoldingCalls, FailingCalls
  <1>3. Return(a) => ~Holds(a, s)' /\ ~At(a, "setRetry")'
    BY <1>1, ReturnHolds
  <1>4. \A call : /\ Goto(a, call) /\ UNCHANGED locals /\ call \notin {"getJob", "setRetry"}
                  => ~Holds(a, s)' /\ ~WillRetry(a, s)'
    BY <1>1, <1>2 DEF Goto, TypeOK, LocalsOK, Holds, HoldingCalls, WillRetry, At, locals
  <1>5. CASE PutText(a) \/ CreateSubmission(a)
    BY <1>3, <1>4, <1>5 DEF PutText, CreateSubmission, Quiet, JobKept, jobs, WillRetry
  <1>6. CASE CreateJob(a)
    <2>1. CASE UNCHANGED jobs /\ Return(a)
      BY <1>3, <2>1 DEF Quiet, JobKept, jobs, WillRetry
    <2>2. CASE /\ jobStatus' = [jobStatus EXCEPT ![a] = "queued"] /\ UNCHANGED attempts
               /\ ~Holds(a, s)' /\ ~WillRetry(a, s)'
      <3>1. CASE s = a
        BY <1>6, <2>2, <3>1 DEF Accepts, CreateJob, At, TypeOK, JobsOK
      <3>2. CASE s # a
        BY <2>2, <3>2 DEF Quiet, JobKept, TypeOK, JobsOK
      <3>3. QED
        BY <3>1, <3>2
    <2>3. QED
      BY <1>3, <1>4, <1>6, <2>1, <2>2 DEF CreateJob, jobs, WillRetry
  <1>7. CASE PushJob(a)
    <2>1. JobKept(s)
      BY <1>7 DEF PushJob, JobKept, jobs
    <2>2. CASE Return(a)
      BY <1>3, <2>1, <2>2 DEF Quiet, WillRetry
    <2>3. CASE Goto(a, "getJob") /\ UNCHANGED locals
      <3>1. ~At(a, "setRetry")'
        BY <1>1, <2>3 DEF Goto, TypeOK, LocalsOK, At
      <3>2. s # a => ~Holds(a, s)'
        BY <1>1 DEF Holds, Job
      <3>3. QED
        BY <1>7, <2>1, <3>1, <3>2 DEF Quiet, PushFails, WillRetry, PushJob, At
    <2>4. QED
      BY <1>7, <2>2, <2>3 DEF PushJob
  <1>8. QED
    BY <1>5, <1>6, <1>7 DEF Handler

LEMMA JobStepWorker ==
    ASSUME TypeOK, NEW a \in Workers, Worker(a), NEW s \in Subs
    PROVE  Quiet(a, s) \/ Claims(a, s)
  <1>1. a \in Actors /\ Job(a) = cur[a]
    BY DEF Actors, Job
  <1>2. Return(a) => ~Holds(a, s)' /\ ~At(a, "setRetry")'
    BY <1>1, ReturnHolds
  <1>3. CASE Pop(a)
    <2>1. pc'[a] \in {"idle", "claim"}
      BY <1>1, <1>3 DEF Pop, At, Goto, TypeOK, LocalsOK
    <2>2. ~Holds(a, s)' /\ ~WillRetry(a, s)'
      BY <2>1 DEF Holds, HoldingCalls, ProcessingCalls, FailingCalls, WillRetry
    <2>3. QED
      BY <1>3, <2>2 DEF Quiet, JobKept, Pop, jobs
  <1>4. CASE Claim(a)
    <2>1. ~Holds(a, s)
      BY <1>4 DEF Claim, At, Holds, HoldingCalls, ProcessingCalls, FailingCalls
    <2>2. CASE UNCHANGED jobs /\ Return(a)
      BY <1>2, <2>2 DEF Quiet, JobKept, jobs, WillRetry
    <2>3. CASE /\ Claimable(cur[a]) /\ SetRunning(cur[a])
               /\ Return(a) \/ (Goto(a, "getSubmission") /\ UNCHANGED locals)
      <3>1. ~At(a, "setRetry")'
        BY <1>1, <1>2, <2>3 DEF Goto, TypeOK, LocalsOK, At
      <3>2. CASE cur[a] = s
        BY <2>1, <2>3, <3>1, <3>2 DEF Claims, SetRunning, TypeOK, JobsOK
      <3>3. CASE cur[a] # s
        <4>1. ~Holds(a, s)'
          BY <1>1, <1>2, <2>3, <3>3 DEF Holds, locals, Job
        <4>2. QED
          BY <2>3, <3>3, <4>1 DEF Quiet, JobKept, SetRunning, WillRetry, TypeOK, JobsOK
      <3>4. QED
        BY <3>2, <3>3
    <2>4. QED
      BY <1>4, <2>2, <2>3 DEF Claim, jobs
  <1>5. CASE Repush(a)
    BY <1>2, <1>5 DEF Repush, Quiet, JobKept, jobs, WillRetry
  <1>6. QED
    BY <1>3, <1>4, <1>5 DEF Worker

LEMMA JobStepProcess ==
    ASSUME TypeOK, NEW a \in Actors, Process(a), NEW s \in Subs
    PROVE  Quiet(a, s) \/ Decides(a, s) \/ Finishes(a, s) \/ Ends(a, s)
  <1>1. Return(a) => ~Holds(a, s)' /\ ~At(a, "setRetry")'
    BY ReturnHolds
  <1>2. pc[a] \in ProcessingCalls \cup FailingCalls
    BY DEF Process, GetSubmission, GetText, Find, CreateCase, FindAgain, SetFailed,
       SetProcessed, SetDuplicate, Delete, SetRawDeleted, GetCase, SetDone, GetJob, SetRetry,
       At, ProcessingCalls, FailingCalls
  <1>3. ProcessError(a) => (Holds(a, s)' => Holds(a, s)) /\ ~At(a, "setRetry")'
    BY <1>2, ProcessErrorHolds
  <1>4. \A call \in ProcessingCalls :
            Goto(a, call) /\ UNCHANGED cur => (Holds(a, s)' => Holds(a, s)) /\ ~At(a, "setRetry")'
    <2>1. SUFFICES ASSUME NEW call \in ProcessingCalls, Goto(a, call), UNCHANGED cur
                   PROVE  (Holds(a, s)' => Holds(a, s)) /\ ~At(a, "setRetry")'
      OBVIOUS
    <2>2. pc'[a] = call /\ call \notin {"getJob", "setRetry"}
      BY <2>1 DEF Goto, TypeOK, LocalsOK, ProcessingCalls
    <2>3. Job(a)' = Job(a)
      BY <2>1 DEF Job
    <2>4. QED
      BY <1>2, <2>2, <2>3 DEF Holds, HoldingCalls, At, FailingCalls
  <1>5. CASE GetSubmission(a) \/ GetText(a) \/ Find(a) \/ CreateCase(a) \/ FindAgain(a)
    BY <1>3, <1>4, <1>5 DEF GetSubmission, GetText, Find, CreateCase, FindAgain, LookUp,
       ProcessingCalls, Quiet, JobKept, jobs, locals, WillRetry
  <1>6. CASE SetFailed(a) \/ SetProcessed(a) \/ SetDuplicate(a)
    BY <1>3, <1>4, <1>6 DEF SetFailed, SetProcessed, SetDuplicate,
       ProcessingCalls, Quiet, JobKept, jobs, locals, WillRetry
  <1>7. CASE Delete(a) \/ SetRawDeleted(a) \/ GetCase(a)
    BY <1>3, <1>4, <1>7 DEF Delete, SetRawDeleted, GetCase, Answer,
       ProcessingCalls, Quiet, JobKept, jobs, locals, WillRetry
  <1>8. CASE SetDone(a)
    <2>1. CASE UNCHANGED jobStatus \/ s # Job(a)
      BY <1>1, <1>8, <2>1 DEF SetDone, Ignored, Quiet, JobKept, WillRetry, TypeOK, JobsOK
    <2>2. QED
      BY <1>1, <1>8, <2>1 DEF SetDone, Ignored, Finishes, TypeOK, JobsOK
  <1>9. CASE GetJob(a)
    <2>1. JobKept(s) /\ pc[a] = "getJob"
      BY <1>9 DEF GetJob, JobKept, jobs, At
    <2>2. CASE Return(a)
      BY <1>1, <2>1, <2>2 DEF Quiet, WillRetry
    <2>3. CASE /\ retry' = [retry EXCEPT ![a] = MayRetry(Job(a))]
               /\ Goto(a, "setRetry")
               /\ UNCHANGED <<cur, found, faults>>
      <3>1. pc'[a] = "setRetry" /\ Job(a)' = Job(a) /\ retry'[a] = MayRetry(Job(a))
        BY <2>3 DEF Goto, Job, TypeOK, LocalsOK
      <3>2. CASE Job(a) = s
        BY <2>1, <3>1, <3>2 DEF Decides, Holds, HoldingCalls, FailingCalls, At
      <3>3. CASE Job(a) # s
        BY <2>1, <3>1, <3>3 DEF Quiet, Holds, WillRetry
      <3>4. QED
        BY <3>2, <3>3
    <2>4. QED
      BY <1>9, <2>2, <2>3 DEF GetJob
  <1>10. CASE SetRetry(a)
    <2>1. ~Holds(a, s)'
      <3>1. Goto(a, "repush") => pc'[a] = "repush"
        BY DEF Goto, TypeOK, LocalsOK
      <3>2. "repush" \notin HoldingCalls(a)
        BY DEF HoldingCalls, ProcessingCalls, FailingCalls
      <3>3. HoldingCalls(a)' = HoldingCalls(a)
        BY DEF HoldingCalls
      <3>4. QED
        BY <1>1, <1>10, <3>1, <3>2, <3>3 DEF SetRetry, Holds
    <2>2. CASE UNCHANGED jobStatus \/ s # Job(a)
      BY <1>10, <2>1, <2>2 DEF SetRetry, Quiet, JobKept, WillRetry, TypeOK, JobsOK
    <2>3. CASE ~UNCHANGED jobStatus /\ s = Job(a)
      <3>1. Holds(a, s)
        BY <1>10, <2>3 DEF SetRetry, At, Holds, HoldingCalls, FailingCalls
      <3>2. jobStatus' = [jobStatus EXCEPT ![s] = IF retry[a] THEN "retry" ELSE "failed"]
        BY <1>10, <2>3 DEF SetRetry
      <3>3. QED
        BY <1>10, <2>1, <3>1, <3>2 DEF SetRetry, Ends, TypeOK, JobsOK
    <2>4. QED
      BY <2>2, <2>3
  <1>11. QED
    BY <1>5, <1>6, <1>7, <1>8, <1>9, <1>10 DEF Process

LEMMA JobStep ==
    ASSUME TypeOK, NEW a \in Actors, Step(a), NEW s \in Subs
    PROVE  \/ Quiet(a, s) \/ Decides(a, s) \/ Accepts(a, s) \/ PushFails(a, s)
           \/ Claims(a, s) \/ Finishes(a, s) \/ Ends(a, s)
  <1>1. CASE Crash(a)
    BY <1>1, ReturnHolds DEF Crash, Quiet, JobKept, jobs, WillRetry
  <1>2. QED
    BY <1>1, JobStepHandler, JobStepWorker, JobStepProcess DEF Step

-----------------------------------------------------------------------------
(* The bound on attempts with every fault.  A job starts with two parties: *)
(* its queued row and the handler that may still record a failed push.  A  *)
(* claim turns the row into a worker and a failed attempt turns the worker *)
(* into a row again, so there are never three; each party that was told to *)
(* retry before the limit was reached costs one attempt beyond it at most. *)

TwoParties(s) ==
    /\ \A a, b, c \in Actors :
           Holds(a, s) /\ Holds(b, s) /\ Holds(c, s) => a = b \/ b = c \/ a = c
    /\ Claimable(s) => \A a, b \in Actors : Holds(a, s) /\ Holds(b, s) => a = b

BelowLimit(s) == attempts[s] < MaxAttempts

AtLimit(s) ==
    /\ attempts[s] = MaxAttempts
    /\ \A a, b \in Actors : WillRetry(a, s) /\ WillRetry(b, s) => a = b
    /\ Claimable(s) => \A a \in Actors : ~WillRetry(a, s)

BeyondLimit(s) ==
    /\ attempts[s] = MaxAttempts + 1
    /\ ~Claimable(s) /\ \A a \in Actors : ~WillRetry(a, s)

Unstarted(s) ==
    /\ jobStatus[s] = "absent" => attempts[s] = 0
    /\ pc[s] \in Accepting \ {"push"} => jobStatus[s] = "absent"

Overrun(s) ==
    /\ TwoParties(s)
    /\ BelowLimit(s) \/ AtLimit(s) \/ BeyondLimit(s)
    /\ Unstarted(s)

OverrunInv == ContributionInv /\ \A s \in Subs : Overrun(s)

\* Nobody but the handler holds a job that has not been pushed.
LEMMA UnknownIsFree ==
    ASSUME TypeOK, NEW s \in Subs, Unknown(s), NEW b \in Actors, Holds(b, s)
    PROVE  b = s
  BY DEF Unknown, Holds, Job, Actors

LEMMA TwoPartiesKept ==
    ASSUME ContributionInv, NEW a \in Actors, Step(a), NEW s \in Subs, TwoParties(s)
    PROVE  TwoParties(s)'
  <1>1. TypeOK /\ AcceptedAlone
    BY DEF ContributionInv
  <1>2. \A b \in Actors : b # a => (Holds(b, s)' <=> Holds(b, s))
    BY <1>1, OthersHold
  <1>3. CASE Quiet(a, s) \/ Decides(a, s)
    <2>1. Claimable(s)' => Claimable(s)
      BY <1>3 DEF Quiet, Decides, JobKept, Claimable
    <2>2. Holds(a, s)' => Holds(a, s)
      BY <1>3 DEF Quiet, Decides
    <2>3. QED
      BY <1>2, <2>1, <2>2 DEF TwoParties
  <1>4. CASE Accepts(a, s) \/ PushFails(a, s)
    <2>1. a = s /\ Unknown(s)
      BY <1>1, <1>4 DEF Accepts, PushFails, AcceptedAlone, Accepting
    <2>2. \A b \in Actors : Holds(b, s)' => b = s
      BY <1>1, <1>2, <2>1, UnknownIsFree
    <2>3. QED
      BY <2>2 DEF TwoParties
  <1>5. CASE Claims(a, s)
    <2>1. ~Claimable(s)'
      BY <1>5 DEF Claims, Claimable
    <2>2. \A b, c \in Actors : b # a /\ c # a /\ Holds(b, s)' /\ Holds(c, s)' => b = c
      BY <1>2, <1>5 DEF Claims, TwoParties
    <2>3. QED
      BY <2>1, <2>2 DEF TwoParties
  <1>6. CASE Finishes(a, s)
    <2>1. ~Claimable(s)' /\ ~Holds(a, s)'
      BY <1>6 DEF Finishes, Claimable
    <2>2. QED
      BY <1>2, <2>1 DEF TwoParties
  <1>7. CASE Ends(a, s)
    <2>1. Holds(a, s) /\ ~Holds(a, s)'
      BY <1>7 DEF Ends
    <2>2. \A b, c \in Actors : Holds(b, s)' /\ Holds(c, s)' => b = c
      BY <1>2, <2>1 DEF TwoParties
    <2>3. QED
      BY <2>2 DEF TwoParties
  <1>8. QED
    BY <1>1, <1>3, <1>4, <1>5, <1>6, <1>7, JobStep

LEMMA LimitKept ==
    ASSUME ContributionInv, NEW a \in Actors, Step(a), NEW s \in Subs, Overrun(s)
    PROVE  BelowLimit(s)' \/ AtLimit(s)' \/ BeyondLimit(s)'
  <1>1. /\ TypeOK /\ TwoParties(s) /\ Unstarted(s)
        /\ BelowLimit(s) \/ AtLimit(s) \/ BeyondLimit(s)
        /\ attempts[s] \in Nat /\ MaxAttempts \in Nat \ {0}
    BY IngestionAssumption DEF ContributionInv, Overrun, TypeOK, JobsOK
  <1>2. \A b \in Actors : b # a => (WillRetry(b, s)' <=> WillRetry(b, s))
    BY <1>1, OthersHold
  <1>3. CASE BelowLimit(s) /\ attempts'[s] = attempts[s]
    BY <1>3 DEF BelowLimit
  <1>4. CASE ~BelowLimit(s) /\ Quiet(a, s)
    <2>1. \A b \in Actors : WillRetry(b, s)' => WillRetry(b, s)
      BY <1>2, <1>4 DEF Quiet, WillRetry
    <2>2. attempts'[s] = attempts[s] /\ (Claimable(s)' <=> Claimable(s))
      BY <1>4 DEF Quiet, JobKept, Claimable
    <2>3. QED
      BY <1>1, <1>4, <2>1, <2>2 DEF AtLimit, BeyondLimit
  <1>5. CASE ~BelowLimit(s) /\ (Decides(a, s) \/ PushFails(a, s))
    <2>1. ~WillRetry(a, s)'
      BY <1>1, <1>5 DEF Decides, PushFails, BelowLimit, MayRetry, WillRetry
    <2>2. attempts'[s] = attempts[s] /\ (Claimable(s)' <=> Claimable(s))
      BY <1>5 DEF Decides, PushFails, JobKept, Claimable
    <2>3. QED
      BY <1>1, <1>2, <1>5, <2>1, <2>2 DEF AtLimit, BeyondLimit
  <1>6. CASE Accepts(a, s)
    <2>1. attempts[s] = 0
      BY <1>1, <1>6 DEF Accepts, Unstarted, Accepting
    <2>2. QED
      BY <1>1, <1>6, <2>1 DEF Accepts, BelowLimit
  <1>7. CASE Claims(a, s)
    <2>1. /\ attempts'[s] = attempts[s] + 1 /\ Claimable(s)
          /\ ~Claimable(s)' /\ ~WillRetry(a, s)'
      BY <1>7 DEF Claims, Claimable, WillRetry
    <2>2. CASE BelowLimit(s)
      <3>1. \A b, c \in Actors : WillRetry(b, s)' /\ WillRetry(c, s)' => b = c
        BY <1>1, <1>2, <2>1 DEF TwoParties, WillRetry
      <3>2. attempts'[s] < MaxAttempts \/ attempts'[s] = MaxAttempts
        BY <1>1, <2>1, <2>2 DEF BelowLimit
      <3>3. QED
        BY <2>1, <3>1, <3>2 DEF BelowLimit, AtLimit
    <2>3. CASE AtLimit(s)
      BY <1>1, <1>2, <2>1, <2>3 DEF AtLimit, BeyondLimit
    <2>4. QED
      BY <1>1, <2>1, <2>2, <2>3 DEF BeyondLimit
  <1>8. CASE ~BelowLimit(s) /\ Finishes(a, s)
    <2>1. attempts'[s] = attempts[s] /\ ~Claimable(s)' /\ ~WillRetry(a, s)'
      BY <1>8 DEF Finishes, Claimable, WillRetry
    <2>2. QED
      BY <1>1, <1>2, <1>8, <2>1 DEF AtLimit, BeyondLimit
  <1>9. CASE ~BelowLimit(s) /\ Ends(a, s)
    <2>1. /\ attempts'[s] = attempts[s] /\ ~WillRetry(a, s)'
          /\ Claimable(s)' => WillRetry(a, s)
      BY <1>9 DEF Ends, WillRetry, Claimable
    <2>2. CASE AtLimit(s)
      BY <1>2, <2>1, <2>2 DEF AtLimit
    <2>3. CASE BeyondLimit(s)
      BY <1>2, <2>1, <2>3 DEF BeyondLimit
    <2>4. QED
      BY <1>1, <1>9, <2>2, <2>3
  <1>10. attempts'[s] = attempts[s] \/ Claims(a, s)
    BY <1>1, JobStep DEF Quiet, Decides, Accepts, PushFails, Finishes, Ends, JobKept
  <1>11. QED
    BY <1>1, <1>3, <1>4, <1>5, <1>6, <1>7, <1>8, <1>9, <1>10, JobStep

LEMMA UnstartedKept ==
    ASSUME ContributionInv, NEW a \in Actors, Step(a), NEW s \in Subs, Unstarted(s)
    PROVE  Unstarted(s)'
  <1>1. TypeOK /\ s \in Actors
    BY DEF ContributionInv, Actors
  <1>2. jobStatus'[s] = "absent" => JobKept(s)
    BY <1>1, JobStep DEF Quiet, Decides, Accepts, PushFails, Claims, Finishes, Ends, JobKept
  <1>3. ASSUME pc'[s] \in Accepting \ {"push"}
        PROVE  pc[s] \in Accepting \ {"push"} /\ JobKept(s)
    <2>1. pc[s] \in Accepting /\ Unknown(s)
      BY <1>3, UnknownKept
    <2>2. CASE a = s
      <3>1. Handler(s)
        BY <1>1, <1>3, <2>2, ProcessLeaves, IngestionAssumption DEF Step, Accepting
      <3>2. PutText(s) \/ CreateSubmission(s)
        BY <1>1, <1>3, <3>1 DEF Handler, CreateJob, PushJob, Return, Goto, TypeOK, LocalsOK,
           Accepting
      <3>3. QED
        BY <3>2 DEF PutText, CreateSubmission, At, Accepting, JobKept, jobs
    <2>3. CASE a # s
      <3>1. pc[s] \in Accepting \ {"push"}
        BY <1>1, <1>3, <2>3, OthersKeep
      <3>2. ~Holds(a, s) /\ Job(a) # s
        BY <2>1, <2>3, <1>1 DEF Unknown, Holds, Job, Actors
      <3>3. jobStatus[s] = "absent"
        BY <3>1 DEF Unstarted
      <3>4. QED
        BY <1>1, <2>3, <3>1, <3>2, <3>3, JobStep
           DEF Quiet, Decides, Accepts, PushFails, Claims, Claimable, Finishes, Ends
    <2>4. QED
      BY <2>2, <2>3
  <1>4. QED
    BY <1>2, <1>3 DEF Unstarted, JobKept

LEMMA OverrunStep == OverrunInv /\ [Next]_vars => OverrunInv'
  <1>1. ASSUME OverrunInv, NEW a \in Actors, Step(a), Next
        PROVE  OverrunInv'
    BY <1>1, ContributionStep, TwoPartiesKept, LimitKept, UnstartedKept DEF OverrunInv, Overrun
  <1>2. ASSUME OverrunInv, UNCHANGED vars
        PROVE  OverrunInv'
    <2>1. ContributionInv'
      BY <1>2, ContributionStep DEF OverrunInv
    <2>2. ASSUME NEW s \in Subs PROVE Overrun(s)'
      <3>1. /\ Overrun(s)
            /\ \A b \in Actors : (Holds(b, s)' <=> Holds(b, s))
                                 /\ (WillRetry(b, s)' <=> WillRetry(b, s))
        BY <1>2 DEF OverrunInv, vars, locals, Holds, HoldingCalls, Job, WillRetry, At
      <3>2. pc' = pc /\ jobStatus' = jobStatus /\ attempts' = attempts
        BY <1>2 DEF vars, jobs
      <3>3. QED
        BY <3>1, <3>2 DEF Overrun, TwoParties, Claimable, BelowLimit, AtLimit, BeyondLimit,
           Unstarted
    <2>3. QED
      BY <2>1, <2>2 DEF OverrunInv
  <1>3. QED
    BY <1>1, <1>2, NextIsStep

\* In the beginning no actor holds a job: all workers wait and all requests
\* are still to come.
LEMMA InitHoldsNone ==
    ASSUME Init, NEW a \in Actors, NEW s
    PROVE  ~Holds(a, s)
  <1>1. pc[a] \in {"idle", "start"}
    BY DEF Init
  <1>2. QED
    BY <1>1 DEF Holds, HoldingCalls, ProcessingCalls, FailingCalls

LEMMA InitOverrun == Init => OverrunInv
  <1>1. ASSUME Init, NEW s \in Subs PROVE Overrun(s)
    <2>1. attempts[s] = 0 /\ jobStatus[s] = "absent" /\ BelowLimit(s)
      BY <1>1, IngestionAssumption DEF Init, BelowLimit
    <2>2. QED
      BY <1>1, <2>1, InitHoldsNone DEF Overrun, TwoParties, Unstarted
  <1>2. QED
    BY <1>1, InitContribution DEF OverrunInv

\* A job is attempted at most MaxAttempts times, once more when the handler
\* overwrites its status after an unacknowledged push: whatever fails, however
\* often the id is delivered and however many workers run.
THEOREM AttemptsBounded == Spec => []AttemptsOverrunByOne
  <1>1. OverrunInv => AttemptsOverrunByOne
    <2>1. ASSUME OverrunInv, NEW s \in Subs PROVE attempts[s] <= MaxAttempts + 1
      <3>1. attempts[s] \in Nat /\ MaxAttempts \in Nat
        BY <2>1, IngestionAssumption DEF OverrunInv, ContributionInv, TypeOK, JobsOK
      <3>2. QED
        BY <2>1, <3>1 DEF OverrunInv, Overrun, BelowLimit, AtLimit, BeyondLimit
    <2>2. QED
      BY <2>1 DEF AttemptsOverrunByOne
  <1>2. QED
    BY <1>1, InitOverrun, OverrunStep, PTL DEF Spec

-----------------------------------------------------------------------------
(* One attempt at a time, when every delivered push is acknowledged: the    *)
(* handler is done with its job before a worker can know the id.            *)

\* Until its handler has ended nobody else knows a job, which then waits.
HandlerFirst(s) ==
    /\ pc[s] # "end" => Unknown(s)
    /\ pc[s] \in {"push"} \cup ProcessingCalls \cup FailingCalls =>
           jobStatus[s] = "queued" /\ attempts[s] = 0

OneHolder(s) ==
    /\ \A a, b \in Actors : Holds(a, s) /\ Holds(b, s) => a = b
    /\ \A w \in Workers : Holds(w, s) => jobStatus[s] = "running"

\* What is read of attempts is still true when the status is written.
ReadHolds(s) ==
    /\ Claimable(s) => attempts[s] < MaxAttempts
    /\ jobStatus[s] = "running" => attempts[s] <= MaxAttempts
    /\ \A a \in Actors : Holds(a, s) /\ At(a, "setRetry") => retry[a] = MayRetry(s)

Attempt(s) == HandlerFirst(s) /\ OneHolder(s) /\ ReadHolds(s)

AttemptInv == OverrunInv /\ \A s \in Subs : Attempt(s)

LEMMA HandlerEnds ==
    ASSUME TypeOK, NEW s \in Subs, Step(s)
    PROVE  /\ pc[s] # "end"
           /\ pc[s] \in {"setDone", "setRetry"} => pc'[s] = "end"
           /\ "unacked" \notin Faults /\ pc'[s] # "end" => queue' = queue
  <1>1. s \in Actors /\ s \notin Workers
    BY IngestionAssumption DEF Actors
  <1>2. CASE Handler(s)
    BY <1>1, <1>2 DEF Handler, PutText, CreateSubmission, CreateJob, PushJob, Fail, Return, At,
       TypeOK, LocalsOK
  <1>3. CASE Process(s)
    <2>1. pc[s] # "end"
      BY <1>3 DEF Process, GetSubmission, GetText, Find, CreateCase, FindAgain, SetFailed,
         SetProcessed, SetDuplicate, Delete, SetRawDeleted, GetCase, SetDone, GetJob,
         SetRetry, At
    <2>2. pc[s] \in {"setDone", "setRetry"} => SetDone(s) \/ SetRetry(s)
      BY <1>3 DEF Process, GetSubmission, GetText, Find, CreateCase, FindAgain, SetFailed,
         SetProcessed, SetDuplicate, Delete, SetRawDeleted, GetCase, GetJob, At
    <2>3. SetDone(s) \/ SetRetry(s) => pc'[s] = "end"
      BY <1>1 DEF SetDone, SetRetry, Return, TypeOK, LocalsOK
    <2>4. QED
      BY <1>1, <1>3, <2>1, <2>2, <2>3, ProcessLeaves
  <1>4. CASE Crash(s)
    BY <1>1, <1>4 DEF Crash, Return, TypeOK, LocalsOK
  <1>5. QED
    BY <1>1, <1>2, <1>3, <1>4 DEF Step

\* Nobody but its handler changes a job that is not known.
LEMMA UnknownJobKept ==
    ASSUME TypeOK, NEW a \in Actors, Step(a), NEW s \in Subs, Unknown(s), a # s
    PROVE  JobKept(s)
  <1>1. Job(a) # s /\ ~Holds(a, s)
    BY DEF Unknown, Holds, Job, Actors
  <1>2. QED
    BY <1>1, JobStep DEF Quiet, Decides, Accepts, PushFails, Claims, Finishes, Ends, Job

LEMMA HandlerFirstKept ==
    ASSUME "unacked" \notin Faults, AttemptInv, NEW a \in Actors, Step(a), NEW s \in Subs
    PROVE  HandlerFirst(s)'
  <1>1. /\ TypeOK /\ s \in Actors /\ s \notin Workers
        /\ HandlerFirst(s) /\ Unstarted(s)
    BY IngestionAssumption DEF AttemptInv, OverrunInv, Overrun, ContributionInv, Actors, Attempt
  <1>2. ASSUME pc'[s] # "end"
        PROVE  Unknown(s) /\ Unknown(s)'
    <2>1. pc[s] # "end"
      BY <1>1, <1>2, OthersKeep, HandlerEnds
    <2>2. a = s => queue' = queue
      BY <1>2, <1>1, HandlerEnds
    <2>3. QED
      BY <1>1, <2>1, <2>2, UnknownStays DEF HandlerFirst
  <1>3. ASSUME pc'[s] \in {"push"} \cup ProcessingCalls \cup FailingCalls
        PROVE  jobStatus'[s] = "queued" /\ attempts'[s] = 0
    <2>1. pc'[s] # "end"
      BY <1>3 DEF ProcessingCalls, FailingCalls
    <2>2. CASE a # s
      <3>1. pc[s] = pc'[s] /\ JobKept(s)
        BY <1>1, <1>2, <2>1, <2>2, OthersKeep, UnknownJobKept
      <3>2. QED
        BY <1>1, <1>3, <3>1 DEF HandlerFirst, JobKept
    <2>3. CASE a = s /\ CreateJob(s)
      <3>1. jobStatus'[s] = "queued" /\ attempts'[s] = attempts[s]
        BY <1>1, <2>1, <2>3 DEF CreateJob, Return, TypeOK, LocalsOK, JobsOK
      <3>2. attempts[s] = 0
        BY <1>1, <2>3 DEF CreateJob, At, Unstarted, Accepting
      <3>3. QED
        BY <3>1, <3>2
    <2>4. CASE a = s /\ ~CreateJob(s)
      <3>1. pc[s] \in {"push"} \cup ProcessingCalls \cup FailingCalls
        <4>1. CASE Handler(s)
          <5>1. PutText(s) \/ CreateSubmission(s) \/ PushJob(s)
            BY <2>4, <4>1 DEF Handler
          <5>2. PutText(s) \/ CreateSubmission(s) =>
                    pc'[s] \in {"createSubmission", "createJob", "end"}
            BY <1>1 DEF PutText, CreateSubmission, Goto, Return, TypeOK, LocalsOK
          <5>3. QED
            BY <1>3, <5>1, <5>2 DEF PushJob, At, ProcessingCalls, FailingCalls
        <4>2. CASE Process(s)
          BY <4>2 DEF Process, GetSubmission, GetText, Find, CreateCase, FindAgain, SetFailed,
             SetProcessed, SetDuplicate, Delete, SetRawDeleted, GetCase, SetDone, GetJob,
             SetRetry, At, ProcessingCalls, FailingCalls
        <4>3. CASE Crash(s)
          BY <1>1, <2>1, <4>3 DEF Crash, Return, TypeOK, LocalsOK
        <4>4. Step(s)
          BY <2>4
        <4>5. QED
          BY <1>1, <4>1, <4>2, <4>3, <4>4 DEF Step
      <3>2. ~Finishes(s, s) /\ ~Ends(s, s) /\ ~Accepts(s, s) /\ ~Claims(s, s)
        BY <1>1, <2>1, <2>4, <3>1, HandlerEnds
           DEF Finishes, Ends, Accepts, Claims, At, ProcessingCalls, FailingCalls
      <3>3. JobKept(s)
        BY <1>1, <2>4, <3>2, JobStep DEF Quiet, Decides, PushFails
      <3>4. QED
        BY <1>1, <3>1, <3>3 DEF HandlerFirst, JobKept
    <2>5. QED
      BY <2>2, <2>3, <2>4
  <1>4. QED
    BY <1>2, <1>3 DEF HandlerFirst

LEMMA OneHolderKept ==
    ASSUME AttemptInv, NEW a \in Actors, Step(a), NEW s \in Subs
    PROVE  OneHolder(s)'
  <1>1. /\ TypeOK /\ s \in Actors /\ s \notin Workers
        /\ AcceptedAlone /\ HandlerFirst(s) /\ OneHolder(s)
    BY IngestionAssumption DEF AttemptInv, OverrunInv, ContributionInv, Actors, Attempt
  <1>2. \A b \in Actors : b # a => (Holds(b, s)' <=> Holds(b, s))
    BY <1>1, OthersHold
  <1>3. Workers \subseteq Actors
    BY DEF Actors
  <1>4. CASE Quiet(a, s) \/ Decides(a, s)
    <2>1. \A b \in Actors : Holds(b, s)' => Holds(b, s)
      BY <1>2, <1>4 DEF Quiet, Decides
    <2>2. jobStatus'[s] = jobStatus[s]
      BY <1>4 DEF Quiet, Decides, JobKept
    <2>3. QED
      BY <1>1, <1>3, <2>1, <2>2 DEF OneHolder
  <1>5. CASE Accepts(a, s) \/ PushFails(a, s)
    <2>1. a = s /\ Unknown(s)
      BY <1>1, <1>5 DEF Accepts, PushFails, AcceptedAlone, Accepting
    <2>2. \A b \in Actors : Holds(b, s)' => b = s
      BY <1>1, <1>2, <2>1, UnknownIsFree
    <2>3. QED
      BY <1>1, <1>3, <2>2 DEF OneHolder
  <1>6. CASE Claims(a, s)
    <2>1. pc[s] = "end"
      BY <1>1, <1>6 DEF Claims, HandlerFirst, Unknown
    <2>2. ~Holds(s, s)
      BY <2>1 DEF Holds, HoldingCalls, ProcessingCalls, FailingCalls
    <2>3. \A w \in Workers : ~Holds(w, s)
      BY <1>1, <1>6 DEF Claims, Claimable, OneHolder
    <2>4. \A b \in Actors : Holds(b, s) => b \in Workers \/ b = s
      BY <1>1 DEF Actors, Holds, Job
    <2>5. \A b \in Actors : Holds(b, s)' => b = a
      BY <1>2, <2>2, <2>3, <2>4
    <2>6. QED
      BY <1>3, <1>6, <2>5 DEF OneHolder, Claims
  <1>7. CASE Finishes(a, s) \/ Ends(a, s)
    <2>1. \A b \in Actors : b # a => ~Holds(b, s)
      <3>1. CASE Holds(a, s)
        BY <1>1, <3>1 DEF OneHolder
      <3>2. CASE ~Holds(a, s)
        <4>1. Finishes(a, s)
          BY <1>7, <3>2 DEF Ends
        <4>2. a \notin Workers
          BY <3>2, <4>1 DEF Finishes, At, Holds, HoldingCalls, ProcessingCalls
        <4>3. a = s /\ pc[s] # "end"
          BY <4>1, <4>2 DEF Finishes, At, Job
        <4>4. Unknown(s)
          BY <1>1, <4>3 DEF HandlerFirst
        <4>5. QED
          BY <1>1, <4>3, <4>4, UnknownIsFree
      <3>3. QED
        BY <3>1, <3>2
    <2>2. ~Holds(a, s)'
      BY <1>7 DEF Finishes, Ends
    <2>3. \A b \in Actors : ~Holds(b, s)'
      BY <1>2, <2>1, <2>2
    <2>4. QED
      BY <1>3, <2>3 DEF OneHolder
  <1>8. QED
    BY <1>1, <1>4, <1>5, <1>6, <1>7, JobStep

LEMMA ReadHoldsKept ==
    ASSUME AttemptInv, NEW a \in Actors, Step(a), NEW s \in Subs
    PROVE  ReadHolds(s)'
  <1>1. /\ TypeOK /\ s \in Actors /\ s \notin Workers
        /\ HandlerFirst(s) /\ OneHolder(s) /\ ReadHolds(s) /\ Unstarted(s)
        /\ attempts[s] \in Nat /\ MaxAttempts \in Nat \ {0}
    BY IngestionAssumption DEF AttemptInv, OverrunInv, Overrun, ContributionInv, TypeOK, JobsOK,
       Actors, Attempt
  <1>2. \A b \in Actors : b # a => /\ Holds(b, s)' <=> Holds(b, s)
                                   /\ At(b, "setRetry")' <=> At(b, "setRetry")
                                   /\ retry'[b] = retry[b]
    BY <1>1, OthersHold
  <1>3. \A b \in Actors : b # a /\ Holds(b, s)' /\ At(b, "setRetry")' => retry'[b] = MayRetry(s)
    BY <1>1, <1>2 DEF ReadHolds
  <1>4. CASE Quiet(a, s) \/ Decides(a, s) \/ PushFails(a, s)
    <2>1. JobKept(s)
      BY <1>4 DEF Quiet, Decides, PushFails
    <2>2. MayRetry(s)' <=> MayRetry(s)
      BY <2>1 DEF JobKept, MayRetry
    <2>3. Claimable(s)' <=> Claimable(s)
      BY <2>1 DEF JobKept, Claimable
    <2>4. Holds(a, s)' /\ At(a, "setRetry")' => retry'[a] = MayRetry(s)
      BY <1>4 DEF Quiet, Decides, PushFails
    <2>5. MayRetry(s)' = MayRetry(s)
      BY <2>1 DEF JobKept, MayRetry
    <2>6. QED
      BY <1>1, <1>3, <2>1, <2>3, <2>4, <2>5 DEF ReadHolds, JobKept
  <1>5. CASE Accepts(a, s)
    <2>1. attempts[s] = 0 /\ attempts'[s] = attempts[s]
      BY <1>1, <1>5 DEF Accepts, Unstarted, Accepting
    <2>2. MayRetry(s)' = MayRetry(s)
      BY <2>1 DEF MayRetry
    <2>3. QED
      BY <1>1, <1>3, <1>5, <2>1, <2>2 DEF Accepts, ReadHolds
  <1>6. CASE Claims(a, s)
    <2>1. pc[s] = "end"
      BY <1>1, <1>6 DEF Claims, HandlerFirst, Unknown
    <2>2. \A b \in Actors : b # a => ~Holds(b, s)'
      <3>1. ~Holds(s, s)
        BY <2>1 DEF Holds, HoldingCalls, ProcessingCalls, FailingCalls
      <3>2. \A b \in Actors : Holds(b, s) => b \in Workers \/ b = s
        BY <1>1 DEF Actors, Holds, Job
      <3>3. QED
        BY <1>1, <1>2, <1>6, <3>1, <3>2 DEF Claims, Claimable, OneHolder
    <2>3. attempts'[s] <= MaxAttempts
      BY <1>1, <1>6 DEF Claims, ReadHolds
    <2>4. QED
      BY <1>6, <2>2, <2>3 DEF Claims, Claimable, ReadHolds
  <1>7. CASE Finishes(a, s) \/ Ends(a, s)
    <2>1. attempts'[s] = attempts[s] /\ ~Holds(a, s)' /\ jobStatus'[s] # "running"
      BY <1>7 DEF Finishes, Ends
    <2>2. Claimable(s)' => Ends(a, s) /\ retry[a]
      BY <1>7 DEF Finishes, Ends, Claimable
    <2>3. Claimable(s)' => attempts[s] < MaxAttempts
      BY <1>1, <2>2 DEF Ends, ReadHolds, MayRetry
    <2>4. MayRetry(s)' = MayRetry(s)
      BY <2>1 DEF MayRetry
    <2>5. QED
      BY <1>3, <2>1, <2>3, <2>4 DEF ReadHolds
  <1>8. QED
    BY <1>1, <1>4, <1>5, <1>6, <1>7, JobStep

LEMMA AttemptStep ==
    ASSUME "unacked" \notin Faults
    PROVE  AttemptInv /\ [Next]_vars => AttemptInv'
  <1>1. ASSUME AttemptInv, NEW a \in Actors, Step(a), Next
        PROVE  AttemptInv'
    BY <1>1, OverrunStep, HandlerFirstKept, OneHolderKept, ReadHoldsKept DEF AttemptInv, Attempt
  <1>2. ASSUME AttemptInv, UNCHANGED vars
        PROVE  AttemptInv'
    <2>1. OverrunInv'
      BY <1>2, OverrunStep DEF AttemptInv
    <2>2. ASSUME NEW s \in Subs PROVE Attempt(s)'
      <3>1. /\ Attempt(s)
            /\ \A b \in Actors : Holds(b, s)' <=> Holds(b, s)
            /\ Unknown(s)' <=> Unknown(s)
            /\ MayRetry(s)' = MayRetry(s)
        BY <1>2 DEF AttemptInv, vars, jobs, locals, Holds, HoldingCalls, Job, Unknown, InQueue,
           MayRetry
      <3>2. /\ pc' = pc /\ retry' = retry /\ jobStatus' = jobStatus /\ attempts' = attempts
            /\ Workers \subseteq Actors
        BY <1>2 DEF vars, jobs, locals, Actors
      <3>3. QED
        BY <3>1, <3>2 DEF Attempt, HandlerFirst, OneHolder, ReadHolds, Claimable, At
    <2>3. QED
      BY <2>1, <2>2 DEF AttemptInv
  <1>3. QED
    BY <1>1, <1>2, NextIsStep

LEMMA InitAttempt == Init => AttemptInv
  <1>1. ASSUME Init, NEW s \in Subs PROVE Attempt(s)
    <2>1. jobStatus[s] = "absent" /\ pc[s] = "start" /\ Unknown(s)
      BY <1>1, IngestionAssumption DEF Init, Actors, Unknown, InQueue
    <2>2. Workers \subseteq Actors
      BY DEF Actors
    <2>3. QED
      BY <1>1, <2>1, <2>2, InitHoldsNone
         DEF Attempt, HandlerFirst, OneHolder, ReadHolds, Claimable, ProcessingCalls, FailingCalls
  <1>2. QED
    BY <1>1, InitOverrun DEF AttemptInv

\* No two workers run one job at the same time, however often its id is
\* delivered and whatever crashes or fails, as long as a delivered push is
\* acknowledged.
THEOREM AttemptsExclusive ==
    ASSUME "unacked" \notin Faults
    PROVE  Spec => []ExclusiveAttempt
  <1>1. AttemptInv => ExclusiveAttempt
    <2>1. ASSUME AttemptInv, NEW v \in Workers, NEW w \in Workers,
                 Running(v), Running(w), v # w, cur[v] = cur[w]
          PROVE  FALSE
      <3>1. v \in Actors /\ w \in Actors /\ pc[v] # "idle"
        BY <2>1 DEF Actors, Running, ProcessingCalls, FailingCalls
      <3>2. Job(v) \in Subs
        BY <2>1, <3>1, JobIsSub DEF AttemptInv, OverrunInv, ContributionInv, TypeOK
      <3>3. cur[v] \in Subs
        BY <3>2 DEF Job
      <3>4. Holds(v, cur[v]) /\ Holds(w, cur[v])
        BY <2>1 DEF Holds, Job, HoldingCalls, Running
      <3>5. QED
        BY <2>1, <3>1, <3>3, <3>4 DEF AttemptInv, Attempt, OneHolder
    <2>2. QED
      BY <2>1 DEF ExclusiveAttempt
  <1>2. AttemptInv /\ [Next]_vars => AttemptInv'
    BY AttemptStep
  <1>3. QED
    BY <1>1, <1>2, InitAttempt, PTL DEF Spec

\* Whatever a step does to the job of its actor is a move of the life cycle.
LEMMA StepIsMove ==
    ASSUME AttemptInv, NEW a \in Actors, Step(a)
    PROVE  Lifecycle!Next \/ UNCHANGED <<jobStatus, attempts>>
  <1>1. /\ TypeOK
        /\ jobStatus \in [Subs -> {"absent", "queued", "running", "retry", "failed", "done"}]
        /\ attempts \in [Subs -> Nat] /\ MaxAttempts \in Nat \ {0}
        /\ TypeOK'
        /\ DOMAIN jobStatus' = Subs /\ DOMAIN attempts' = Subs
        /\ jobStatus' = [r \in Subs |-> jobStatus'[r]]
        /\ attempts' = [r \in Subs |-> attempts'[r]]
    <2>1. TypeOK /\ TypeOK'
      BY TypedHandler, TypedWorker, TypedProcess, TypedCrash
         DEF AttemptInv, OverrunInv, ContributionInv, Step
    <2>2. QED
      BY <2>1, IngestionAssumption DEF TypeOK, JobsOK
  <1>2. \A r \in Subs : JobKept(r) \/ r = Job(a)
    BY <1>1, JobStep, IngestionAssumption
       DEF Quiet, Decides, Accepts, PushFails, Claims, Finishes, Ends, Holds, Job
  <1>3. CASE \A r \in Subs : JobKept(r)
    BY <1>1, <1>3 DEF JobKept
  <1>4. CASE ~\A r \in Subs : JobKept(r)
    <2>1. PICK s \in Subs : s = Job(a) /\ ~JobKept(s)
      BY <1>2, <1>4
    <2>2. \A r \in Subs \ {s} : jobStatus'[r] = jobStatus[r] /\ attempts'[r] = attempts[r]
      BY <1>2, <2>1 DEF JobKept
    <2>3. /\ HandlerFirst(s) /\ OneHolder(s) /\ ReadHolds(s) /\ Unstarted(s)
          /\ s \in Actors /\ s \notin Workers
          /\ attempts[s] \in Nat
      BY <1>1, IngestionAssumption DEF AttemptInv, OverrunInv, Overrun, Attempt, Actors
    <2>4. jobStatus' = [jobStatus EXCEPT ![s] = jobStatus'[s]]
      BY <1>1, <2>2
    <2>5. attempts'[s] = attempts[s] => UNCHANGED attempts
      BY <1>1, <2>2
    <2>6. attempts'[s] = attempts[s] + 1 => attempts' = [attempts EXCEPT ![s] = @ + 1]
      BY <1>1, <2>2
    <2>7. a \in Workers \/ a = s
      BY <2>1 DEF Job, Actors
    <2>8. CASE Accepts(a, s)
      <3>1. jobStatus[s] = "absent"
        BY <2>3, <2>8 DEF Accepts, Unstarted, Accepting
      <3>2. Lifecycle!Accept(s)
        BY <2>4, <2>5, <2>8, <3>1 DEF Accepts, Lifecycle!Accept, Lifecycle!Move
      <3>3. QED
        BY <3>2 DEF Lifecycle!Next
    <2>9. CASE Claims(a, s)
      <3>1. attempts[s] < MaxAttempts
        BY <2>3, <2>9 DEF Claims, ReadHolds
      <3>2. Lifecycle!Start(s)
        BY <2>4, <2>6, <2>9, <3>1 DEF Claims, Claimable, Lifecycle!Start, Lifecycle!Move
      <3>3. QED
        BY <3>2 DEF Lifecycle!Next
    <2>10. CASE Finishes(a, s)
      <3>1. jobStatus[s] \in {"running", "queued"}
        <4>1. a \in Workers => jobStatus[s] = "running"
          BY <2>3, <2>10 DEF Finishes, At, Holds, HoldingCalls, ProcessingCalls, OneHolder
        <4>2. a = s => jobStatus[s] = "queued"
          BY <2>3, <2>10 DEF Finishes, At, HandlerFirst, ProcessingCalls
        <4>3. QED
          BY <2>7, <4>1, <4>2
      <3>2. Lifecycle!Finish(s)
        BY <2>4, <2>5, <2>10, <3>1 DEF Finishes, Lifecycle!Finish, Lifecycle!Move
      <3>3. QED
        BY <3>2 DEF Lifecycle!Next
    <2>11. CASE Ends(a, s)
      <3>1. retry[a] = MayRetry(s)
        BY <2>3, <2>11 DEF Ends, ReadHolds
      <3>2. a \in Workers => jobStatus[s] = "running"
        BY <2>3, <2>11 DEF Ends, OneHolder
      <3>3. a = s => jobStatus[s] = "queued" /\ attempts[s] = 0
        BY <2>3, <2>11 DEF Ends, At, HandlerFirst, FailingCalls
      <3>4. CASE MayRetry(s)
        <4>1. Lifecycle!GiveBack(s)
          BY <2>4, <2>5, <2>7, <2>11, <3>1, <3>2, <3>3, <3>4
             DEF Ends, MayRetry, Lifecycle!GiveBack, Lifecycle!Move
        <4>2. QED
          BY <4>1 DEF Lifecycle!Next
      <3>5. CASE ~MayRetry(s)
        <4>1. a \in Workers
          BY <1>1, <2>7, <3>3, <3>5 DEF MayRetry
        <4>2. attempts[s] = MaxAttempts
          BY <1>1, <2>3, <3>2, <3>5, <4>1 DEF ReadHolds, MayRetry
        <4>3. Lifecycle!GiveUp(s)
          BY <2>4, <2>5, <2>11, <3>1, <3>2, <3>5, <4>1, <4>2
             DEF Ends, Lifecycle!GiveUp, Lifecycle!Move
        <4>4. QED
          BY <4>3 DEF Lifecycle!Next
      <3>6. QED
        BY <3>4, <3>5
    <2>12. QED
      BY <1>1, <2>1, <2>8, <2>9, <2>10, <2>11, JobStep DEF Quiet, Decides, PushFails
  <1>5. QED
    BY <1>3, <1>4

\* The jobs table implements the life cycle that its readers rely on: final
\* statuses are final, an attempt starts on a waiting job only, ends once, and
\* no more than MaxAttempts start; by any number of handlers and workers that
\* write without guards, as long as a delivered push is acknowledged.
THEOREM LifecycleImplemented ==
    ASSUME "unacked" \notin Faults
    PROVE  Spec => LifecycleKept
  <1>1. Init => Lifecycle!Init
    BY DEF Init, Lifecycle!Init
  <1>2. AttemptInv /\ [Next]_vars => [Lifecycle!Next]_<<jobStatus, attempts>>
    BY StepIsMove, NextIsStep DEF vars, jobs
  <1>3. AttemptInv /\ [Next]_vars => AttemptInv'
    BY AttemptStep
  <1>4. QED
    BY <1>1, <1>2, <1>3, InitAttempt, PTL DEF Spec, LifecycleKept, Lifecycle!Spec
=============================================================================
