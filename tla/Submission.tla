----------------------------- MODULE Submission -----------------------------
(***************************************************************************)
(* From "apply" to the exchange.  A request checks the one-application-    *)
(* per-PAN rule, creates the rows and queues a job that names them         *)
(* (applications.service.ts); a worker loads the rows again, asks the      *)
(* store which of them were already submitted, sends the rest and writes   *)
(* the answer (submission-queue.service.ts, submission-worker.ts,          *)
(* submission-store.ts).  Meanwhile an operator may cancel an application  *)
(* or delete the client.                                                   *)
(*                                                                         *)
(* The module is about one issue and one account with several applicants,  *)
(* each with a PAN of its own, so an applicant's profile stands for its    *)
(* PAN and for the idempotency key, which is made of account, issue and    *)
(* profile.  External are the exchange, BullMQ and PostgreSQL.             *)
(***************************************************************************)
EXTENDS Integers, Sequences, FiniteSets

CONSTANTS
    Profile,        \* the applicants of the account
    Bucket,         \* panBucket: the public and the reserved quotas of the issue
    Method,         \* the ways to apply that are used
    Handler,        \* apply requests being served at once
    Worker,         \* jobs being processed at once
    MayDelete,      \* a superadmin may delete the client
    MaxAttempts,    \* QUEUE_ATTEMPTS
    MaxApps         \* bound: rows ever created

ASSUME MethodAssumption == Method \subseteq {"native", "pdf", "bulk"}
ASSUME BoundsAssumption == MaxAttempts \in Nat \ {0} /\ MaxApps \in Nat

-----------------------------------------------------------------------------
Status == {"draft", "submitted", "mandate_pending", "cancelled", "failed"}

Row == [profile: Profile, bucket: Bucket, status: Status]
Applicant == [profile: Profile, bucket: Bucket]

Job == [ids: SUBSET Nat, bulk: BOOLEAN, left: 0 .. MaxAttempts, state: {"waiting", "active", "done", "failed"}]

HandlerState == [phase: {"idle", "checked", "inserted", "marked"}, method: Method \cup {"none"},
                 wants: Seq(Applicant), ids: SUBSET Nat]
WorkerState == [phase: {"idle", "loaded", "cleared", "answered"}, job: Nat,
                todo: SUBSET Nat, taken: SUBSET Nat]

VARIABLES
    apps,       \* the Application rows in the order they were created
    gone,       \* the client and the rows were deleted
    handler,    \* the apply requests
    jobs,       \* the jobs in the order they were queued
    worker,     \* the worker's slots
    sent        \* how many bids of each row the exchange took

vars == <<apps, gone, handler, jobs, worker, sent>>

IdleHandler == [phase |-> "idle", method |-> "none", wants |-> <<>>, ids |-> {}]
IdleWorker == [phase |-> "idle", job |-> 0, todo |-> {}, taken |-> {}]

TypeOK ==
    /\ apps \in Seq(Row)
    /\ gone \in BOOLEAN
    /\ handler \in [Handler -> HandlerState]
    /\ jobs \in Seq(Job)
    /\ worker \in [Worker -> WorkerState]
    /\ sent \in [1 .. MaxApps -> Nat]

Init ==
    /\ apps = <<>>
    /\ gone = FALSE
    /\ handler = [h \in Handler |-> IdleHandler]
    /\ jobs = <<>>
    /\ worker = [w \in Worker |-> IdleWorker]
    /\ sent = [i \in 1 .. MaxApps |-> 0]

-----------------------------------------------------------------------------
(* Apply.                                                                  *)

\* The statuses that do not count in the self-PAN rule.
NotCounted == {"draft", "failed", "rejected"}

HeldRows(p) == {i \in DOMAIN apps : ~gone /\ apps[i].profile = p.profile /\ apps[i].bucket = p.bucket}
Held(p) == {apps[i].status : i \in HeldRows(p)}
Duplicate(p) == Held(p) \ NotCounted # {}

\* The unique index on the idempotency key, which does not mention the bucket.
KeyTaken_Unindexed(p) == FALSE
KeyTaken(p) == ~gone /\ \E i \in DOMAIN apps : apps[i].profile = p.profile

\* One applicant, or a family batch of two that names no PAN and bucket twice.
Wants(method) ==
    IF method = "bulk"
      THEN {<<p, q>> : p, q \in Applicant} \ {<<p, p>> : p \in Applicant}
      ELSE {<<p>> : p \in Applicant}

\* A print is not checked at all; a request that is refused changes nothing.
Check(h, method) ==
    /\ handler[h].phase = "idle" /\ ~gone
    /\ \E wants \in Wants(method) :
          /\ method = "pdf" \/ \A i \in DOMAIN wants : ~Duplicate(wants[i])
          /\ handler' = [handler EXCEPT ![h] =
                           [phase |-> "checked", method |-> method, wants |-> wants, ids |-> {}]]
    /\ UNCHANGED <<apps, gone, jobs, worker, sent>>

FirstStatus_Made(method) == "made"
FirstStatus(method) == IF method = "bulk" THEN "submitted" ELSE "draft"

\* What is left to do once the rows are there: a batch is created as submitted,
\* and a print is done.
PhaseAfterInsert == [native |-> "inserted", bulk |-> "marked", pdf |-> "idle"]

\* One transaction creates all rows or none.
Insert(h) ==
    LET wants == handler[h].wants
        method == handler[h].method
        clash == {i \in DOMAIN wants :
                    KeyTaken(wants[i]) \/ \E k \in 1 .. i - 1 : wants[k].profile = wants[i].profile}
    IN  /\ handler[h].phase = "checked" /\ ~gone
        /\ \/ /\ clash = {} /\ Len(apps) + Len(wants) <= MaxApps
              /\ apps' = apps \o [i \in DOMAIN wants |->
                            [profile |-> wants[i].profile, bucket |-> wants[i].bucket,
                             status |-> FirstStatus(method)]]
              /\ handler' = [handler EXCEPT ![h] =
                    IF method = "pdf" THEN IdleHandler
                    ELSE [@ EXCEPT !.phase = PhaseAfterInsert[method],
                                   !.ids = {Len(apps) + i : i \in DOMAIN wants}]]
           \/ /\ clash # {}
              /\ handler' = [handler EXCEPT ![h] = IdleHandler]
              /\ UNCHANGED apps
        /\ UNCHANGED <<gone, jobs, worker, sent>>

\* The row is marked submitted before its job is queued.
Mark(h) ==
    /\ handler[h].phase = "inserted" /\ ~gone
    /\ apps' = [i \in DOMAIN apps |-> IF i \in handler[h].ids
                                        THEN [apps[i] EXCEPT !.status = "submitted"] ELSE apps[i]]
    /\ handler' = [handler EXCEPT ![h].phase = "marked"]
    /\ UNCHANGED <<gone, jobs, worker, sent>>

\* The job's key is that of its first row, which is unique, so BullMQ drops none.
Enqueue(h) ==
    /\ handler[h].phase = "marked"
    /\ jobs' = Append(jobs, [ids |-> handler[h].ids, bulk |-> handler[h].method = "bulk",
                             left |-> MaxAttempts, state |-> "waiting"])
    /\ handler' = [handler EXCEPT ![h] = IdleHandler]
    /\ UNCHANGED <<apps, gone, worker, sent>>

\* A request that throws between two writes, or dies: what it wrote stays.
Abandon(h) ==
    /\ handler[h].phase # "idle"
    /\ handler' = [handler EXCEPT ![h] = IdleHandler]
    /\ UNCHANGED <<apps, gone, jobs, worker, sent>>

-----------------------------------------------------------------------------
(* Operators.                                                              *)

\* queueCancel of a bid that has no exchange number: any category may be cancelled.
Cancel(i) ==
    /\ ~gone /\ apps[i].status # "cancelled"
    /\ apps' = [apps EXCEPT ![i].status = "cancelled"]
    /\ UNCHANGED <<gone, handler, jobs, worker, sent>>

HardDelete ==
    /\ MayDelete /\ ~gone
    /\ gone' = TRUE
    /\ UNCHANGED <<apps, handler, jobs, worker, sent>>

-----------------------------------------------------------------------------
(* The worker.                                                             *)

AlreadySubmitted_OnlyAnswered(i) == ~gone /\ apps[i].status \notin {"draft", "failed", "submitted"}
AlreadySubmitted(i) == ~gone /\ apps[i].status \notin {"draft", "failed"}

\* A job that threw is tried again, as often as it has attempts left.
Thrown_Forever(j) == [jobs EXCEPT ![j].state = "waiting"]
Thrown(j) ==
    [jobs EXCEPT ![j] = [jobs[j] EXCEPT !.left = jobs[j].left - 1,
                                        !.state = IF jobs[j].left > 1 THEN "waiting" ELSE "failed"]]

Free(w) == worker' = [worker EXCEPT ![w] = IdleWorker]
Throw(w) == jobs' = Thrown(worker[w].job) /\ Free(w)
Done(w) == jobs' = [jobs EXCEPT ![worker[w].job].state = "done"] /\ Free(w)

\* A single job is hydrated before the store is asked, a batch after.
Take(w) ==
    /\ worker[w].phase = "idle"
    /\ \E j \in DOMAIN jobs :
          /\ jobs[j].state = "waiting"
          /\ \/ /\ gone /\ ~jobs[j].bulk
                /\ jobs' = Thrown(j)
                /\ UNCHANGED worker
             \/ /\ ~gone \/ jobs[j].bulk
                /\ jobs' = [jobs EXCEPT ![j].state = "active"]
                /\ worker' = [worker EXCEPT ![w] = [IdleWorker EXCEPT !.phase = "loaded", !.job = j]]
    /\ UNCHANGED <<apps, gone, handler, sent>>

\* The store is asked for each row; a row that is gone counts as not submitted
\* in a single job and is left out of a batch.
AskStore(w) ==
    LET job == jobs[worker[w].job]
        todo == {i \in job.ids : ~AlreadySubmitted(i) /\ ~(job.bulk /\ gone)}
    IN  /\ worker[w].phase = "loaded"
        /\ \/ /\ todo = {}
              /\ Done(w)
           \/ /\ todo # {}
              /\ worker' = [worker EXCEPT ![w] = [@ EXCEPT !.phase = "cleared", !.todo = todo]]
              /\ UNCHANGED jobs
        /\ UNCHANGED <<apps, gone, handler, sent>>

\* The call.  It answers for each bid whether the exchange took it, or it throws,
\* which with a timeout says nothing of what the exchange took.
Call(w) ==
    /\ worker[w].phase = "cleared"
    /\ \E taken \in SUBSET worker[w].todo :
          /\ sent' = [i \in DOMAIN sent |-> IF i \in taken THEN sent[i] + 1 ELSE sent[i]]
          /\ \/ /\ worker' = [worker EXCEPT ![w] = [@ EXCEPT !.phase = "answered", !.taken = taken]]
                /\ UNCHANGED jobs
             \/ Throw(w)
    /\ UNCHANGED <<apps, gone, handler>>

\* saveResult and markFailed of each bid; a row that is gone makes them throw.
\* The members of a family are written one by one; here that is one step.
SaveAnswer(w) ==
    /\ worker[w].phase = "answered"
    /\ IF gone
         THEN Throw(w) /\ UNCHANGED apps
         ELSE /\ apps' = [i \in DOMAIN apps |->
                            IF i \in worker[w].todo
                              THEN [apps[i] EXCEPT !.status =
                                      IF i \in worker[w].taken THEN "mandate_pending" ELSE "failed"]
                              ELSE apps[i]]
              /\ Done(w)
    /\ UNCHANGED <<gone, handler, sent>>

\* The worker dies: BullMQ finds the job stalled and runs it again.
Stall(w) ==
    /\ worker[w].phase # "idle"
    /\ Throw(w)
    /\ UNCHANGED <<apps, gone, handler, sent>>

-----------------------------------------------------------------------------
Apply(h) == (\E m \in Method : Check(h, m)) \/ Insert(h) \/ Mark(h) \/ Enqueue(h) \/ Abandon(h)
Work(w) == Take(w) \/ AskStore(w) \/ Call(w) \/ SaveAnswer(w)

Next ==
    \/ \E h \in Handler : Apply(h)
    \/ \E i \in DOMAIN apps : Cancel(i)
    \/ HardDelete
    \/ \E w \in Worker : Work(w) \/ Stall(w)

Spec == Init /\ [][Next]_vars

\* BullMQ keeps a worker's slots busy while there are jobs.
FairSpec == Spec /\ \A w \in Worker : WF_vars(Work(w))

-----------------------------------------------------------------------------
\* One application per PAN and bucket (create and createBulk): requests that
\* pass the check together still leave one counted row.
OneApplicationPerBucket ==
    \A i, j \in DOMAIN apps :
        /\ i # j /\ ~gone
        /\ apps[i].status \notin NotCounted /\ apps[j].status \notin NotCounted
        => apps[i].profile # apps[j].profile \/ apps[i].bucket # apps[j].bucket

\* Never double-submit a bid (submission-worker.ts): whatever times out, stalls
\* or is deleted, the exchange takes one bid of a row at most.
NeverSentTwice == \A i \in DOMAIN sent : sent[i] <= 1

\* Bounded retries: every queued job is done or given up in the end.
JobsEnd ==
    \A j \in 1 .. MaxApps :
        j \in DOMAIN jobs ~> j \in DOMAIN jobs /\ jobs[j].state \in {"done", "failed"}

-----------------------------------------------------------------------------
(* What the comments of the code promise and its steps do not keep.        *)

\* A job is skipped only for a bid that was submitted: when a job is done, the
\* exchange has taken the bids of its rows that are still submitted.
SkippedWasSubmitted ==
    \A j \in DOMAIN jobs : jobs[j].state = "done" =>
        \A i \in jobs[j].ids : ~gone /\ apps[i].status = "submitted" => sent[i] > 0
=============================================================================
