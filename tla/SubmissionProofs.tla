-------------------------- MODULE SubmissionProofs --------------------------
(***************************************************************************)
(* The one-application-per-PAN rule, for any number of applicants, apply   *)
(* requests and worker slots.  The check alone does not give it: two       *)
(* requests pass the check together, and a print is not checked.  What     *)
(* does is the unique key: an applicant has one row at most, in whatever   *)
(* bucket and status, which is the inductive invariant.                    *)
(***************************************************************************)
EXTENDS Submission, SequenceTheorems, TLAPS

\* The requests ask for applicants, and the rows are rows of applicants.
RequestsType == \A h \in Handler : handler[h].wants \in Seq(Applicant)
RowsType == apps \in Seq(Row)

OneRowEach == \A i, j \in DOMAIN apps : i # j => apps[i].profile # apps[j].profile

KeyInv ==
    /\ handler \in [Handler -> HandlerState]
    /\ \A h \in Handler : handler[h].phase # "idle" => handler[h].method \in Method
    /\ RequestsType /\ RowsType /\ OneRowEach

-----------------------------------------------------------------------------
LEMMA IdleType == IdleHandler \in HandlerState /\ IdleHandler.wants = <<>> /\ IdleHandler.phase = "idle"
BY EmptySeq DEF IdleHandler, HandlerState

LEMMA WantsType == ASSUME NEW m \in Method, NEW w \in Wants(m) PROVE w \in Seq(Applicant)
<1>1. \A p, q \in Applicant : <<p, q>> \in Seq(Applicant) /\ <<p>> \in Seq(Applicant)
  OBVIOUS
<1>2. QED
  BY <1>1 DEF Wants

\* A row for each wanted applicant.
NewRows(h) == [i \in DOMAIN handler[h].wants |->
                  [profile |-> handler[h].wants[i].profile, bucket |-> handler[h].wants[i].bucket,
                   status |-> FirstStatus(handler[h].method)]]

LEMMA NewRowsType ==
    ASSUME KeyInv, NEW h \in Handler
    PROVE  /\ NewRows(h) \in Seq(Row) /\ Len(NewRows(h)) = Len(handler[h].wants)
           /\ \A i \in 1 .. Len(handler[h].wants) : NewRows(h)[i].profile = handler[h].wants[i].profile
<1> DEFINE w == handler[h].wants
<1>1. w \in Seq(Applicant) /\ DOMAIN w = 1 .. Len(w) /\ Len(w) \in Nat
  BY LenProperties DEF KeyInv, RequestsType
<1>2. \A i \in 1 .. Len(w) : w[i] \in Applicant
  BY <1>1, ElementOfSeq
<1>3. FirstStatus(handler[h].method) \in Status
  BY DEF FirstStatus, Status
<1>4. NewRows(h) \in [1 .. Len(w) -> Row]
  BY <1>1, <1>2, <1>3 DEF NewRows, Row, Applicant
<1>5. NewRows(h) \in Seq(Row) /\ Len(NewRows(h)) = Len(w)
  BY <1>1, <1>4
<1>6. QED
  BY <1>1, <1>2, <1>5 DEF NewRows, Applicant

\* New rows whose keys are free and differ leave one row for each applicant.
LEMMA AppendDistinct ==
    ASSUME KeyInv, NEW new \in Seq(Row),
           \A k \in 1 .. Len(new) :
              /\ \A i \in DOMAIN apps : apps[i].profile # new[k].profile
              /\ \A l \in 1 .. k - 1 : new[l].profile # new[k].profile
    PROVE  /\ apps \o new \in Seq(Row)
           /\ \A i, j \in DOMAIN (apps \o new) : i # j => (apps \o new)[i].profile # (apps \o new)[j].profile
<1> DEFINE all == apps \o new
           n == Len(apps)
           m == Len(new)
<1>1. apps \in Seq(Row) /\ n \in Nat /\ m \in Nat /\ DOMAIN apps = 1 .. n
  BY LenProperties DEF KeyInv, RowsType
<1>2. /\ all \in Seq(Row) /\ Len(all) = n + m
      /\ \A i \in 1 .. n + m : all[i] = IF i <= n THEN apps[i] ELSE new[i - n]
  BY <1>1, ConcatProperties
<1>3. DOMAIN all = 1 .. n + m
  BY <1>2, LenProperties
<1> HIDE DEF all, n, m
<1>4. ASSUME NEW i \in 1 .. n + m, NEW j \in 1 .. n + m, i < j PROVE all[i].profile # all[j].profile
  <2>1. CASE j <= n
    <3>1. i \in DOMAIN apps /\ j \in DOMAIN apps /\ i # j /\ all[i] = apps[i] /\ all[j] = apps[j]
      BY <1>1, <1>2, <1>4, <2>1
    <3>2. QED
      BY <3>1 DEF KeyInv, OneRowEach
  <2>2. CASE i <= n /\ j > n
    <3>1. j - n \in 1 .. m /\ i \in DOMAIN apps /\ all[i] = apps[i] /\ all[j] = new[j - n]
      BY <1>1, <1>2, <1>4, <2>2
    <3>2. QED
      BY <3>1 DEF m
  <2>3. CASE i > n
    <3>1. j - n \in 1 .. m /\ i - n \in 1 .. (j - n) - 1 /\ all[i] = new[i - n] /\ all[j] = new[j - n]
      BY <1>1, <1>2, <1>4, <2>3
    <3>2. QED
      BY <3>1 DEF m
  <2>4. QED
    BY <1>1, <2>1, <2>2, <2>3
<1>5. \A i, j \in 1 .. n + m : i # j => i < j \/ j < i
  BY <1>1
<1>6. \A i, j \in DOMAIN all : i # j => all[i].profile # all[j].profile
  BY <1>3, <1>4, <1>5
<1>7. QED
  BY <1>2, <1>6 DEF all

\* Rows that keep their applicants.
LEMMA SameApplicants ==
    ASSUME KeyInv, NEW rows, rows \in [DOMAIN apps -> Row],
           \A i \in DOMAIN apps : rows[i].profile = apps[i].profile
    PROVE  /\ rows \in Seq(Row)
           /\ \A i, j \in DOMAIN rows : i # j => rows[i].profile # rows[j].profile
<1>1. apps \in Seq(Row) /\ Len(apps) \in Nat /\ DOMAIN apps = 1 .. Len(apps)
  BY LenProperties DEF KeyInv, RowsType
<1>2. QED
  BY <1>1 DEF KeyInv, OneRowEach

-----------------------------------------------------------------------------
LEMMA InitKey == Init => KeyInv
<1> SUFFICES ASSUME Init PROVE KeyInv
  OBVIOUS
<1>1. <<>> \in Seq(Row) /\ <<>> \in Seq(Applicant) /\ DOMAIN <<>> = {}
  BY EmptySeq
<1>2. \A h \in Handler : handler[h] = IdleHandler
  BY DEF Init
<1>3. RequestsType
  BY <1>1, <1>2, IdleType DEF RequestsType
<1>4. RowsType /\ OneRowEach
  BY <1>1 DEF Init, RowsType, OneRowEach
<1>5. QED
  BY <1>2, <1>3, <1>4, IdleType DEF Init, KeyInv

LEMMA CheckKey == ASSUME KeyInv, NEW h \in Handler, NEW m \in Method, Check(h, m) PROVE KeyInv'
<1>1. PICK w \in Wants(m) : handler' = [handler EXCEPT ![h] =
                                 [phase |-> "checked", method |-> m, wants |-> w, ids |-> {}]]
  BY DEF Check
<1>2. w \in Seq(Applicant)
  BY WantsType
<1>3. [phase |-> "checked", method |-> m, wants |-> w, ids |-> {}] \in HandlerState
  BY <1>2 DEF HandlerState
<1>4. handler' \in [Handler -> HandlerState] /\ RequestsType'
  BY <1>1, <1>2, <1>3 DEF KeyInv, RequestsType
<1>5. \A g \in Handler : handler'[g].phase # "idle" => handler'[g].method \in Method
  BY <1>1 DEF KeyInv
<1>6. QED
  BY <1>4, <1>5 DEF Check, KeyInv, RowsType, OneRowEach

LEMMA InsertKey == ASSUME KeyInv, NEW h \in Handler, Insert(h) PROVE KeyInv'
<1> DEFINE w == handler[h].wants
           ids == {Len(apps) + i : i \in DOMAIN w}
<1>1. w \in Seq(Applicant) /\ DOMAIN w = 1 .. Len(w) /\ Len(w) \in Nat /\ Len(apps) \in Nat
  BY LenProperties DEF KeyInv, RequestsType, RowsType
<1>2. ids \subseteq Nat
  BY <1>1
<1>3. handler[h].phase = "checked" /\ handler[h] \in HandlerState
  BY DEF Insert, KeyInv
<1>4. CASE apps' = apps /\ handler' = [handler EXCEPT ![h] = IdleHandler]
  BY <1>4, IdleType, EmptySeq DEF KeyInv, RequestsType, RowsType, OneRowEach
<1>5. CASE /\ \A i \in DOMAIN w : ~KeyTaken(w[i]) /\ \A k \in 1 .. i - 1 : w[k].profile # w[i].profile
           /\ apps' = apps \o NewRows(h)
           /\ handler' = [handler EXCEPT ![h] =
                 IF handler[h].method = "pdf" THEN IdleHandler
                 ELSE [handler[h] EXCEPT !.phase = PhaseAfterInsert[handler[h].method], !.ids = ids]]
  <2>1. ~gone
    BY DEF Insert
  <2>2. \A i \in DOMAIN w : \A j \in DOMAIN apps : apps[j].profile # w[i].profile
    BY <1>5, <2>1 DEF KeyTaken
  <2>3. NewRows(h) \in Seq(Row) /\ Len(NewRows(h)) = Len(w) /\ \A i \in 1 .. Len(w) : NewRows(h)[i].profile = w[i].profile
    BY NewRowsType
  <2>4. \A k \in 1 .. Len(NewRows(h)) :
           /\ \A i \in DOMAIN apps : apps[i].profile # NewRows(h)[k].profile
           /\ \A l \in 1 .. k - 1 : NewRows(h)[l].profile # NewRows(h)[k].profile
    <3> SUFFICES ASSUME NEW k \in 1 .. Len(w)
        PROVE  /\ \A i \in DOMAIN apps : apps[i].profile # NewRows(h)[k].profile
               /\ \A l \in 1 .. k - 1 : NewRows(h)[l].profile # NewRows(h)[k].profile
      BY <2>3
    <3>1. NewRows(h)[k].profile = w[k].profile /\ k \in DOMAIN w
      BY <1>1, <2>3
    <3>2. \A l \in 1 .. k - 1 : NewRows(h)[l].profile = w[l].profile
      BY <1>1, <2>3
    <3>3. \A l \in 1 .. k - 1 : w[l].profile # w[k].profile
      BY <1>5, <3>1
    <3>4. QED
      BY <2>2, <3>1, <3>2, <3>3
  <2>5. apps' \in Seq(Row) /\ \A i, j \in DOMAIN apps' : i # j => apps'[i].profile # apps'[j].profile
    BY <1>5, <2>3, <2>4, AppendDistinct
  <2>6. CASE handler[h].method = "pdf"
    BY <1>5, <2>5, <2>6, IdleType, EmptySeq DEF KeyInv, RequestsType, RowsType, OneRowEach
  <2>7. CASE handler[h].method # "pdf"
    <3>1. handler[h].method \in Method
      BY <1>3 DEF KeyInv
    <3>2. PhaseAfterInsert[handler[h].method] \in {"inserted", "marked"}
      <4>1. PhaseAfterInsert["native"] = "inserted" /\ PhaseAfterInsert["bulk"] = "marked"
        BY DEF PhaseAfterInsert
      <4>2. handler[h].method \in {"native", "bulk"}
        BY <2>7, <3>1, MethodAssumption
      <4>3. QED
        BY <4>1, <4>2
    <3>3. [handler[h] EXCEPT !.phase = PhaseAfterInsert[handler[h].method], !.ids = ids] \in HandlerState
      BY <1>2, <1>3, <3>2 DEF HandlerState
    <3>4. QED
      BY <1>1, <1>5, <2>5, <2>7, <3>1, <3>3 DEF KeyInv, RequestsType, RowsType, OneRowEach, HandlerState
  <2>8. QED
    BY <2>6, <2>7
<1>6. QED
  BY <1>4, <1>5 DEF Insert, NewRows

\* What the other steps of a request do to it, and to the rows, keeps the invariant.
LEMMA Settled ==
    ASSUME KeyInv, NEW h \in Handler, NEW x \in HandlerState, handler' = [handler EXCEPT ![h] = x],
           x.wants \in Seq(Applicant), x.phase # "idle" => x.method \in Method,
           NEW rows, apps' = rows, rows \in [DOMAIN apps -> Row],
           \A i \in DOMAIN apps : rows[i].profile = apps[i].profile
    PROVE  KeyInv'
<1>1. rows \in Seq(Row) /\ \A i, j \in DOMAIN rows : i # j => rows[i].profile # rows[j].profile
  BY SameApplicants
<1>2. QED
  BY <1>1 DEF KeyInv, RequestsType, RowsType, OneRowEach

LEMMA Restated ==
    ASSUME KeyInv, UNCHANGED handler, NEW rows, apps' = rows, rows \in [DOMAIN apps -> Row],
           \A i \in DOMAIN apps : rows[i].profile = apps[i].profile
    PROVE  KeyInv'
<1>1. rows \in Seq(Row) /\ \A i, j \in DOMAIN rows : i # j => rows[i].profile # rows[j].profile
  BY SameApplicants
<1>2. QED
  BY <1>1 DEF KeyInv, RequestsType, RowsType, OneRowEach

LEMMA RowsFunction == KeyInv => apps \in [DOMAIN apps -> Row]
BY LenProperties DEF KeyInv, RowsType

LEMMA MarkKey == ASSUME KeyInv, NEW h \in Handler, Mark(h) PROVE KeyInv'
<1> DEFINE rows == [i \in DOMAIN apps |-> IF i \in handler[h].ids
                                           THEN [apps[i] EXCEPT !.status = "submitted"] ELSE apps[i]]
           x == [handler[h] EXCEPT !.phase = "marked"]
<1>1. handler[h] \in HandlerState /\ handler[h].wants \in Seq(Applicant) /\ handler[h].method \in Method
  BY DEF KeyInv, RequestsType, Mark
<1>2. x \in HandlerState /\ x.wants \in Seq(Applicant) /\ x.method \in Method
  BY <1>1 DEF HandlerState
<1>3. rows \in [DOMAIN apps -> Row] /\ \A i \in DOMAIN apps : rows[i].profile = apps[i].profile
  BY RowsFunction DEF Row, Status
<1>4. handler' = [handler EXCEPT ![h] = x] /\ apps' = rows
  BY DEF Mark, KeyInv
<1> HIDE DEF rows, x
<1>5. QED
  BY <1>2, <1>3, <1>4, Settled

LEMMA LeaveKey ==
    ASSUME KeyInv, NEW h \in Handler, handler' = [handler EXCEPT ![h] = IdleHandler], UNCHANGED apps
    PROVE  KeyInv'
BY IdleType, RowsFunction, EmptySeq, Settled

LEMMA CancelKey == ASSUME KeyInv, NEW i \in DOMAIN apps, Cancel(i) PROVE KeyInv'
<1> DEFINE rows == [apps EXCEPT ![i].status = "cancelled"]
<1>1. rows \in [DOMAIN apps -> Row] /\ \A j \in DOMAIN apps : rows[j].profile = apps[j].profile
  BY RowsFunction DEF Row, Status
<1>2. apps' = rows /\ UNCHANGED handler
  BY DEF Cancel
<1> HIDE DEF rows
<1>3. QED
  BY <1>1, <1>2, Restated

LEMMA SaveAnswerKey == ASSUME KeyInv, NEW w \in Worker, SaveAnswer(w) PROVE KeyInv'
<1> DEFINE rows == [i \in DOMAIN apps |->
                      IF i \in worker[w].todo
                        THEN [apps[i] EXCEPT !.status = IF i \in worker[w].taken THEN "mandate_pending" ELSE "failed"]
                        ELSE apps[i]]
<1>1. CASE UNCHANGED <<apps, handler>>
  BY <1>1 DEF KeyInv, RequestsType, RowsType, OneRowEach
<1>2. CASE apps' = rows /\ UNCHANGED handler
  <2>1. rows \in [DOMAIN apps -> Row] /\ \A j \in DOMAIN apps : rows[j].profile = apps[j].profile
    BY RowsFunction DEF Row, Status
  <2> HIDE DEF rows
  <2>2. QED
    BY <1>2, <2>1, Restated
<1>3. QED
  BY <1>1, <1>2 DEF SaveAnswer

LEMMA NextKey == KeyInv /\ [Next]_vars => KeyInv'
<1> SUFFICES ASSUME KeyInv, [Next]_vars PROVE KeyInv'
  OBVIOUS
<1>1. ASSUME NEW h \in Handler, NEW m \in Method, Check(h, m) PROVE KeyInv'
  BY <1>1, CheckKey
<1>2. ASSUME NEW h \in Handler, Insert(h) PROVE KeyInv'
  BY <1>2, InsertKey
<1>3. ASSUME NEW h \in Handler, Mark(h) PROVE KeyInv'
  BY <1>3, MarkKey
<1>4. ASSUME NEW h \in Handler, Enqueue(h) \/ Abandon(h) PROVE KeyInv'
  BY <1>4, LeaveKey DEF Enqueue, Abandon
<1>5. ASSUME NEW i \in DOMAIN apps, Cancel(i) PROVE KeyInv'
  BY <1>5, CancelKey
<1>6. ASSUME NEW w \in Worker, SaveAnswer(w) PROVE KeyInv'
  BY <1>6, SaveAnswerKey
<1>7. ASSUME NEW w \in Worker, Take(w) \/ AskStore(w) \/ Call(w) \/ Stall(w) PROVE UNCHANGED <<apps, handler>>
  BY <1>7 DEF Take, AskStore, Call, Stall
<1>8. ASSUME HardDelete \/ UNCHANGED vars PROVE UNCHANGED <<apps, handler>>
  BY <1>8 DEF HardDelete, vars
<1>9. ASSUME UNCHANGED <<apps, handler>> PROVE KeyInv'
  BY <1>9 DEF KeyInv, RequestsType, RowsType, OneRowEach
<1>10. QED
  BY <1>1, <1>2, <1>3, <1>4, <1>5, <1>6, <1>7, <1>8, <1>9 DEF Next, Apply, Work

\* Whatever requests pass the check together, and whatever the worker and the operator
\* make of the rows, a PAN has one counted application per bucket.
THEOREM OnePerPan == Spec => []OneApplicationPerBucket
<1>1. KeyInv => OneApplicationPerBucket
  BY DEF KeyInv, OneRowEach, OneApplicationPerBucket
<1>2. QED
  BY <1>1, InitKey, NextKey, PTL DEF Spec

-----------------------------------------------------------------------------
(* No bid is sent twice.  What the worker asks the store does not give it, *)
(* since a row that is gone counts as not submitted: it is that a job is   *)
(* only sent by a worker that took it before the rows were gone, and that  *)
(* no worker can take it again after.                                      *)

WorkerTypes ==
    /\ gone \in BOOLEAN
    /\ jobs \in Seq(Job)
    /\ worker \in [Worker -> WorkerState]
    /\ sent \in [1 .. MaxApps -> Nat]

\* A job that can still be tried has attempts left.
AttemptsLeft == \A j \in DOMAIN jobs : jobs[j].state \in {"waiting", "active"} => jobs[j].left > 0

\* A job is in the hands of one worker.
OneWorkerEach == \A w \in Worker : worker[w].phase # "idle" =>
    /\ worker[w].job \in DOMAIN jobs /\ jobs[worker[w].job].state = "active"
    /\ \A v \in Worker : v # w /\ worker[v].phase # "idle" => worker[v].job # worker[w].job

\* Requests and jobs are about rows that were created, each about its own.
RowsCreated ==
    /\ \A h \in Handler : handler[h].ids \subseteq DOMAIN apps
    /\ \A j \in DOMAIN jobs : jobs[j].ids \subseteq DOMAIN apps
RowsApart ==
    /\ \A h, g \in Handler : h # g => handler[h].ids \cap handler[g].ids = {}
    /\ \A h \in Handler, j \in DOMAIN jobs : handler[h].ids \cap jobs[j].ids = {}
    /\ \A j, k \in DOMAIN jobs : j # k => jobs[j].ids \cap jobs[k].ids = {}

\* The rows of a job count as submitted from the moment it is queued.
Unsent == {"draft", "failed"}
QueuedAsSubmitted == ~gone =>
    /\ \A h \in Handler : handler[h].phase = "marked" => \A i \in handler[h].ids : apps[i].status \notin Unsent
    /\ \A j \in DOMAIN jobs : \A i \in jobs[j].ids : apps[i].status \notin Unsent

\* A worker that sends does so after the rows are gone, and no one did before it.
SendsOnce == \A w \in Worker :
    /\ worker[w].phase \in {"cleared", "answered"} =>
          gone /\ ~jobs[worker[w].job].bulk /\ worker[w].todo \subseteq jobs[worker[w].job].ids
    /\ worker[w].phase \in {"loaded", "cleared"} /\ ~jobs[worker[w].job].bulk =>
          \A i \in DOMAIN sent : i \in jobs[worker[w].job].ids => sent[i] = 0
NothingSentBefore == ~gone => \A i \in DOMAIN sent : sent[i] = 0

RequestInv == KeyInv /\ WorkerTypes /\ RowsCreated /\ RowsApart /\ QueuedAsSubmitted
WorkerInv == AttemptsLeft /\ OneWorkerEach /\ SendsOnce /\ NothingSentBefore /\ NeverSentTwice
JobInv == RequestInv /\ WorkerInv

-----------------------------------------------------------------------------
LEMMA InitJob == Init => JobInv
<1> SUFFICES ASSUME Init PROVE JobInv
  OBVIOUS
<1>1. /\ apps = <<>> /\ jobs = <<>> /\ gone = FALSE /\ sent = [i \in 1 .. MaxApps |-> 0]
      /\ \A h \in Handler : handler[h].ids = {} /\ handler[h].phase = "idle"
      /\ worker = [w \in Worker |-> IdleWorker]
  BY DEF Init, IdleHandler
<1>2. IdleWorker \in WorkerState /\ IdleWorker.phase = "idle"
  BY DEF IdleWorker, WorkerState
<1>3. \A w \in Worker : worker[w].phase = "idle"
  BY <1>1, <1>2
<1>4. DOMAIN jobs = {}
  BY <1>1, EmptySeq
<1>5. WorkerTypes
  BY <1>1, <1>2, EmptySeq, BoundsAssumption DEF WorkerTypes
<1>6. RowsCreated /\ RowsApart /\ QueuedAsSubmitted
  BY <1>1, <1>4 DEF RowsCreated, RowsApart, QueuedAsSubmitted
<1>7. AttemptsLeft /\ OneWorkerEach /\ SendsOnce /\ NothingSentBefore /\ NeverSentTwice
  BY <1>1, <1>3, <1>4 DEF AttemptsLeft, OneWorkerEach, SendsOnce, NothingSentBefore, NeverSentTwice
<1>8. QED
  BY <1>5, <1>6, <1>7, InitKey DEF JobInv, RequestInv, WorkerInv

-----------------------------------------------------------------------------
(* The requests and the operators leave jobs, worker and sent alone, but   *)
(* for the job that is queued.                                             *)

\* A step of a request that keeps the rows it is about, or drops them.
LEMMA KeepsRows ==
    ASSUME JobInv, KeyInv', UNCHANGED <<gone, jobs, worker, sent>>, DOMAIN apps' = DOMAIN apps,
           \A h \in Handler : handler'[h].ids \subseteq handler[h].ids,
           ~gone => /\ \A i \in DOMAIN apps : apps[i].status \notin Unsent => apps'[i].status \notin Unsent
                    /\ \A h \in Handler : handler'[h].phase = "marked" =>
                           handler[h].phase = "marked" \/ \A i \in handler'[h].ids : apps'[i].status \notin Unsent
    PROVE  JobInv'
<1>1. WorkerTypes' /\ AttemptsLeft' /\ OneWorkerEach' /\ SendsOnce' /\ NothingSentBefore' /\ NeverSentTwice'
  BY DEF JobInv, RequestInv, WorkerInv, WorkerTypes, AttemptsLeft, OneWorkerEach, SendsOnce, NothingSentBefore, NeverSentTwice
<1>2. RowsCreated'
  BY DEF JobInv, RequestInv, RowsCreated
<1>3. RowsApart'
  BY DEF JobInv, RequestInv, RowsApart
<1>4. QueuedAsSubmitted'
  BY DEF JobInv, RequestInv, RowsCreated, QueuedAsSubmitted
<1>5. QED
  BY <1>1, <1>2, <1>3, <1>4 DEF JobInv, RequestInv, WorkerInv

LEMMA CheckJob == ASSUME JobInv, NEW h \in Handler, NEW m \in Method, Check(h, m) PROVE JobInv'
<1>1. KeyInv'
  BY CheckKey DEF JobInv, RequestInv
<1>2. PICK w : handler' = [handler EXCEPT ![h] = [phase |-> "checked", method |-> m, wants |-> w, ids |-> {}]]
  BY DEF Check
<1>3. UNCHANGED <<apps, gone, jobs, worker, sent>>
  BY DEF Check
<1>4. \A g \in Handler : IF g = h THEN handler'[g].ids = {} /\ handler'[g].phase = "checked"
                                 ELSE handler'[g] = handler[g]
  BY <1>2 DEF JobInv, RequestInv, KeyInv
<1>5. QED
  BY <1>1, <1>3, <1>4, KeepsRows

LEMMA LeaveJob ==
    ASSUME JobInv, NEW h \in Handler, handler' = [handler EXCEPT ![h] = IdleHandler],
           UNCHANGED <<apps, gone, jobs, worker, sent>>
    PROVE  JobInv'
<1>1. KeyInv'
  BY LeaveKey DEF JobInv, RequestInv
<1>2. IdleHandler.ids = {} /\ IdleHandler.phase = "idle"
  BY DEF IdleHandler
<1>3. \A g \in Handler : IF g = h THEN handler'[g].ids = {} /\ handler'[g].phase = "idle"
                                 ELSE handler'[g] = handler[g]
  BY <1>2 DEF JobInv, RequestInv, KeyInv
<1>4. QED
  BY <1>1, <1>3, KeepsRows

LEMMA MarkJob == ASSUME JobInv, NEW h \in Handler, Mark(h) PROVE JobInv'
<1>1. KeyInv'
  BY MarkKey DEF JobInv, RequestInv
<1>2. handler[h] \in HandlerState /\ apps \in [DOMAIN apps -> Row]
  BY RowsFunction DEF JobInv, RequestInv, KeyInv
<1>3. /\ apps' = [i \in DOMAIN apps |-> IF i \in handler[h].ids THEN [apps[i] EXCEPT !.status = "submitted"] ELSE apps[i]]
      /\ handler' = [handler EXCEPT ![h].phase = "marked"] /\ UNCHANGED <<gone, jobs, worker, sent>>
  BY DEF Mark
<1>4. /\ \A g \in Handler : handler'[g].ids = handler[g].ids
      /\ \A g \in Handler : g # h => handler'[g] = handler[g]
  BY <1>2, <1>3 DEF JobInv, RequestInv, KeyInv, HandlerState
<1>5. \A i \in DOMAIN apps : IF i \in handler[h].ids THEN apps'[i].status = "submitted" ELSE apps'[i] = apps[i]
  BY <1>2, <1>3 DEF Row
<1>6. \A i \in handler'[h].ids : apps'[i].status \notin Unsent
  BY <1>4, <1>5 DEF Unsent, JobInv, RequestInv, RowsCreated
<1>7. \A i \in DOMAIN apps : apps[i].status \notin Unsent => apps'[i].status \notin Unsent
  BY <1>5 DEF Unsent
<1>8. DOMAIN apps' = DOMAIN apps /\ \A g \in Handler : handler'[g].ids \subseteq handler[g].ids
  BY <1>3, <1>4
<1>9. \A g \in Handler : handler'[g].phase = "marked" =>
          handler[g].phase = "marked" \/ \A i \in handler'[g].ids : apps'[i].status \notin Unsent
  BY <1>4, <1>6
<1>10. QED
  BY <1>1, <1>3, <1>7, <1>8, <1>9, KeepsRows

LEMMA CancelJob == ASSUME JobInv, NEW i \in DOMAIN apps, Cancel(i) PROVE JobInv'
<1>1. KeyInv'
  BY CancelKey DEF JobInv, RequestInv
<1>2. apps \in [DOMAIN apps -> Row]
  BY RowsFunction DEF JobInv, RequestInv
<1>3. apps' = [apps EXCEPT ![i].status = "cancelled"] /\ UNCHANGED <<gone, handler, jobs, worker, sent>>
  BY DEF Cancel
<1>4. \A k \in DOMAIN apps : IF k = i THEN apps'[k].status = "cancelled" ELSE apps'[k] = apps[k]
  BY <1>2, <1>3 DEF Row
<1>5. \A k \in DOMAIN apps : apps[k].status \notin Unsent => apps'[k].status \notin Unsent
  BY <1>4 DEF Unsent
<1>6. DOMAIN apps' = DOMAIN apps
  BY <1>3
<1>7. QED
  BY <1>1, <1>3, <1>5, <1>6, KeepsRows

\* The rows that are created get numbers no request or job has.
LEMMA InsertJob == ASSUME JobInv, NEW h \in Handler, Insert(h) PROVE JobInv'
<1> DEFINE w == handler[h].wants
           ids == {Len(apps) + i : i \in DOMAIN w}
<1>1. KeyInv'
  BY InsertKey DEF JobInv, RequestInv
<1>2. KeyInv /\ handler[h] \in HandlerState
  BY DEF JobInv, RequestInv, KeyInv
<1>3. w \in Seq(Applicant) /\ DOMAIN w = 1 .. Len(w) /\ Len(w) \in Nat
      /\ DOMAIN apps = 1 .. Len(apps) /\ Len(apps) \in Nat
  BY <1>2, LenProperties DEF KeyInv, RequestsType, RowsType
<1>4. handler[h].phase = "checked" /\ ~gone /\ UNCHANGED <<gone, jobs, worker, sent>>
  BY DEF Insert
<1>5. CASE apps' = apps /\ handler' = [handler EXCEPT ![h] = IdleHandler]
  BY <1>4, <1>5, LeaveJob
<1>6. CASE /\ apps' = apps \o NewRows(h)
           /\ handler' = [handler EXCEPT ![h] =
                 IF handler[h].method = "pdf" THEN IdleHandler
                 ELSE [handler[h] EXCEPT !.phase = PhaseAfterInsert[handler[h].method], !.ids = ids]]
  <2>1. NewRows(h) \in Seq(Row) /\ Len(NewRows(h)) = Len(w)
    BY <1>2, NewRowsType
  <2>2. /\ Len(apps') = Len(apps) + Len(w) /\ apps' \in Seq(Row)
        /\ \A i \in 1 .. Len(apps) + Len(w) : apps'[i] = IF i <= Len(apps) THEN apps[i] ELSE NewRows(h)[i - Len(apps)]
    <3>1. apps \in Seq(Row)
      BY <1>2 DEF KeyInv, RowsType
    <3> HIDE DEF w, ids
    <3>2. apps' = apps \o NewRows(h)
      BY <1>6
    <3>3. Len(apps \o NewRows(h)) = Len(apps) + Len(NewRows(h)) /\ apps \o NewRows(h) \in Seq(Row)
          /\ \A i \in 1 .. Len(apps) + Len(NewRows(h)) :
               (apps \o NewRows(h))[i] = IF i <= Len(apps) THEN apps[i] ELSE NewRows(h)[i - Len(apps)]
      BY <2>1, <3>1, ConcatProperties
    <3>4. QED
      BY <2>1, <3>2, <3>3
  <2>3. DOMAIN apps' = 1 .. Len(apps) + Len(w)
    BY <2>2, LenProperties
  <2>4. DOMAIN apps \subseteq DOMAIN apps' /\ \A i \in DOMAIN apps : apps'[i] = apps[i]
    BY <1>3, <2>2, <2>3
  <2>5. ids \subseteq DOMAIN apps' /\ ids \cap DOMAIN apps = {}
    BY <1>3, <2>3
  <2>6. \A g \in Handler : g # h => handler'[g] = handler[g]
    BY <1>2, <1>6 DEF KeyInv
  <2>7. /\ handler'[h].ids = {} \/ handler'[h].ids = ids
        /\ handler'[h].phase = "marked" => handler'[h].ids = ids /\ handler[h].method = "bulk"
    <3>1. IdleHandler.ids = {} /\ IdleHandler.phase = "idle"
      BY DEF IdleHandler
    <3>2. CASE handler[h].method = "pdf"
      BY <1>2, <1>6, <3>1, <3>2 DEF KeyInv
    <3>3. CASE handler[h].method # "pdf"
      <4> DEFINE f == [handler[h] EXCEPT !.phase = PhaseAfterInsert[handler[h].method], !.ids = ids]
      <4>1. f.ids = ids /\ f.phase = PhaseAfterInsert[handler[h].method]
        BY <1>2 DEF HandlerState
      <4>2. handler'[h] = f
        BY <1>2, <1>6, <3>3 DEF KeyInv
      <4>3. PhaseAfterInsert["native"] = "inserted"
        BY DEF PhaseAfterInsert
      <4>4. handler[h].method \in {"native", "bulk"}
        BY <1>2, <1>4, <3>3, MethodAssumption DEF KeyInv
      <4> HIDE DEF f, ids
      <4>5. QED
        BY <4>1, <4>2, <4>3, <4>4
    <3>4. QED
      BY <3>2, <3>3
  <2>8. handler[h].method = "bulk" => \A i \in ids : apps'[i].status \notin Unsent
    <3>1. SUFFICES ASSUME handler[h].method = "bulk", NEW i \in DOMAIN w PROVE apps'[Len(apps) + i].status \notin Unsent
      OBVIOUS
    <3>2. apps'[Len(apps) + i] = NewRows(h)[i]
      BY <1>3, <2>2
    <3>3. QED
      BY <3>1, <3>2 DEF NewRows, FirstStatus, Unsent
  <2> HIDE DEF w, ids
  <2>9. WorkerTypes' /\ WorkerInv'
    BY <1>4 DEF JobInv, RequestInv, WorkerInv, WorkerTypes, AttemptsLeft, OneWorkerEach, SendsOnce, NothingSentBefore, NeverSentTwice
  <2>10. RowsCreated'
    BY <1>4, <2>4, <2>5, <2>6, <2>7 DEF JobInv, RequestInv, RowsCreated
  <2>11. RowsApart'
    <3>1. ASSUME NEW S, S \subseteq DOMAIN apps PROVE handler'[h].ids \cap S = {}
      BY <2>5, <2>7, <3>1
    <3>2. \A g \in Handler : g # h => handler'[h].ids \cap handler'[g].ids = {} /\ handler'[g].ids \cap handler'[h].ids = {}
      BY <2>6, <3>1 DEF JobInv, RequestInv, RowsCreated
    <3>3. \A j \in DOMAIN jobs : handler'[h].ids \cap jobs[j].ids = {}
      BY <3>1 DEF JobInv, RequestInv, RowsCreated
    <3>4. \A g, k \in Handler : g # k => handler'[g].ids \cap handler'[k].ids = {}
      BY <2>6, <3>2 DEF JobInv, RequestInv, RowsApart
    <3>5. \A g \in Handler, j \in DOMAIN jobs : handler'[g].ids \cap jobs[j].ids = {}
      BY <2>6, <3>3 DEF JobInv, RequestInv, RowsApart
    <3>6. QED
      BY <1>4, <3>4, <3>5 DEF JobInv, RequestInv, RowsApart
  <2>12. QueuedAsSubmitted'
    <3>1. \A j \in DOMAIN jobs : \A i \in jobs[j].ids : apps'[i].status \notin Unsent
      BY <1>4, <2>4 DEF JobInv, RequestInv, RowsCreated, QueuedAsSubmitted
    <3>2. ASSUME NEW g \in Handler, handler'[g].phase = "marked", NEW i \in handler'[g].ids PROVE apps'[i].status \notin Unsent
      <4>1. CASE g = h
        BY <2>7, <2>8, <3>2, <4>1
      <4>2. CASE g # h
        BY <1>4, <2>4, <2>6, <3>2, <4>2 DEF JobInv, RequestInv, RowsCreated, QueuedAsSubmitted
      <4>3. QED
        BY <4>1, <4>2
    <3>3. QED
      BY <1>4, <3>1, <3>2 DEF QueuedAsSubmitted
  <2>13. QED
    BY <1>1, <2>9, <2>10, <2>11, <2>12 DEF JobInv, RequestInv
<1>7. QED
  BY <1>5, <1>6 DEF Insert, NewRows

\* The request hands its rows to the job it queues.
LEMMA EnqueueJob == ASSUME JobInv, NEW h \in Handler, Enqueue(h) PROVE JobInv'
<1> DEFINE new == [ids |-> handler[h].ids, bulk |-> handler[h].method = "bulk", left |-> MaxAttempts, state |-> "waiting"]
           n == Len(jobs) + 1
<1>1. /\ handler[h].phase = "marked" /\ jobs' = Append(jobs, new) /\ handler' = [handler EXCEPT ![h] = IdleHandler]
      /\ UNCHANGED <<apps, gone, worker, sent>>
  BY DEF Enqueue
<1>2. KeyInv'
  BY <1>1, LeaveKey DEF JobInv, RequestInv
<1>3. handler[h] \in HandlerState /\ jobs \in Seq(Job) /\ Len(jobs) \in Nat /\ DOMAIN jobs = 1 .. Len(jobs)
  BY LenProperties DEF JobInv, RequestInv, KeyInv, WorkerTypes
<1>4. new \in Job
  BY <1>3, BoundsAssumption DEF Job, HandlerState
<1>5. new.ids = handler[h].ids /\ new.state = "waiting" /\ new.left = MaxAttempts
  OBVIOUS
<1> HIDE DEF new
<1>6. /\ jobs' \in Seq(Job) /\ DOMAIN jobs' = DOMAIN jobs \cup {n} /\ n \notin DOMAIN jobs
      /\ jobs'[n] = new /\ \A j \in DOMAIN jobs : jobs'[j] = jobs[j]
  <2>1. jobs' \in Seq(Job) /\ Len(jobs') = n /\ jobs'[n] = new /\ \A j \in 1 .. Len(jobs) : jobs'[j] = jobs[j]
    BY <1>1, <1>3, <1>4, AppendProperties
  <2>2. DOMAIN jobs' = 1 .. n
    BY <2>1, LenProperties
  <2>3. QED
    BY <1>3, <2>1, <2>2
<1> HIDE DEF n
<1>7. /\ \A g \in Handler : g # h => handler'[g] = handler[g]
      /\ handler'[h].ids = {} /\ handler'[h].phase = "idle"
  BY <1>1 DEF JobInv, RequestInv, KeyInv, IdleHandler
<1>8. WorkerTypes'
  BY <1>1, <1>6 DEF JobInv, RequestInv, WorkerTypes
<1>9. RowsCreated'
  BY <1>1, <1>5, <1>6, <1>7 DEF JobInv, RequestInv, RowsCreated
<1>10. RowsApart'
  <2>1. \A g, k \in Handler : g # k => handler'[g].ids \cap handler'[k].ids = {}
    BY <1>7 DEF JobInv, RequestInv, RowsApart
  <2>2. \A g \in Handler : handler'[g].ids \cap new.ids = {}
    BY <1>5, <1>7 DEF JobInv, RequestInv, RowsApart
  <2>3. \A g \in Handler, j \in DOMAIN jobs : handler'[g].ids \cap jobs[j].ids = {}
    BY <1>7 DEF JobInv, RequestInv, RowsApart
  <2>4. \A j \in DOMAIN jobs : new.ids \cap jobs[j].ids = {}
    BY <1>5 DEF JobInv, RequestInv, RowsApart
  <2>5. \A j, k \in DOMAIN jobs' : j # k => jobs'[j].ids \cap jobs'[k].ids = {}
    BY <1>6, <2>4 DEF JobInv, RequestInv, RowsApart
  <2>6. \A g \in Handler, j \in DOMAIN jobs' : handler'[g].ids \cap jobs'[j].ids = {}
    BY <1>6, <2>2, <2>3
  <2>7. QED
    BY <2>1, <2>5, <2>6 DEF RowsApart
<1>11. QueuedAsSubmitted'
  BY <1>1, <1>5, <1>6, <1>7 DEF JobInv, RequestInv, QueuedAsSubmitted
<1>12. AttemptsLeft'
  BY <1>5, <1>6, BoundsAssumption DEF JobInv, WorkerInv, AttemptsLeft
<1>13. \A w \in Worker : worker[w].phase # "idle" => worker[w].job \in DOMAIN jobs /\ jobs'[worker[w].job] = jobs[worker[w].job]
  BY <1>6 DEF JobInv, WorkerInv, OneWorkerEach
<1>14. OneWorkerEach'
  BY <1>1, <1>6, <1>13 DEF JobInv, WorkerInv, OneWorkerEach
<1>15. SendsOnce'
  BY <1>1, <1>13 DEF JobInv, WorkerInv, SendsOnce
<1>16. NothingSentBefore' /\ NeverSentTwice'
  BY <1>1 DEF JobInv, WorkerInv, NothingSentBefore, NeverSentTwice
<1>17. QED
  BY <1>2, <1>8, <1>9, <1>10, <1>11, <1>12, <1>14, <1>15, <1>16 DEF JobInv, RequestInv, WorkerInv

LEMMA HardDeleteJob == ASSUME JobInv, HardDelete PROVE JobInv'
<1>1. gone' = TRUE /\ ~gone /\ UNCHANGED <<apps, handler, jobs, worker, sent>>
  BY DEF HardDelete
<1>2. KeyInv'
  BY <1>1 DEF JobInv, RequestInv, KeyInv, RequestsType, RowsType, OneRowEach
<1>3. WorkerTypes' /\ RowsCreated' /\ RowsApart' /\ QueuedAsSubmitted'
  BY <1>1 DEF JobInv, RequestInv, WorkerTypes, RowsCreated, RowsApart, QueuedAsSubmitted
<1>4. WorkerInv'
  BY <1>1 DEF JobInv, WorkerInv, AttemptsLeft, OneWorkerEach, SendsOnce, NothingSentBefore, NeverSentTwice
<1>5. QED
  BY <1>2, <1>3, <1>4 DEF JobInv, RequestInv

-----------------------------------------------------------------------------
(* The worker changes no more of a job than its state and its attempts.    *)

LEMMA FreeWorker ==
    /\ IdleWorker \in WorkerState /\ IdleWorker.phase = "idle"
    /\ \A j \in Nat : LET l == [IdleWorker EXCEPT !.phase = "loaded", !.job = j]
                       IN  l \in WorkerState /\ l.phase = "loaded" /\ l.job = j
BY DEF IdleWorker, WorkerState

\* What a step of worker w with job j may do to the jobs.
OnlyRetried(j) ==
    /\ DOMAIN jobs' = DOMAIN jobs
    /\ \A k \in DOMAIN jobs : jobs'[k].ids = jobs[k].ids /\ jobs'[k].bulk = jobs[k].bulk
    /\ \A k \in DOMAIN jobs : k # j => jobs'[k] = jobs[k]

LEMMA StateJob ==
    ASSUME JobInv, NEW j \in DOMAIN jobs, NEW st \in {"active", "done"}, st = "active" => jobs[j].left > 0,
           jobs' = [jobs EXCEPT ![j].state = st]
    PROVE  jobs' \in Seq(Job) /\ OnlyRetried(j) /\ AttemptsLeft' /\ jobs'[j].state = st
<1>1. jobs \in Seq(Job) /\ jobs[j] \in Job
  BY ElementOfSeq, LenProperties DEF JobInv, RequestInv, WorkerTypes
<1> DEFINE x == [jobs[j] EXCEPT !.state = st]
<1>2. x \in Job /\ x.ids = jobs[j].ids /\ x.bulk = jobs[j].bulk /\ x.left = jobs[j].left /\ x.state = st
  BY <1>1 DEF Job
<1>3. jobs' = [jobs EXCEPT ![j] = x]
  OBVIOUS
<1> HIDE DEF x
<1>4. jobs' \in Seq(Job)
  BY <1>1, <1>2, <1>3, ExceptSeq, LenProperties
<1>5. DOMAIN jobs' = DOMAIN jobs /\ jobs'[j] = x /\ \A k \in DOMAIN jobs : k # j => jobs'[k] = jobs[k]
  BY <1>1, <1>3
<1>6. AttemptsLeft'
  BY <1>2, <1>5 DEF JobInv, WorkerInv, AttemptsLeft
<1>7. QED
  BY <1>2, <1>4, <1>5, <1>6 DEF OnlyRetried

LEMMA ThrownJob ==
    ASSUME JobInv, NEW j \in DOMAIN jobs, jobs[j].state \in {"waiting", "active"}, jobs' = Thrown(j)
    PROVE  jobs' \in Seq(Job) /\ OnlyRetried(j) /\ AttemptsLeft'
<1>1. jobs \in Seq(Job) /\ jobs[j] \in Job
  BY ElementOfSeq, LenProperties DEF JobInv, RequestInv, WorkerTypes
<1> DEFINE st == IF jobs[j].left > 1 THEN "waiting" ELSE "failed"
           x == [jobs[j] EXCEPT !.left = jobs[j].left - 1, !.state = st]
<1>2. jobs[j].left > 0 /\ jobs[j].left \in 0 .. MaxAttempts /\ MaxAttempts \in Nat
  BY <1>1, BoundsAssumption DEF Job, JobInv, WorkerInv, AttemptsLeft
<1>3. jobs[j].left - 1 \in 0 .. MaxAttempts
  BY <1>2
<1>4. x \in Job /\ x.ids = jobs[j].ids /\ x.bulk = jobs[j].bulk /\ x.left = jobs[j].left - 1 /\ x.state = st
  BY <1>1, <1>3 DEF Job
<1>5. x.state \in {"waiting", "active"} => x.left > 0
  BY <1>2, <1>4
<1>6. jobs' = [jobs EXCEPT ![j] = x]
  BY DEF Thrown
<1> HIDE DEF x
<1>7. jobs' \in Seq(Job)
  BY <1>1, <1>4, <1>6, ExceptSeq, LenProperties
<1>8. DOMAIN jobs' = DOMAIN jobs /\ jobs'[j] = x /\ \A k \in DOMAIN jobs : k # j => jobs'[k] = jobs[k]
  BY <1>1, <1>6
<1>9. AttemptsLeft'
  BY <1>5, <1>8 DEF JobInv, WorkerInv, AttemptsLeft
<1>10. QED
  BY <1>4, <1>7, <1>8, <1>9 DEF OnlyRetried

\* Jobs that were retried or done, with rows that did not change for the worse.
LEMMA RequestsStay ==
    ASSUME JobInv, NEW j, OnlyRetried(j), WorkerTypes', UNCHANGED <<apps, gone, handler>>
    PROVE  RequestInv'
<1>1. KeyInv'
  BY DEF JobInv, RequestInv, KeyInv, RequestsType, RowsType, OneRowEach
<1>2. RowsCreated' /\ QueuedAsSubmitted'
  BY DEF JobInv, RequestInv, OnlyRetried, RowsCreated, QueuedAsSubmitted
<1>3. RowsApart'
  BY DEF JobInv, RequestInv, OnlyRetried, RowsApart
<1>4. QED
  BY <1>1, <1>2, <1>3 DEF RequestInv

\* A worker that puts its job down keeps the invariant; what it sent before it did
\* is in sent.
LEMMA PutsDown ==
    ASSUME JobInv, NEW w \in Worker, worker[w].phase # "idle",
           jobs' \in Seq(Job), OnlyRetried(worker[w].job), AttemptsLeft',
           worker' = [worker EXCEPT ![w] = IdleWorker], UNCHANGED <<apps, gone, handler>>,
           sent' \in [1 .. MaxApps -> Nat], NothingSentBefore', NeverSentTwice',
           \A i \in DOMAIN sent : i \notin jobs[worker[w].job].ids => sent'[i] = sent[i]
    PROVE  JobInv'
<1> DEFINE j == worker[w].job
<1>1. worker \in [Worker -> WorkerState] /\ DOMAIN sent' = DOMAIN sent
  BY DEF JobInv, RequestInv, WorkerTypes
<1>2. worker'[w].phase = "idle" /\ \A v \in Worker : v # w => worker'[v] = worker[v]
  BY <1>1, FreeWorker
<1>3. WorkerTypes'
  BY <1>1, FreeWorker DEF JobInv, RequestInv, WorkerTypes
<1>4. RequestInv'
  BY <1>3, RequestsStay
<1>5. \A v \in Worker : v # w /\ worker[v].phase # "idle" => worker[v].job \in DOMAIN jobs /\ worker[v].job # j
  BY DEF JobInv, WorkerInv, OneWorkerEach
<1>6. j \in DOMAIN jobs
  BY DEF JobInv, WorkerInv, OneWorkerEach
<1>7. \A v \in Worker : v # w /\ worker[v].phase # "idle" =>
          /\ jobs'[worker[v].job] = jobs[worker[v].job]
          /\ \A i \in DOMAIN sent : i \in jobs[worker[v].job].ids => sent'[i] = sent[i]
  BY <1>5, <1>6 DEF OnlyRetried, JobInv, RequestInv, RowsApart
<1>8. OneWorkerEach'
  BY <1>2, <1>5, <1>7 DEF OnlyRetried, JobInv, WorkerInv, OneWorkerEach
<1>9. SendsOnce'
  BY <1>1, <1>2, <1>7 DEF JobInv, WorkerInv, SendsOnce
<1>10. QED
  BY <1>4, <1>8, <1>9 DEF JobInv, WorkerInv

\* The job of a worker is active.
LEMMA InHand ==
    ASSUME JobInv, NEW w \in Worker, worker[w].phase # "idle"
    PROVE  worker[w].job \in DOMAIN jobs /\ jobs[worker[w].job].state = "active"
BY DEF JobInv, WorkerInv, OneWorkerEach

\* A worker that throws, or is done, with nothing sent in the step.
LEMMA Ends ==
    ASSUME JobInv, NEW w \in Worker, worker[w].phase # "idle", Throw(w) \/ Done(w),
           UNCHANGED <<apps, gone, handler, sent>>
    PROVE  JobInv'
<1>1. worker' = [worker EXCEPT ![w] = IdleWorker] /\ (jobs' = Thrown(worker[w].job) \/ jobs' = [jobs EXCEPT ![worker[w].job].state = "done"])
  BY DEF Throw, Done, Free
<1>2. jobs' \in Seq(Job) /\ OnlyRetried(worker[w].job) /\ AttemptsLeft'
  BY <1>1, InHand, ThrownJob, StateJob
<1>3. sent' \in [1 .. MaxApps -> Nat] /\ NothingSentBefore' /\ NeverSentTwice'
  BY DEF JobInv, RequestInv, WorkerInv, WorkerTypes, NothingSentBefore, NeverSentTwice
<1>4. QED
  BY <1>1, <1>2, <1>3, PutsDown

\* A worker takes a job no one has; nothing of it was sent, or it is a batch.
LEMMA TakeJob == ASSUME JobInv, NEW w \in Worker, Take(w) PROVE JobInv'
<1>1. worker[w].phase = "idle" /\ UNCHANGED <<apps, gone, handler, sent>>
  BY DEF Take
<1>2. PICK j \in DOMAIN jobs : jobs[j].state = "waiting" /\
          \/ jobs' = Thrown(j) /\ UNCHANGED worker
          \/ /\ ~gone \/ jobs[j].bulk
             /\ jobs' = [jobs EXCEPT ![j].state = "active"]
             /\ worker' = [worker EXCEPT ![w] = [IdleWorker EXCEPT !.phase = "loaded", !.job = j]]
  BY DEF Take
<1>3. \A v \in Worker : worker[v].phase # "idle" => worker[v].job \in DOMAIN jobs /\ worker[v].job # j
  BY <1>2 DEF JobInv, WorkerInv, OneWorkerEach
<1>4. NothingSentBefore' /\ NeverSentTwice' /\ sent' \in [1 .. MaxApps -> Nat]
  BY <1>1 DEF JobInv, RequestInv, WorkerTypes, WorkerInv, NothingSentBefore, NeverSentTwice
<1>5. CASE jobs' = Thrown(j) /\ UNCHANGED worker
  <2>1. jobs' \in Seq(Job) /\ OnlyRetried(j) /\ AttemptsLeft'
    BY <1>2, <1>5, ThrownJob
  <2>2. WorkerTypes'
    BY <1>1, <1>5, <2>1 DEF JobInv, RequestInv, WorkerTypes
  <2>3. RequestInv'
    BY <1>1, <2>1, <2>2, RequestsStay
  <2>4. \A v \in Worker : worker[v].phase # "idle" => jobs'[worker[v].job] = jobs[worker[v].job]
    BY <1>3, <2>1 DEF OnlyRetried
  <2>5. OneWorkerEach' /\ SendsOnce'
    BY <1>1, <1>3, <1>5, <2>1, <2>4 DEF OnlyRetried, JobInv, WorkerInv, OneWorkerEach, SendsOnce
  <2>6. QED
    BY <1>4, <2>1, <2>3, <2>5 DEF JobInv, WorkerInv
<1>6. CASE /\ ~gone \/ jobs[j].bulk
           /\ jobs' = [jobs EXCEPT ![j].state = "active"]
           /\ worker' = [worker EXCEPT ![w] = [IdleWorker EXCEPT !.phase = "loaded", !.job = j]]
  <2>1. jobs[j].left > 0 /\ j \in Nat
    BY <1>2, LenProperties DEF JobInv, RequestInv, WorkerTypes, WorkerInv, AttemptsLeft
  <2>2. jobs' \in Seq(Job) /\ OnlyRetried(j) /\ AttemptsLeft' /\ jobs'[j].state = "active"
    BY <1>6, <2>1, StateJob
  <2>3. worker \in [Worker -> WorkerState]
    BY DEF JobInv, RequestInv, WorkerTypes
  <2>4. /\ worker' \in [Worker -> WorkerState] /\ worker'[w].phase = "loaded" /\ worker'[w].job = j
        /\ \A v \in Worker : v # w => worker'[v] = worker[v]
    BY <1>6, <2>1, <2>3, FreeWorker
  <2>5. RequestInv'
    BY <1>1, <1>4, <2>2, <2>4, RequestsStay DEF JobInv, RequestInv, WorkerTypes
  <2>6. \A v \in Worker : v # w /\ worker[v].phase # "idle" => jobs'[worker[v].job] = jobs[worker[v].job]
    BY <1>3, <2>2 DEF OnlyRetried
  <2>7. OneWorkerEach'
    BY <1>3, <2>2, <2>4, <2>6 DEF OnlyRetried, JobInv, WorkerInv, OneWorkerEach
  <2>8. ~jobs'[j].bulk => \A i \in DOMAIN sent : sent[i] = 0
    BY <1>6, <2>2 DEF OnlyRetried, JobInv, WorkerInv, NothingSentBefore
  <2>9. SendsOnce'
    BY <1>1, <2>4, <2>6, <2>8 DEF JobInv, WorkerInv, SendsOnce
  <2>10. QED
    BY <1>4, <2>2, <2>5, <2>7, <2>9 DEF JobInv, WorkerInv
<1>7. QED
  BY <1>2, <1>5, <1>6

\* While the rows are there the store answers that they were submitted.
LEMMA AskStoreJob == ASSUME JobInv, NEW w \in Worker, AskStore(w) PROVE JobInv'
<1> DEFINE job == jobs[worker[w].job]
           todo == {i \in job.ids : ~AlreadySubmitted(i) /\ ~(job.bulk /\ gone)}
<1>1. worker[w].phase = "loaded" /\ UNCHANGED <<apps, gone, handler, sent>>
  BY DEF AskStore
<1>2. worker[w].job \in DOMAIN jobs
  BY <1>1, InHand
<1>3. CASE Done(w)
  BY <1>1, <1>3, Ends
<1>4. CASE /\ todo # {} /\ UNCHANGED jobs
           /\ worker' = [worker EXCEPT ![w] = [worker[w] EXCEPT !.phase = "cleared", !.todo = todo]]
  <2>1. gone
    <3> SUFFICES ASSUME ~gone PROVE FALSE
      OBVIOUS
    <3>1. \A i \in job.ids : apps[i].status \notin Unsent
      BY <1>2 DEF JobInv, RequestInv, QueuedAsSubmitted
    <3>2. \A i \in job.ids : AlreadySubmitted(i)
      BY <3>1 DEF AlreadySubmitted, Unsent
    <3>3. QED
      BY <1>4, <3>2
  <2>2. ~job.bulk /\ todo \subseteq job.ids
    BY <1>4, <2>1
  <2>3. worker \in [Worker -> WorkerState] /\ jobs \in Seq(Job) /\ job \in Job
    BY <1>2, ElementOfSeq, LenProperties DEF JobInv, RequestInv, WorkerTypes
  <2>4. todo \subseteq Nat
    BY <2>3 DEF Job
  <2> HIDE DEF todo
  <2> DEFINE x == [worker[w] EXCEPT !.phase = "cleared", !.todo = todo]
  <2>5. worker[w] \in WorkerState
    BY <2>3
  <2>6. x \in WorkerState /\ x.phase = "cleared" /\ x.job = worker[w].job /\ x.todo = todo
    BY <2>4, <2>5 DEF WorkerState
  <2> HIDE DEF x
  <2>7. worker' \in [Worker -> WorkerState] /\ worker'[w] = x /\ \A v \in Worker : v # w => worker'[v] = worker[v]
    BY <1>4, <2>3, <2>6 DEF x
  <2>8. OnlyRetried(0) /\ WorkerTypes'
    BY <1>1, <1>4, <2>7 DEF OnlyRetried, JobInv, RequestInv, WorkerTypes
  <2>9. RequestInv'
    BY <1>1, <2>8, RequestsStay
  <2>10. AttemptsLeft' /\ NothingSentBefore' /\ NeverSentTwice'
    BY <1>1, <1>4 DEF JobInv, WorkerInv, AttemptsLeft, NothingSentBefore, NeverSentTwice
  <2>11. OneWorkerEach'
    BY <1>1, <1>4, <2>6, <2>7 DEF JobInv, WorkerInv, OneWorkerEach
  <2>12. SendsOnce'
    BY <1>1, <1>4, <2>1, <2>2, <2>6, <2>7 DEF JobInv, WorkerInv, SendsOnce
  <2>13. QED
    BY <2>9, <2>10, <2>11, <2>12 DEF JobInv, WorkerInv
<1>5. QED
  BY <1>3, <1>4 DEF AskStore

\* The call that sends is the first about its rows, and there is none after it.
LEMMA CallJob == ASSUME JobInv, NEW w \in Worker, Call(w) PROVE JobInv'
<1> DEFINE j == worker[w].job
<1>1. worker[w].phase = "cleared" /\ UNCHANGED <<apps, gone, handler>>
  BY DEF Call
<1>2. PICK taken \in SUBSET worker[w].todo :
          /\ sent' = [i \in DOMAIN sent |-> IF i \in taken THEN sent[i] + 1 ELSE sent[i]]
          /\ \/ /\ worker' = [worker EXCEPT ![w] = [worker[w] EXCEPT !.phase = "answered", !.taken = taken]]
                /\ UNCHANGED jobs
             \/ Throw(w)
  BY DEF Call
<1>3. j \in DOMAIN jobs /\ jobs[j].state = "active"
  BY <1>1, InHand
<1>4. gone /\ taken \subseteq jobs[j].ids /\ ~jobs[j].bulk /\ worker[w].todo \subseteq jobs[j].ids
      /\ \A i \in DOMAIN sent : i \in jobs[j].ids => sent[i] = 0
  BY <1>1, <1>2 DEF JobInv, WorkerInv, SendsOnce
<1>5. sent \in [1 .. MaxApps -> Nat] /\ worker \in [Worker -> WorkerState]
  BY DEF JobInv, RequestInv, WorkerTypes
<1>6. /\ sent' \in [1 .. MaxApps -> Nat] /\ DOMAIN sent' = DOMAIN sent
      /\ \A i \in DOMAIN sent : i \notin jobs[j].ids => sent'[i] = sent[i]
  BY <1>2, <1>4, <1>5
<1>7. NeverSentTwice' /\ NothingSentBefore'
  BY <1>1, <1>2, <1>4, <1>5 DEF JobInv, WorkerInv, NeverSentTwice, NothingSentBefore
<1>8. CASE Throw(w)
  <2>1. worker' = [worker EXCEPT ![w] = IdleWorker] /\ jobs' = Thrown(j)
    BY <1>8 DEF Throw, Free
  <2>2. jobs' \in Seq(Job) /\ OnlyRetried(j) /\ AttemptsLeft'
    BY <1>3, <2>1, ThrownJob
  <2>3. QED
    BY <1>1, <1>6, <1>7, <2>1, <2>2, PutsDown
<1>9. CASE /\ worker' = [worker EXCEPT ![w] = [worker[w] EXCEPT !.phase = "answered", !.taken = taken]]
           /\ UNCHANGED jobs
  <2> DEFINE x == [worker[w] EXCEPT !.phase = "answered", !.taken = taken]
  <2>1. worker[w] \in WorkerState
    BY <1>5
  <2>2. x \in WorkerState /\ x.phase = "answered" /\ x.job = j /\ x.todo = worker[w].todo
    BY <1>2, <2>1 DEF WorkerState
  <2> HIDE DEF x
  <2>3. worker' \in [Worker -> WorkerState] /\ worker'[w] = x /\ \A v \in Worker : v # w => worker'[v] = worker[v]
    BY <1>5, <1>9, <2>2 DEF x
  <2>4. OnlyRetried(0) /\ WorkerTypes'
    BY <1>1, <1>6, <1>9, <2>3 DEF OnlyRetried, JobInv, RequestInv, WorkerTypes
  <2>5. RequestInv'
    BY <1>1, <2>4, RequestsStay
  <2>6. AttemptsLeft'
    BY <1>9 DEF JobInv, WorkerInv, AttemptsLeft
  <2>7. OneWorkerEach'
    BY <1>1, <1>9, <2>2, <2>3 DEF JobInv, WorkerInv, OneWorkerEach
  <2>8. \A v \in Worker : v # w /\ worker[v].phase # "idle" =>
            \A i \in DOMAIN sent : i \in jobs[worker[v].job].ids => sent'[i] = sent[i]
    BY <1>1, <1>3, <1>6 DEF JobInv, RequestInv, WorkerInv, OneWorkerEach, RowsApart
  <2>9. SendsOnce'
    BY <1>1, <1>4, <1>6, <1>9, <2>2, <2>3, <2>8 DEF JobInv, WorkerInv, SendsOnce
  <2>10. QED
    BY <1>7, <2>5, <2>6, <2>7, <2>9 DEF JobInv, WorkerInv
<1>10. QED
  BY <1>2, <1>8, <1>9

\* By the time there is an answer the rows are gone, and writing it throws.
LEMMA SaveAnswerJob == ASSUME JobInv, NEW w \in Worker, SaveAnswer(w) PROVE JobInv'
<1>1. worker[w].phase = "answered" /\ UNCHANGED <<gone, handler, sent>>
  BY DEF SaveAnswer
<1>2. gone
  BY <1>1 DEF JobInv, WorkerInv, SendsOnce
<1>3. Throw(w) /\ UNCHANGED apps
  BY <1>2 DEF SaveAnswer
<1>4. QED
  BY <1>1, <1>3, Ends

LEMMA NextJob == JobInv /\ [Next]_vars => JobInv'
<1> SUFFICES ASSUME JobInv, [Next]_vars PROVE JobInv'
  OBVIOUS
<1>1. ASSUME NEW h \in Handler, NEW m \in Method, Check(h, m) PROVE JobInv'
  BY <1>1, CheckJob
<1>2. ASSUME NEW h \in Handler, Insert(h) PROVE JobInv'
  BY <1>2, InsertJob
<1>3. ASSUME NEW h \in Handler, Mark(h) PROVE JobInv'
  BY <1>3, MarkJob
<1>4. ASSUME NEW h \in Handler, Enqueue(h) PROVE JobInv'
  BY <1>4, EnqueueJob
<1>5. ASSUME NEW h \in Handler, Abandon(h) PROVE JobInv'
  BY <1>5, LeaveJob DEF Abandon
<1>6. ASSUME NEW i \in DOMAIN apps, Cancel(i) PROVE JobInv'
  BY <1>6, CancelJob
<1>7. ASSUME HardDelete PROVE JobInv'
  BY <1>7, HardDeleteJob
<1>8. ASSUME NEW w \in Worker, Take(w) PROVE JobInv'
  BY <1>8, TakeJob
<1>9. ASSUME NEW w \in Worker, AskStore(w) PROVE JobInv'
  BY <1>9, AskStoreJob
<1>10. ASSUME NEW w \in Worker, Call(w) PROVE JobInv'
  BY <1>10, CallJob
<1>11. ASSUME NEW w \in Worker, SaveAnswer(w) PROVE JobInv'
  BY <1>11, SaveAnswerJob
<1>12. ASSUME NEW w \in Worker, Stall(w) PROVE JobInv'
  BY <1>12, Ends DEF Stall
<1>13. CASE UNCHANGED vars
  <2>1. KeyInv'
    BY <1>13 DEF vars, JobInv, RequestInv, KeyInv, RequestsType, RowsType, OneRowEach
  <2>2. QED
    BY <1>13, <2>1, KeepsRows DEF vars
<1>14. QED
  BY <1>1, <1>2, <1>3, <1>4, <1>5, <1>6, <1>7, <1>8, <1>9, <1>10, <1>11, <1>12, <1>13 DEF Next, Apply, Work

\* The shape of every row, request, job and worker slot.
THEOREM TypeCorrect == Spec => []TypeOK
<1>1. JobInv => TypeOK
  BY DEF JobInv, RequestInv, KeyInv, RowsType, WorkerTypes, TypeOK
<1>2. QED
  BY <1>1, InitJob, NextJob, PTL DEF Spec

\* Whatever times out, stalls or is deleted, the exchange takes one bid of a row at most.
THEOREM SentOnce == Spec => []NeverSentTwice
<1>1. JobInv => NeverSentTwice
  BY DEF JobInv, WorkerInv
<1>2. QED
  BY <1>1, InitJob, NextJob, PTL DEF Spec
=============================================================================
