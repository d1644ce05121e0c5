----------------------------- MODULE BidLedger ------------------------------
(***************************************************************************)
(* The local-first bidding queue: BidOperationsService                     *)
(* (apps/api/src/modules/rail/bid-operations.service.ts) over the tables   *)
(* Application and BidOperation, and the exchange it posts to.             *)
(*                                                                         *)
(* A request (edit, cancel, rebid, UPI change) loads the application, may  *)
(* look for the pending "new" row, and then writes in one transaction.  A  *)
(* run of postPending loads a batch of pending rows WITH a copy of their   *)
(* application, and for each row calls the exchange and then writes the    *)
(* answer in one transaction.  Every await is a point where another        *)
(* request or the poster may run, so each part is an action of its own.    *)
(***************************************************************************)
EXTENDS BidRules, Sequences

CONSTANTS
    App,       \* ids an application row may have
    Existing,  \* the applications there are at the start
    Placed,    \* Placed[n]: the application the exchange holds as number n at the start
    Category,  \* Category[a]: the bid category an existing application was made in
    Handler,   \* concurrent requests
    Poster,    \* concurrent runs of postPending
    MaxQty,    \* bound: share quantities are 1..MaxQty
    MaxOps,    \* bound: rows in BidOperation
    MaxBids    \* bound: bids the exchange accepts

ASSUME RowsAssumption ==
    /\ Existing \subseteq App
    /\ Placed \in Seq(Existing)
    /\ Category \in [Existing -> CategoryText]
ASSUME BoundsAssumption == MaxQty \in Nat \ {0} /\ MaxOps \in Nat /\ MaxBids \in Nat

VARIABLES
    app,      \* the Application table
    ops,      \* the BidOperation table in createdAt order
    bids,     \* the exchange's book: bid n is application number n
    handler,  \* what each request has read so far
    poster    \* what each run of postPending has read so far

vars == <<app, ops, bids, handler, poster>>

-----------------------------------------------------------------------------
(* Rows.  routed stands for the columns rail and memberCredentialId, which *)
(* SubmissionStore.saveResult writes together and nothing else sets; ref   *)
(* for "bidReferenceNumber is not null"; application number 0 is null.     *)

Status == {"none", "draft", "submitted", "mandate_pending", "cancelled"}
Action == {"new", "modify", "cancel"}
Qty    == 1 .. MaxQty

Row == [status : Status, appNo : Nat, ref : BOOLEAN, routed : BOOLEAN,
        qty : Qty, category : CategoryText, replaces : Nat]
NoRow == [status |-> "none", appNo |-> 0, ref |-> FALSE, routed |-> FALSE,
          qty |-> 1, category |-> "", replaces |-> 0]

Op == [app : App, action : Action, qty : Qty,
       state : {"pending", "posted", "failed"}, routed : BOOLEAN]

Bid == [app : App, qty : Qty, live : BOOLEAN]

Request == [kind : {"new", "modify", "cancel", "rebid", "upi"},
            id : App, snap : Row, next : Qty, pend : Nat]
HandlerState == [pc : {"loaded", "ready"}, req : Request]
IdleHandler  == [pc |-> "idle"]

\* A pending row as postPending read it, with its application as it was then.
Letter == [op : Nat \ {0}, app : App, action : Action, qty : Qty, row : Row]
Answer == [ok : BOOLEAN, threw : BOOLEAN, appNo : Nat]
PosterState ==
    [pc : {"posting"}, batch : SUBSET Letter]
        \cup [pc : {"answered"}, batch : SUBSET Letter, cur : Letter, res : Answer]
IdlePoster == [pc |-> "idle"]

TypeOK ==
    /\ app \in [App -> Row]
    /\ ops \in Seq(Op)
    /\ bids \in Seq(Bid)
    /\ handler \in [Handler -> HandlerState \cup {IdleHandler}]
    /\ poster \in [Poster -> PosterState \cup {IdlePoster}]

AtExchange(row) == row.appNo # 0 /\ row.routed

-----------------------------------------------------------------------------
(* At the start the placed applications are as saveResult leaves them and  *)
(* the others as create leaves them.                                       *)

IsPlaced(a) == \E n \in DOMAIN Placed : Placed[n] = a
NumberOf(a) == CHOOSE n \in DOMAIN Placed : Placed[n] = a

\* As saveResult leaves it with a number; without one nothing is routed.
FirstRow(a) ==
    IF IsPlaced(a)
      THEN [status |-> "mandate_pending", appNo |-> NumberOf(a), ref |-> TRUE,
            routed |-> TRUE, qty |-> 1, category |-> Category[a], replaces |-> 0]
      ELSE IF a \in Existing
      THEN [NoRow EXCEPT !.status = "submitted", !.category = Category[a]]
      ELSE NoRow

Init ==
    /\ app = [a \in App |-> FirstRow(a)]
    /\ bids = [n \in DOMAIN Placed |-> [app |-> Placed[n], qty |-> 1, live |-> TRUE]]
    /\ ops = <<>>
    /\ handler = [h \in Handler |-> IdleHandler]
    /\ poster = [p \in Poster |-> IdlePoster]

-----------------------------------------------------------------------------
(* Requests.                                                               *)

Permitted_RebidUnchecked(kind, row, next) ==
    CASE kind = "modify" -> MayReviseTo(row.category, row.qty, next, AtExchange(row))
      [] kind = "cancel" -> MayCancel(row.category, AtExchange(row))
      [] kind = "upi" -> /\ next = row.qty
                         /\ MayChangeUpi(row.status, AtExchange(row)).needsExchange
      [] kind \in {"new", "rebid"} -> next = row.qty

\* What each entry point checks on the row it loaded; a refusal throws and
\* leaves nothing behind, so it is no step at all.
Permitted(kind, row, next) ==
    CASE kind = "modify" -> MayReviseTo(row.category, row.qty, next, AtExchange(row))
      [] kind \in {"cancel", "rebid"} -> MayCancel(row.category, AtExchange(row))
      [] kind = "upi" -> /\ next = row.qty
                         /\ MayChangeUpi(row.status, AtExchange(row)).needsExchange
      [] kind = "new" -> next = row.qty

\* queueNew checks nothing: it is for an application that was just created, so
\* the caller asks once, before anything else was queued for it.
JustCreated(a) ==
    /\ app[a].appNo = 0
    /\ \A i \in DOMAIN ops : ops[i].app # a
    /\ \A h \in Handler : handler[h] # IdleHandler =>
          ~(handler[h].req.kind = "new" /\ handler[h].req.id = a)

\* Only these two look for the pending "new" row, and only for a bid the
\* exchange has not seen.
LooksForNew(kind, row) == kind \in {"modify", "cancel"} /\ ~AtExchange(row)

Load(h, kind, a, next) ==
    /\ handler[h] = IdleHandler
    /\ app[a].status # "none"
    /\ Permitted(kind, app[a], next)
    /\ kind = "new" => JustCreated(a)
    /\ handler' = [handler EXCEPT ![h] =
         [pc |-> IF LooksForNew(kind, app[a]) THEN "loaded" ELSE "ready",
          req |-> [kind |-> kind, id |-> a, snap |-> app[a], next |-> next, pend |-> 0]]]
    /\ UNCHANGED <<app, ops, bids, poster>>

PendingNew(a) ==
    {i \in DOMAIN ops : ops[i].app = a /\ ops[i].action = "new" /\ ops[i].state = "pending"}

FoundNew(a, n) ==
    IF PendingNew(a) = {} THEN n = 0
    ELSE n \in PendingNew(a) /\ \A j \in PendingNew(a) : j <= n

FindPendingNew(h) ==
    /\ handler[h].pc = "loaded"
    /\ \E n \in {0} \cup DOMAIN ops :
         /\ FoundNew(handler[h].req.id, n)
         /\ handler' = [handler EXCEPT ![h].pc = "ready", ![h].req.pend = n]
    /\ UNCHANGED <<app, ops, bids, poster>>

NewOp(a, action, qty, row) ==
    [app |-> a, action |-> action, qty |-> qty, state |-> "pending", routed |-> row.routed]

Finish(h) == handler' = [handler EXCEPT ![h] = IdleHandler]

CommitNew(h) ==
    LET r == handler[h].req
    IN  /\ handler[h].pc = "ready" /\ r.kind = "new"
        /\ Len(ops) < MaxOps
        /\ ops' = Append(ops, NewOp(r.id, "new", r.next, r.snap))
        /\ Finish(h)
        /\ UNCHANGED <<app, bids, poster>>

CommitModify(h) ==
    LET r == handler[h].req
    IN  /\ handler[h].pc = "ready" /\ r.kind = "modify"
        /\ \/ /\ r.pend # 0
              /\ ops' = [ops EXCEPT ![r.pend].qty = r.next]
           \/ /\ r.pend = 0
              /\ Len(ops) < MaxOps
              /\ ops' = Append(ops, NewOp(r.id, "modify", r.next, r.snap))
        /\ app' = [app EXCEPT ![r.id].qty = r.next]
        /\ Finish(h)
        /\ UNCHANGED <<bids, poster>>

CommitCancel(h) ==
    LET r == handler[h].req
    IN  /\ handler[h].pc = "ready" /\ r.kind = "cancel"
        /\ \/ /\ r.pend # 0
              /\ ops' = [ops EXCEPT ![r.pend].state = "failed"]
           \/ /\ r.pend = 0
              /\ Len(ops) < MaxOps
              /\ ops' = Append(ops, NewOp(r.id, "cancel", r.snap.qty, r.snap))
        /\ app' = [app EXCEPT ![r.id].status = "cancelled"]
        /\ Finish(h)
        /\ UNCHANGED <<bids, poster>>

\* The row a rebid creates: the row as it was LOADED, with the exchange's
\* identifiers taken out.
FreshRow_KeepsIdentifiers(row, qty, cancelOp) ==
    [row EXCEPT !.status = "draft", !.qty = qty, !.replaces = cancelOp]
FreshRow_UnknownStatus(row, qty, cancelOp) ==
    [row EXCEPT !.status = "queued", !.appNo = 0, !.ref = FALSE,
                !.qty = qty, !.replaces = cancelOp]
FreshRow(row, qty, cancelOp) ==
    [row EXCEPT !.status = "draft", !.appNo = 0, !.ref = FALSE,
                !.qty = qty, !.replaces = cancelOp]

\* The old application and its replacement, in one transaction.
CommitRebid(h) ==
    LET r == handler[h].req
        cancelOp == NewOp(r.id, "cancel", r.snap.qty, r.snap)
    IN  /\ handler[h].pc = "ready" /\ r.kind = "rebid"
        /\ Len(ops) + 1 < MaxOps
        /\ \E fresh \in App :
             /\ app[fresh].status = "none"
             /\ app' = [app EXCEPT
                  ![r.id].status = "cancelled",
                  ![fresh] = FreshRow(r.snap, r.next, Len(ops) + 1)]
             /\ ops' = ops \o <<cancelOp, NewOp(fresh, "new", r.next, r.snap)>>
        /\ Finish(h)
        /\ UNCHANGED <<bids, poster>>

CommitUpi(h) ==
    LET r == handler[h].req
    IN  /\ handler[h].pc = "ready" /\ r.kind = "upi"
        /\ Len(ops) < MaxOps
        /\ ops' = Append(ops, NewOp(r.id, "modify", r.next, r.snap))
        /\ Finish(h)
        /\ UNCHANGED <<app, bids, poster>>

Commit(h) ==
    CommitNew(h) \/ CommitModify(h) \/ CommitCancel(h) \/ CommitRebid(h) \/ CommitUpi(h)

-----------------------------------------------------------------------------
(* postPending.                                                            *)

Due == {i \in DOMAIN ops : ops[i].state = "pending" /\ ops[i].routed}

LetterFor(i) ==
    [op |-> i, app |-> ops[i].app, action |-> ops[i].action, qty |-> ops[i].qty,
     row |-> app[ops[i].app]]

\* The code takes the first 50; the bounds stay far below.
LoadBatch(p) ==
    /\ poster[p] = IdlePoster
    /\ Due # {}
    /\ poster' = [poster EXCEPT ![p] =
         [pc |-> "posting", batch |-> {LetterFor(i) : i \in Due}]]
    /\ UNCHANGED <<app, ops, bids, handler>>

First_NewestFirst(batch, l) == l \in batch /\ \A m \in batch : m.op <= l.op
First(batch, l) == l \in batch /\ \A m \in batch : l.op <= m.op

\* buildBidSubmission refuses a modify or a cancel without the exchange's own
\* reference and number.
Buildable(l) == l.action # "new" => l.row.ref /\ l.row.appNo # 0

\* The exchange takes the request.  A new bid gets the next number; the others
\* change the bid they name, while it is live.
Takes(l) ==
    /\ Buildable(l)
    /\ \/ /\ l.action = "new"
          /\ Len(bids) < MaxBids
          /\ bids' = Append(bids, [app |-> l.app, qty |-> l.qty, live |-> TRUE])
       \/ /\ l.action = "modify"
          /\ bids[l.row.appNo].live
          /\ bids' = [bids EXCEPT ![l.row.appNo].qty = l.qty]
       \/ /\ l.action = "cancel"
          /\ bids[l.row.appNo].live
          /\ bids' = [bids EXCEPT ![l.row.appNo].live = FALSE]

\* What the answer to an accepted request may look like: nothing in it obliges
\* the exchange to repeat the application number.
Acceptance(l) ==
    {[ok |-> TRUE, threw |-> FALSE, appNo |-> n] :
        n \in IF l.action = "new" THEN {0, Len(bids) + 1} ELSE {0}}
Threw == [ok |-> FALSE, threw |-> TRUE, appNo |-> 0]
Refusal == [ok |-> FALSE, threw |-> FALSE, appNo |-> 0]

Answered(p, l, res) ==
    poster' = [poster EXCEPT ![p] =
        [pc |-> "answered", batch |-> poster[p].batch \ {l}, cur |-> l, res |-> res]]

\* The request reached the exchange, which accepted it; the answer may be lost
\* (a timeout), and then the call throws.
CallAccepted(p) ==
    /\ poster[p].pc = "posting"
    /\ \E l \in poster[p].batch :
         /\ First(poster[p].batch, l)
         /\ Takes(l)
         /\ \E res \in Acceptance(l) \cup {Threw} : Answered(p, l, res)
    /\ UNCHANGED <<app, ops, handler>>

CallRefused(p) ==
    /\ poster[p].pc = "posting"
    /\ \E l \in poster[p].batch :
         First(poster[p].batch, l) /\ Buildable(l) /\ Answered(p, l, Refusal)
    /\ UNCHANGED <<app, ops, bids, handler>>

\* Nothing reached the exchange: the payload was refused here, the demat no
\* longer resolves, the member could not log in, or the network was down.
CallThrew(p) ==
    /\ poster[p].pc = "posting"
    /\ \E l \in poster[p].batch : First(poster[p].batch, l) /\ Answered(p, l, Threw)
    /\ UNCHANGED <<app, ops, bids, handler>>

RestOf(p) ==
    poster' = [poster EXCEPT ![p] =
        IF @.batch = {} THEN IdlePoster ELSE [pc |-> "posting", batch |-> @.batch]]

\* The number an accepted "new" leaves on the application: res ?? app.
NumberAfter(l, res) == IF res.appNo # 0 THEN res.appNo ELSE l.row.appNo

SaveAnswer(p) ==
    LET l == poster[p].cur  res == poster[p].res
    IN  /\ poster[p].pc = "answered"
        /\ ops' = [ops EXCEPT ![l.op].state = IF res.ok THEN "posted" ELSE "failed"]
        /\ app' = IF res.ok /\ l.action = "new"
                  THEN [app EXCEPT ![l.app].status = "submitted",
                                   ![l.app].appNo = NumberAfter(l, res),
                                   ![l.app].ref = FALSE]
                  ELSE app
        /\ RestOf(p)
        /\ UNCHANGED <<bids, handler>>

-----------------------------------------------------------------------------
\* The process dies: what was read is lost, what was committed stays.
Crash ==
    /\ handler' = [h \in Handler |-> IdleHandler]
    /\ poster' = [p \in Poster |-> IdlePoster]
    /\ UNCHANGED <<app, ops, bids>>

LoadSome(h) == \E kind \in {"new", "modify", "cancel", "rebid", "upi"}, a \in App, q \in Qty :
                  Load(h, kind, a, q)

Post(p) == LoadBatch(p) \/ CallAccepted(p) \/ CallRefused(p) \/ CallThrew(p) \/ SaveAnswer(p)

Next ==
    \/ \E h \in Handler : LoadSome(h) \/ FindPendingNew(h) \/ Commit(h)
    \/ \E p \in Poster : Post(p)
    \/ Crash

Spec == Init /\ [][Next]_vars

-----------------------------------------------------------------------------
(* Properties that hold for any number of requests and posters, crashes    *)
(* and lost answers included.                                              *)

\* An application number in the table is the number of a bid the exchange took
\* for that very application, however often the bid was rebid (the fresh row
\* is copied from the old one), reposted or crashed on.
NumbersAreOwn ==
    \A a \in App : app[a].appNo # 0 =>
        app[a].appNo \in DOMAIN bids /\ bids[app[a].appNo].app = a

\* HNI and QIB bids: the categories the ICDR rule restricts.
Institutional(a) == ~BidRights(app[a].category)

\* SEBI's rule, all the way to the exchange: an HNI or QIB bid the exchange
\* holds is never withdrawn, whichever requests (cancel, rebid, a rebid of a
\* rebid) were checked against whatever copy of the row (mayCancel is asked
\* long before the D is posted).
InstitutionalNeverWithdrawn ==
    \A n \in DOMAIN bids : Institutional(bids[n].app) => bids[n].live

\* The exchange's book changes only on behalf of the application it belongs
\* to: a modify or cancel never reaches another applicant's bid, although the
\* number it names was read with the batch and may be old.
OnlyOwnBidTouched ==
    [][\A n \in DOMAIN bids : bids'[n] # bids[n] =>
          \E p \in Poster : poster'[p].pc = "answered" /\ poster'[p].cur.app = bids[n].app]_bids

(* The inductive invariant behind them: what every copy of a row that a    *)
(* request or a poster holds still has in common with the table.           *)

Exists(a) == app[a].status # "none"

\* An institutional row with a route is at the exchange, so mayCancel refuses it.
InstitutionalRouting ==
    \A a \in App : app[a].routed /\ Institutional(a) => app[a].appNo # 0

\* Operations and bids are of applications there are, and an operation has the
\* route of its application.
RowsExist ==
    /\ \A i \in DOMAIN ops : /\ Exists(ops[i].app)
                              /\ ops[i].routed = app[ops[i].app].routed
    /\ \A n \in DOMAIN bids : Exists(bids[n].app)

\* No routed "cancel" row is for an institutional bid.
NoInstitutionalCancel ==
    \A i \in DOMAIN ops :
        ops[i].action = "cancel" /\ ops[i].routed => ~Institutional(ops[i].app)

SameRow(row, a) ==
    /\ Exists(a)
    /\ row.category = app[a].category /\ row.routed = app[a].routed

RequestAgrees(r) ==
    /\ SameRow(r.snap, r.id)
    /\ r.kind \in {"cancel", "rebid"} /\ r.snap.routed => ~Institutional(r.id)

RequestsAgree ==
    \A h \in Handler : handler[h] # IdleHandler => RequestAgrees(handler[h].req)

LetterAgrees(l) ==
    /\ l.op \in DOMAIN ops /\ ops[l.op].app = l.app
    /\ SameRow(l.row, l.app) /\ l.row.routed
    /\ l.row.appNo # 0 => l.row.appNo \in DOMAIN bids /\ bids[l.row.appNo].app = l.app
    /\ Institutional(l.app) => l.row.appNo # 0 /\ l.action # "cancel"

Letters(p) ==
    IF poster[p] = IdlePoster THEN {}
    ELSE IF poster[p].pc = "posting" THEN poster[p].batch
    ELSE poster[p].batch \cup {poster[p].cur}

PostersAgree == \A p \in Poster : \A l \in Letters(p) : LetterAgrees(l)

\* The number in an answer is the number of the bid the exchange just took.
AnswersAreOwn ==
    \A p \in Poster :
        poster[p].pc = "answered" /\ poster[p].res.appNo # 0 =>
            /\ poster[p].res.appNo \in DOMAIN bids
            /\ bids[poster[p].res.appNo].app = poster[p].cur.app

IInv ==
    /\ TypeOK /\ NumbersAreOwn /\ InstitutionalNeverWithdrawn
    /\ InstitutionalRouting /\ RowsExist /\ NoInstitutionalCancel
    /\ RequestsAgree /\ PostersAgree /\ AnswersAreOwn

(* Seen from the exchange, the ledger is an ExchangeBook.                  *)

ClassOf == [a \in App |-> IF Exists(a) THEN app[a].category ELSE "not made"]
Book == INSTANCE ExchangeBook WITH class <- ClassOf, book <- bids

\* The whole machinery - copies of rows, concurrent requests, overlapping
\* posters, lost answers, crashes - amounts to placing, revising and, for the
\* categories that may, withdrawing bids, one at a time.
ImplementsBook == Book!BookSpec

(* Properties of behaviours in which no two requests about one bid overlap *)
(* and postPending does not overlap itself; requests about other bids, the *)
(* poster, crashes and lost answers run beside each of them.               *)

Apart ==
    /\ \A g, h \in Handler :
          /\ handler[g] # IdleHandler /\ handler[h] # IdleHandler
          /\ handler[g].req.id = handler[h].req.id
          => g = h
    /\ \A p, q \in Poster : poster[p] # IdlePoster /\ poster[q] # IdlePoster => p = q

ApartSpec == Init /\ [][Next /\ Apart']_vars

\* An HNI or QIB bid at the exchange is only ever revised upward.
InstitutionalOnlyRaised ==
    [][\A n \in DOMAIN bids : Institutional(bids[n].app) => bids'[n].qty >= bids[n].qty]_bids

Quiet == /\ \A h \in Handler : handler[h] = IdleHandler
         /\ \A p \in Poster : poster[p] = IdlePoster

\* Once everything queued for an application was posted, the exchange holds
\* what the database says: the quantity, and no live bid for a cancelled row.
DatabaseDescribesExchange ==
    Quiet => \A n \in DOMAIN Placed :
        LET a == Placed[n]
        IN  (\A i \in DOMAIN ops : ops[i].app = a => ops[i].state = "posted" /\ ops[i].action # "new")
            => /\ bids[n].live => bids[n].qty = app[a].qty
               /\ bids[n].live <=> app[a].status # "cancelled"

=============================================================================
