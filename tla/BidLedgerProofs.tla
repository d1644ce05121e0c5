-------------------------- MODULE BidLedgerProofs ---------------------------
(***************************************************************************)
(* IInv of BidLedger is inductive, whatever the applications, the number   *)
(* of concurrent requests and posters, and the bounds.  The argument has   *)
(* two halves.  Every step lets the three tables only GROW: a row, once    *)
(* there, keeps its category and its route; an operation and a bid keep    *)
(* the application they belong to.  So whatever a request or a poster read *)
(* earlier still agrees with the tables when it is used.                   *)
(***************************************************************************)
EXTENDS BidLedger, SequenceTheorems, TLAPS

\* What no step takes back.
RowsGrow ==
    \A a \in App : Exists(a) => /\ Exists(a)'
                               /\ app'[a].category = app[a].category
                               /\ app'[a].routed = app[a].routed
OpsGrow ==
    \A i \in DOMAIN ops : /\ i \in DOMAIN ops'
                         /\ ops'[i].app = ops[i].app
                         /\ ops'[i].action = ops[i].action
                         /\ ops'[i].routed = ops[i].routed
BidsGrow ==
    \A n \in DOMAIN bids : n \in DOMAIN bids' /\ bids'[n].app = bids[n].app

Grows == RowsGrow /\ OpsGrow /\ BidsGrow

-----------------------------------------------------------------------------
(* Lemmas on the sequences the tables are.                                 *)

\* Updating one entry of a sequence, inside or outside its domain, leaves a
\* sequence with the same domain, changed in that entry only.
LEMMA UpdateSeq ==
    ASSUME NEW S, NEW s \in Seq(S), NEW i, NEW e, i \in DOMAIN s => e \in S
    PROVE  /\ [s EXCEPT ![i] = e] \in Seq(S)
           /\ DOMAIN [s EXCEPT ![i] = e] = DOMAIN s
           /\ \A j \in DOMAIN s : [s EXCEPT ![i] = e][j] = IF j = i THEN e ELSE s[j]
<1>1. DOMAIN s = 1 .. Len(s) /\ Len(s) \in Nat /\ s \in [1 .. Len(s) -> S]
    BY LenProperties
<1>2. CASE i \in DOMAIN s
    BY <1>1, <1>2, ExceptSeq
<1>3. CASE i \notin DOMAIN s
  <2>1. [s EXCEPT ![i] = e] = s
    BY <1>1, <1>3
  <2>2. QED
    BY <2>1, <1>3
<1>4. QED
    BY <1>2, <1>3

\* Appending one entry to a sequence.
LEMMA AppendSeq ==
    ASSUME NEW S, NEW s \in Seq(S), NEW e \in S
    PROVE  /\ Append(s, e) \in Seq(S)
           /\ DOMAIN s \subseteq DOMAIN Append(s, e)
           /\ DOMAIN Append(s, e) = DOMAIN s \cup {Len(s) + 1}
           /\ Len(s) + 1 \notin DOMAIN s
           /\ \A j \in DOMAIN s : Append(s, e)[j] = s[j]
           /\ Append(s, e)[Len(s) + 1] = e
    BY LenProperties

\* Appending two.
LEMMA AppendTwo ==
    ASSUME NEW S, NEW s \in Seq(S), NEW e \in S, NEW f \in S
    PROVE  /\ s \o <<e, f>> \in Seq(S)
           /\ DOMAIN (s \o <<e, f>>) = DOMAIN s \cup {Len(s) + 1, Len(s) + 2}
           /\ Len(s) + 1 \notin DOMAIN s /\ Len(s) + 2 \notin DOMAIN s
           /\ \A j \in DOMAIN s : (s \o <<e, f>>)[j] = s[j]
           /\ (s \o <<e, f>>)[Len(s) + 1] = e
           /\ (s \o <<e, f>>)[Len(s) + 2] = f
<1>1. /\ DOMAIN s = 1 .. Len(s) /\ Len(s) \in Nat
      /\ <<e, f>> \in Seq(S) /\ Len(<<e, f>>) = 2
      /\ <<e, f>>[1] = e /\ <<e, f>>[2] = f
    BY LenProperties
<1>2. /\ s \o <<e, f>> \in Seq(S)
      /\ Len(s \o <<e, f>>) = Len(s) + 2
      /\ \A i \in 1 .. Len(s) + 2 : (s \o <<e, f>>)[i] =
            IF i <= Len(s) THEN s[i] ELSE <<e, f>>[i - Len(s)]
    BY <1>1, ConcatProperties
<1>3. DOMAIN (s \o <<e, f>>) = 1 .. Len(s) + 2
    BY <1>2, LenProperties
<1>4. QED
    BY <1>1, <1>2, <1>3

-----------------------------------------------------------------------------
(* Types of what the actions compute.                                      *)

\* The null row is of its own kind; a made row has a status and a quantity.
LEMMA RowTypes ==
    /\ NoRow \in Row
    /\ 1 \in Qty
    BY BoundsAssumption DEF NoRow, Row, Status, Qty, CategoryText

\* The row an application starts with is a row of the table.
LEMMA FirstRowType == ASSUME NEW a \in App PROVE FirstRow(a) \in Row
<1>1. CASE IsPlaced(a)
  <2>1. NumberOf(a) \in DOMAIN Placed /\ Placed[NumberOf(a)] = a
    BY <1>1 DEF IsPlaced, NumberOf
  <2>2. NumberOf(a) \in Nat /\ a \in Existing
    BY <2>1, RowsAssumption, LenProperties, ElementOfSeq
  <2>3. QED
    BY <1>1, <2>2, RowTypes, RowsAssumption DEF FirstRow, Row, Status
<1>2. CASE ~IsPlaced(a)
    BY <1>2, RowTypes, RowsAssumption DEF FirstRow, Row, NoRow, Status
<1>3. QED
    BY <1>1, <1>2

\* opData makes a pending operation.
LEMMA NewOpType ==
    ASSUME NEW a \in App, NEW action \in Action, NEW q \in Qty, NEW row \in Row
    PROVE  NewOp(a, action, q, row) \in Op
    BY DEF NewOp, Op, Row

\* The row a rebid creates is a row of the table.
LEMMA FreshRowType ==
    ASSUME NEW row \in Row, NEW q \in Qty, NEW n \in Nat
    PROVE  FreshRow(row, q, n) \in Row
    BY DEF FreshRow, Row, Status

\* A copy loaded by postPending is one operation beside one row.
LEMMA LetterType ==
    ASSUME TypeOK, NEW i \in DOMAIN ops
    PROVE  LetterFor(i) \in Letter
<1>1. i \in Nat \ {0} /\ ops[i] \in Op
    BY LenProperties, ElementOfSeq DEF TypeOK
<1>2. QED
    BY <1>1 DEF LetterFor, Letter, Op, TypeOK

-----------------------------------------------------------------------------
THEOREM InitIInv == Init => IInv
<1> SUFFICES ASSUME Init PROVE IInv
    OBVIOUS
<1>1. \A n \in DOMAIN Placed : Placed[n] \in App /\ n \in Nat
    BY RowsAssumption, LenProperties, ElementOfSeq
<1>2. bids \in Seq(Bid)
  <2>1. Len(Placed) \in Nat /\ DOMAIN Placed = 1 .. Len(Placed)
    BY RowsAssumption, LenProperties
  <2>2. \A n \in 1 .. Len(Placed) : [app |-> Placed[n], qty |-> 1, live |-> TRUE] \in Bid
    BY <1>1, <2>1, RowTypes DEF Bid
  <2>3. QED
    BY <2>1, <2>2 DEF Init
<1>3. TypeOK
    BY <1>2, FirstRowType, EmptySeq DEF Init, TypeOK
<1>4. \A a \in App : IsPlaced(a) => /\ NumberOf(a) \in DOMAIN Placed
                                    /\ Placed[NumberOf(a)] = a
                                    /\ NumberOf(a) # 0
  <2>1. \A n \in DOMAIN Placed : n # 0
    BY RowsAssumption, LenProperties
  <2>2. QED
    BY <2>1 DEF IsPlaced, NumberOf
<1>5. NumbersAreOwn
    BY <1>4 DEF Init, NumbersAreOwn, FirstRow, NoRow
<1>6. InstitutionalNeverWithdrawn
    BY DEF Init, InstitutionalNeverWithdrawn
<1>7. InstitutionalRouting
    BY <1>4 DEF Init, InstitutionalRouting, FirstRow, NoRow
<1>8. RowsExist
  <2>1. \A n \in DOMAIN bids : bids[n].app \in App /\ IsPlaced(bids[n].app)
    BY <1>1 DEF Init, IsPlaced
  <2>2. \A a \in App : IsPlaced(a) => app[a].status = "mandate_pending"
    BY DEF Init, FirstRow
  <2>3. QED
    BY <2>1, <2>2 DEF Init, RowsExist, Exists
<1>9. NoInstitutionalCancel /\ RequestsAgree /\ PostersAgree
    BY DEF Init, NoInstitutionalCancel, RequestsAgree, RequestAgrees, PostersAgree, Letters
<1>10. AnswersAreOwn
    BY DEF Init, AnswersAreOwn, IdlePoster
<1>11. QED
    BY <1>3, <1>5, <1>6, <1>7, <1>8, <1>9, <1>10 DEF IInv

-----------------------------------------------------------------------------
(* What was read stays true while the tables grow.                         *)

\* A row never changes category, so an institutional one stays so.
LEMMA InstitutionalStays ==
    ASSUME Grows, NEW a \in App, Exists(a)
    PROVE  Institutional(a)' <=> Institutional(a)
    BY DEF Grows, RowsGrow, Institutional

\* What a request has read stays true of the tables as they grow.
LEMMA RequestStays ==
    ASSUME Grows, NEW r \in Request, RequestAgrees(r)
    PROVE  RequestAgrees(r)'
    BY InstitutionalStays DEF Grows, RowsGrow, Request, RequestAgrees, SameRow

\* What a poster has read stays true of the tables as they grow.
LEMMA LetterStays ==
    ASSUME Grows, NEW l \in Letter, LetterAgrees(l)
    PROVE  LetterAgrees(l)'
    BY InstitutionalStays DEF Grows, RowsGrow, OpsGrow, BidsGrow, Letter, LetterAgrees, SameRow

-----------------------------------------------------------------------------
(* How a table is written: types kept, and it grows.                       *)

\* A table that does not change keeps its rows.
LEMMA RowsKept ==
    ASSUME UNCHANGED app
    PROVE  RowsGrow
    BY DEF RowsGrow, Exists

\* An operation table that does not change keeps its operations.
LEMMA OpsKept ==
    ASSUME UNCHANGED ops
    PROVE  OpsGrow
    BY DEF OpsGrow

\* The exchange's book, unchanged, keeps its bids.
LEMMA BidsKept ==
    ASSUME UNCHANGED bids
    PROVE  BidsGrow
    BY DEF BidsGrow

\* create adds one operation and keeps the others.
LEMMA OpAppended ==
    ASSUME TypeOK, NEW op \in Op, ops' = Append(ops, op)
    PROVE  ops' \in Seq(Op) /\ OpsGrow
    BY AppendSeq DEF TypeOK, OpsGrow

\* update changes one operation, never its application.
LEMMA OpUpdated ==
    ASSUME TypeOK, NEW n, NEW e, ops' = [ops EXCEPT ![n] = e],
           n \in DOMAIN ops => /\ e \in Op
                               /\ e.app = ops[n].app
                               /\ e.action = ops[n].action
                               /\ e.routed = ops[n].routed
    PROVE  ops' \in Seq(Op) /\ DOMAIN ops' = DOMAIN ops /\ OpsGrow
<1>1. ops \in Seq(Op)
    BY DEF TypeOK
<1>2. /\ ops' \in Seq(Op)
      /\ DOMAIN ops' = DOMAIN ops
      /\ \A j \in DOMAIN ops : ops'[j] = IF j = n THEN e ELSE ops[j]
    BY <1>1, UpdateSeq
<1>3. QED
    BY <1>2 DEF OpsGrow

\* A modify or cancel changes one bid, never its application.
LEMMA BidUpdated ==
    ASSUME TypeOK, NEW n, NEW e, bids' = [bids EXCEPT ![n] = e],
           n \in DOMAIN bids => e \in Bid /\ e.app = bids[n].app
    PROVE  bids' \in Seq(Bid) /\ DOMAIN bids' = DOMAIN bids /\ BidsGrow
<1>1. bids \in Seq(Bid)
    BY DEF TypeOK
<1>2. /\ bids' \in Seq(Bid)
      /\ DOMAIN bids' = DOMAIN bids
      /\ \A j \in DOMAIN bids : bids'[j] = IF j = n THEN e ELSE bids[j]
    BY <1>1, UpdateSeq
<1>3. QED
    BY <1>2 DEF BidsGrow

\* Each entry of the operation table is an operation.
LEMMA OpTyped == ASSUME TypeOK, NEW i \in DOMAIN ops PROVE ops[i] \in Op
    BY LenProperties, ElementOfSeq DEF TypeOK

\* Each entry of the exchange's book is a bid.
LEMMA BidTyped == ASSUME TypeOK, NEW n \in DOMAIN bids PROVE bids[n] \in Bid
    BY LenProperties, ElementOfSeq DEF TypeOK

\* What a request holds has its type.
LEMMA RequestTyped ==
    ASSUME TypeOK, NEW h \in Handler, handler[h].pc \in {"loaded", "ready"}
    PROVE  handler[h] \in HandlerState /\ handler[h].req \in Request
    BY DEF TypeOK, IdleHandler, HandlerState

-----------------------------------------------------------------------------
(* One lemma per action: the types it writes, and that the tables grow.    *)

\* loadApp touches no table and leaves a typed request.
LEMMA LoadStep ==
    ASSUME TypeOK, NEW h \in Handler, LoadSome(h)
    PROVE  TypeOK' /\ Grows
<1>1. PICK kind \in {"new", "modify", "cancel", "rebid", "upi"}, a \in App, q \in Qty :
        Load(h, kind, a, q)
    BY DEF LoadSome
<1>2. Grows
    BY <1>1, RowsKept, OpsKept, BidsKept DEF Load, Grows
<1>3. [kind |-> kind, id |-> a, snap |-> app[a], next |-> q, pend |-> 0] \in Request
    BY <1>1 DEF Request, TypeOK
<1>4. TypeOK'
    BY <1>1, <1>3 DEF Load, TypeOK, HandlerState
<1>5. QED
    BY <1>2, <1>4

\* The look-up of a pending "new" touches no table.
LEMMA FindStep ==
    ASSUME TypeOK, NEW h \in Handler, FindPendingNew(h)
    PROVE  TypeOK' /\ Grows
<1>1. Grows
    BY RowsKept, OpsKept, BidsKept DEF FindPendingNew, Grows
<1>2. handler[h] \in HandlerState
    BY DEF FindPendingNew, TypeOK, IdleHandler
<1>3. PICK n \in {0} \cup DOMAIN ops :
        handler' = [handler EXCEPT ![h].pc = "ready", ![h].req.pend = n]
    BY DEF FindPendingNew
<1>4. n \in Nat
    BY LenProperties DEF TypeOK
<1>5. TypeOK'
    BY <1>2, <1>3, <1>4 DEF FindPendingNew, TypeOK, HandlerState, Request
<1>6. QED
    BY <1>1, <1>5

\* queueNew adds its operation and keeps everything typed.
LEMMA CommitNewStep ==
    ASSUME TypeOK, NEW h \in Handler, CommitNew(h)
    PROVE  TypeOK' /\ Grows
<1> DEFINE r == handler[h].req
           op == NewOp(r.id, "new", r.next, r.snap)
<1>1. op \in Op
    BY RequestTyped, NewOpType DEF CommitNew, Request, Action
<1>2. ops' = Append(ops, op) /\ UNCHANGED <<app, bids, poster>>
    BY DEF CommitNew
<1>3. ops' \in Seq(Op) /\ Grows
    BY <1>1, <1>2, OpAppended, RowsKept, BidsKept DEF Grows
<1>4. TypeOK'
    BY <1>2, <1>3 DEF CommitNew, Finish, TypeOK
<1>5. QED
    BY <1>3, <1>4

\* queueModify amends or adds one operation and one row.
LEMMA CommitModifyStep ==
    ASSUME TypeOK, NEW h \in Handler, CommitModify(h)
    PROVE  TypeOK' /\ Grows
<1> DEFINE r == handler[h].req
           op == NewOp(r.id, "modify", r.next, r.snap)
           e  == [ops[r.pend] EXCEPT !.qty = r.next]
<1>1. r \in Request
    BY RequestTyped DEF CommitModify
<1>2. op \in Op
    BY <1>1, NewOpType DEF Request, Action
<1>3. app' = [app EXCEPT ![r.id].qty = r.next] /\ UNCHANGED <<bids, poster>>
    BY DEF CommitModify
<1>4. app' \in [App -> Row] /\ RowsGrow
    BY <1>1, <1>3 DEF TypeOK, Row, Request, RowsGrow, Exists
<1>5. r.pend \in DOMAIN ops => /\ e \in Op
                               /\ e.app = ops[r.pend].app
                               /\ e.action = ops[r.pend].action
                               /\ e.routed = ops[r.pend].routed
    BY <1>1, OpTyped DEF Op, Request
<1>6. ops' = [ops EXCEPT ![r.pend] = e] \/ ops' = Append(ops, op)
    BY DEF CommitModify
<1> HIDE DEF r, op, e
<1>7. ops' \in Seq(Op) /\ OpsGrow
    BY <1>2, <1>5, <1>6, OpAppended, OpUpdated
<1>8. TypeOK'
    BY <1>3, <1>4, <1>7 DEF CommitModify, Finish, TypeOK
<1>9. QED
    BY <1>3, <1>4, <1>7, <1>8, BidsKept DEF Grows

\* queueCancel cancels or adds one operation and one row.
LEMMA CommitCancelStep ==
    ASSUME TypeOK, NEW h \in Handler, CommitCancel(h)
    PROVE  TypeOK' /\ Grows
<1> DEFINE r == handler[h].req
           op == NewOp(r.id, "cancel", r.snap.qty, r.snap)
           e  == [ops[r.pend] EXCEPT !.state = "failed"]
<1>1. r \in Request
    BY RequestTyped DEF CommitCancel
<1>2. op \in Op
    BY <1>1, NewOpType DEF Request, Action, Row
<1>3. app' = [app EXCEPT ![r.id].status = "cancelled"] /\ UNCHANGED <<bids, poster>>
    BY DEF CommitCancel
<1>4. app' \in [App -> Row] /\ RowsGrow
    BY <1>1, <1>3 DEF TypeOK, Row, Request, RowsGrow, Exists, Status
<1>5. r.pend \in DOMAIN ops => /\ e \in Op
                               /\ e.app = ops[r.pend].app
                               /\ e.action = ops[r.pend].action
                               /\ e.routed = ops[r.pend].routed
    BY <1>1, OpTyped DEF Op
<1>6. ops' = [ops EXCEPT ![r.pend] = e] \/ ops' = Append(ops, op)
    BY DEF CommitCancel
<1> HIDE DEF r, op, e
<1>7. ops' \in Seq(Op) /\ OpsGrow
    BY <1>2, <1>5, <1>6, OpAppended, OpUpdated
<1>8. TypeOK'
    BY <1>3, <1>4, <1>7 DEF CommitCancel, Finish, TypeOK
<1>9. QED
    BY <1>3, <1>4, <1>7, <1>8, BidsKept DEF Grows

\* queueRebid makes one row and its operations.
LEMMA CommitRebidStep ==
    ASSUME TypeOK, NEW h \in Handler, CommitRebid(h)
    PROVE  TypeOK' /\ Grows
<1> DEFINE r == handler[h].req
           cancelOp == NewOp(r.id, "cancel", r.snap.qty, r.snap)
<1>1. r \in Request
    BY RequestTyped DEF CommitRebid
<1>2. PICK fresh \in App :
        /\ app[fresh].status = "none"
        /\ app' = [app EXCEPT ![r.id].status = "cancelled",
                              ![fresh] = FreshRow(r.snap, r.next, Len(ops) + 1)]
        /\ ops' = ops \o <<cancelOp, NewOp(fresh, "new", r.next, r.snap)>>
    BY DEF CommitRebid
<1> DEFINE newOp == NewOp(fresh, "new", r.next, r.snap)
<1>3. cancelOp \in Op /\ newOp \in Op
    BY <1>1, NewOpType DEF Request, Action, Row
<1>4. FreshRow(r.snap, r.next, Len(ops) + 1) \in Row
    BY <1>1, FreshRowType, LenProperties DEF TypeOK, Request
<1>5. app' \in [App -> Row] /\ RowsGrow
  <2> DEFINE a == r.id
             old == [app[a] EXCEPT !.status = "cancelled"]
             new == FreshRow(r.snap, r.next, Len(ops) + 1)
  <2>1. a \in App /\ app \in [App -> Row] /\ app[a] \in Row
    BY <1>1 DEF TypeOK, Request
  <2>2. /\ old \in Row /\ old.status # "none"
        /\ old.category = app[a].category /\ old.routed = app[a].routed
    BY <2>1 DEF Row, Status
  <2>3. app' = [app EXCEPT ![a] = old, ![fresh] = new] /\ new \in Row
    BY <1>2, <1>4, <2>1
  <2>4. ~Exists(fresh)
    BY <1>2 DEF Exists
  <2> HIDE DEF a, old, new
  <2>5. app' \in [App -> Row]
    BY <2>1, <2>2, <2>3
  <2>6. RowsGrow
    BY <2>1, <2>2, <2>3, <2>4 DEF RowsGrow, Exists
  <2>7. QED
    BY <2>5, <2>6
<1>6. ops' \in Seq(Op) /\ OpsGrow
  <2>1. ops \in Seq(Op)
    BY DEF TypeOK
  <2> HIDE DEF cancelOp, newOp
  <2>2. ops' = ops \o <<cancelOp, newOp>>
    BY <1>2 DEF newOp
  <2>3. QED
    BY <2>1, <2>2, <1>3, AppendTwo DEF OpsGrow
<1>7. TypeOK'
    BY <1>5, <1>6 DEF CommitRebid, Finish, TypeOK
<1>8. QED
    BY <1>5, <1>6, <1>7, BidsKept DEF Grows, CommitRebid

\* queueUpiChange adds at most one operation.
LEMMA CommitUpiStep ==
    ASSUME TypeOK, NEW h \in Handler, CommitUpi(h)
    PROVE  TypeOK' /\ Grows
<1> DEFINE r == handler[h].req
           op == NewOp(r.id, "modify", r.next, r.snap)
<1>1. op \in Op
    BY RequestTyped, NewOpType DEF CommitUpi, Request, Action
<1>2. ops' = Append(ops, op) /\ UNCHANGED <<app, bids, poster>>
    BY DEF CommitUpi
<1>3. ops' \in Seq(Op) /\ Grows
    BY <1>1, <1>2, OpAppended, RowsKept, BidsKept DEF Grows
<1>4. TypeOK'
    BY <1>2, <1>3 DEF CommitUpi, Finish, TypeOK
<1>5. QED
    BY <1>3, <1>4

\* postPending copies the due operations and touches no table.
LEMMA LoadBatchStep ==
    ASSUME TypeOK, NEW p \in Poster, LoadBatch(p)
    PROVE  TypeOK' /\ Grows
<1>1. Grows
    BY RowsKept, OpsKept, BidsKept DEF LoadBatch, Grows
<1>2. {LetterFor(i) : i \in Due} \in SUBSET Letter
    BY LetterType DEF Due
<1>3. TypeOK'
    BY <1>2 DEF LoadBatch, TypeOK, PosterState
<1>4. QED
    BY <1>1, <1>3

\* What an answer leaves in the poster, whichever way the call ended.
LEMMA AnsweredTyped ==
    ASSUME TypeOK, NEW p \in Poster, poster[p].pc = "posting",
           NEW l \in poster[p].batch, NEW res \in Answer, Answered(p, l, res)
    PROVE  l \in Letter /\ poster' \in [Poster -> PosterState \cup {IdlePoster}]
<1>1. poster[p].batch \in SUBSET Letter
    BY DEF TypeOK, PosterState, IdlePoster
<1>2. QED
    BY <1>1 DEF Answered, TypeOK, PosterState

\* An accepted call adds or changes one bid at the exchange.
LEMMA CallAcceptedStep ==
    ASSUME TypeOK, NEW p \in Poster, CallAccepted(p)
    PROVE  TypeOK' /\ Grows
<1>1. PICK l \in poster[p].batch :
        /\ Takes(l)
        /\ \E res \in Acceptance(l) \cup {Threw} : Answered(p, l, res)
    BY DEF CallAccepted
<1>2. PICK res \in Acceptance(l) \cup {Threw} : Answered(p, l, res)
    BY <1>1
<1>3. res \in Answer
  <2>1. 0 \in Nat /\ Len(bids) + 1 \in Nat
    BY LenProperties DEF TypeOK
  <2>2. CASE res = Threw
    BY <2>2 DEF Threw, Answer
  <2>3. CASE res \in Acceptance(l)
    <3>1. PICK n \in {0, Len(bids) + 1} : res = [ok |-> TRUE, threw |-> FALSE, appNo |-> n]
      BY <2>3 DEF Acceptance
    <3>2. QED
      BY <2>1, <3>1 DEF Answer
  <2>4. QED
    BY <1>2, <2>2, <2>3
<1>4. l \in Letter /\ poster' \in [Poster -> PosterState \cup {IdlePoster}]
    BY <1>2, <1>3, AnsweredTyped DEF CallAccepted
<1>5. bids' \in Seq(Bid) /\ BidsGrow
  <2> DEFINE n == l.row.appNo
  <2>1. CASE bids' = Append(bids, [app |-> l.app, qty |-> l.qty, live |-> TRUE])
    <3>1. [app |-> l.app, qty |-> l.qty, live |-> TRUE] \in Bid
      BY <1>4 DEF Letter, Bid
    <3>2. QED
      BY <2>1, <3>1, AppendSeq DEF TypeOK, BidsGrow
  <2>2. CASE bids' = [bids EXCEPT ![n].qty = l.qty]
    <3> DEFINE e == [bids[n] EXCEPT !.qty = l.qty]
    <3>1. n \in DOMAIN bids => e \in Bid /\ e.app = bids[n].app
      BY <1>4, BidTyped DEF Bid, Letter
    <3>2. bids' = [bids EXCEPT ![n] = e]
      BY <2>2
    <3> HIDE DEF e, n
    <3>3. QED
      BY <3>1, <3>2, BidUpdated
  <2>3. CASE bids' = [bids EXCEPT ![n].live = FALSE]
    <3> DEFINE e == [bids[n] EXCEPT !.live = FALSE]
    <3>1. n \in DOMAIN bids => e \in Bid /\ e.app = bids[n].app
      BY BidTyped DEF Bid
    <3>2. bids' = [bids EXCEPT ![n] = e]
      BY <2>3
    <3> HIDE DEF e, n
    <3>3. QED
      BY <3>1, <3>2, BidUpdated
  <2>4. QED
    BY <1>1, <2>1, <2>2, <2>3 DEF Takes
<1>6. TypeOK'
    BY <1>4, <1>5 DEF CallAccepted, TypeOK
<1>7. QED
    BY <1>5, <1>6, RowsKept, OpsKept DEF CallAccepted, Grows

\* A refused or failed call leaves the exchange alone.
LEMMA CallFailedStep ==
    ASSUME TypeOK, NEW p \in Poster, CallRefused(p) \/ CallThrew(p)
    PROVE  TypeOK' /\ Grows
<1>1. Grows
    BY RowsKept, OpsKept, BidsKept DEF CallRefused, CallThrew, Grows
<1>2. Refusal \in Answer /\ Threw \in Answer
    BY DEF Refusal, Threw, Answer
<1>3. poster' \in [Poster -> PosterState \cup {IdlePoster}]
    BY <1>2, AnsweredTyped DEF CallRefused, CallThrew
<1>4. TypeOK'
    BY <1>3 DEF CallRefused, CallThrew, TypeOK
<1>5. QED
    BY <1>1, <1>4

\* A poster that holds an answer.
LEMMA AnswerTyped ==
    ASSUME TypeOK, NEW p \in Poster, poster[p].pc = "answered"
    PROVE  /\ poster[p].cur \in Letter
           /\ poster[p].batch \in SUBSET Letter
           /\ poster[p].res \in Answer
    BY DEF TypeOK, PosterState, IdlePoster

\* postOne writes one operation and, for a "new", its row.
LEMMA SaveAnswerStep ==
    ASSUME TypeOK, NEW p \in Poster, SaveAnswer(p)
    PROVE  TypeOK' /\ Grows
<1> DEFINE l == poster[p].cur
           res == poster[p].res
           e == [ops[l.op] EXCEPT !.state = IF res.ok THEN "posted" ELSE "failed"]
           n == l.op
<1>1. l \in Letter /\ poster[p].batch \in SUBSET Letter /\ res \in Answer
    BY AnswerTyped DEF SaveAnswer
<1>2. NumberAfter(l, res) \in Nat
    BY <1>1 DEF NumberAfter, Letter, Row, Answer
<1>3. app' \in [App -> Row] /\ RowsGrow
  <2>1. CASE app' = app
    BY <2>1, RowsKept DEF TypeOK
  <2>2. CASE app' = [app EXCEPT ![l.app].status = "submitted",
                                ![l.app].appNo = NumberAfter(l, res),
                                ![l.app].ref = FALSE]
    <3> DEFINE a == l.app
               row == [app[a] EXCEPT !.status = "submitted", !.appNo = NumberAfter(l, res),
                                     !.ref = FALSE]
    <3>1. a \in App /\ app \in [App -> Row] /\ app[a] \in Row
      BY <1>1 DEF TypeOK, Letter
    <3>2. app' = [app EXCEPT ![a] = row]
      BY <2>2, <3>1
    <3>3. /\ row \in Row /\ row.status # "none"
          /\ row.category = app[a].category /\ row.routed = app[a].routed
      BY <1>2, <3>1 DEF Row, Status
    <3> HIDE DEF a, row
    <3>4. app' \in [App -> Row]
      BY <3>1, <3>2, <3>3
    <3>5. RowsGrow
      BY <3>1, <3>2, <3>3 DEF RowsGrow, Exists
    <3>6. QED
      BY <3>4, <3>5
  <2>3. QED
    BY <2>1, <2>2 DEF SaveAnswer
<1>4. ops' \in Seq(Op) /\ OpsGrow
  <2>1. n \in DOMAIN ops => /\ e \in Op
                            /\ e.app = ops[n].app
                            /\ e.action = ops[n].action
                            /\ e.routed = ops[n].routed
    BY OpTyped DEF Op
  <2>2. ops' = [ops EXCEPT ![n] = e]
    BY DEF SaveAnswer
  <2> HIDE DEF e, n
  <2>3. QED
    BY <2>1, <2>2, OpUpdated
<1>5. poster' \in [Poster -> PosterState \cup {IdlePoster}]
    BY <1>1 DEF SaveAnswer, RestOf, TypeOK, PosterState
<1>6. TypeOK'
    BY <1>3, <1>4, <1>5 DEF SaveAnswer, TypeOK
<1>7. QED
    BY <1>3, <1>4, <1>6, BidsKept DEF SaveAnswer, Grows

\* A crash keeps the tables and forgets the processes.
LEMMA CrashStep ==
    ASSUME TypeOK, Crash
    PROVE  TypeOK' /\ Grows
    BY RowsKept, OpsKept, BidsKept DEF Crash, Grows, TypeOK

\* Every step keeps the types and lets the tables grow.
LEMMA StepGrows ==
    ASSUME TypeOK, [Next]_vars
    PROVE  TypeOK' /\ Grows
<1>1. CASE UNCHANGED vars
    BY <1>1, RowsKept, OpsKept, BidsKept DEF vars, TypeOK, Grows
<1>2. ASSUME NEW h \in Handler, LoadSome(h) \/ FindPendingNew(h) \/ Commit(h)
      PROVE  TypeOK' /\ Grows
    BY <1>2, LoadStep, FindStep, CommitNewStep, CommitModifyStep, CommitCancelStep,
       CommitRebidStep, CommitUpiStep DEF Commit
<1>3. ASSUME NEW p \in Poster, Post(p)
      PROVE  TypeOK' /\ Grows
    BY <1>3, LoadBatchStep, CallAcceptedStep, CallFailedStep, SaveAnswerStep DEF Post
<1>4. QED
    BY <1>1, <1>2, <1>3, CrashStep DEF Next

-----------------------------------------------------------------------------
(* The conjuncts of IInv, one lemma each; each splits on the steps that    *)
(* write what the conjunct speaks of.                                      *)

\* Which rows a step changes the number of, and to what.
LEMMA NumberChange ==
    ASSUME TypeOK, [Next]_vars, NEW a \in App, app'[a].appNo # app[a].appNo
    PROVE  \/ app'[a].appNo = 0 /\ ~Exists(a)
           \/ \E p \in Poster :
                /\ SaveAnswer(p)
                /\ a = poster[p].cur.app
                /\ app'[a].appNo = NumberAfter(poster[p].cur, poster[p].res)
<1>1. CASE UNCHANGED app
    BY <1>1
<1>2. ASSUME NEW h \in Handler, CommitModify(h) \/ CommitCancel(h)
      PROVE  app'[a].appNo = app[a].appNo
  <2> DEFINE r == handler[h].req
  <2>1. PICK row : app' = [app EXCEPT ![r.id] = row] /\ row.appNo = app[r.id].appNo
    <3>1. r.id \in App
      BY <1>2, RequestTyped DEF CommitModify, CommitCancel, Request
    <3>2. app[r.id] \in Row
      BY <3>1 DEF TypeOK
    <3>3. CASE CommitModify(h)
      <4>1. app' = [app EXCEPT ![r.id] = [app[r.id] EXCEPT !.qty = r.next]]
        BY <3>3 DEF CommitModify
      <4>2. [app[r.id] EXCEPT !.qty = r.next].appNo = app[r.id].appNo
        BY <3>2 DEF Row
      <4>3. QED
        BY <4>1, <4>2
    <3>4. CASE CommitCancel(h)
      <4>1. app' = [app EXCEPT ![r.id] = [app[r.id] EXCEPT !.status = "cancelled"]]
        BY <3>4 DEF CommitCancel
      <4>2. [app[r.id] EXCEPT !.status = "cancelled"].appNo = app[r.id].appNo
        BY <3>2 DEF Row
      <4>3. QED
        BY <4>1, <4>2
    <3>5. QED
      BY <1>2, <3>3, <3>4
  <2> HIDE DEF r
  <2>2. QED
    BY <2>1 DEF TypeOK
<1>3. ASSUME NEW h \in Handler, CommitRebid(h)
      PROVE  app'[a].appNo = app[a].appNo \/ (app'[a].appNo = 0 /\ ~Exists(a))
  <2> DEFINE r == handler[h].req
  <2>1. PICK fresh \in App :
          /\ ~Exists(fresh)
          /\ app' = [app EXCEPT ![r.id].status = "cancelled",
                                ![fresh] = FreshRow(r.snap, r.next, Len(ops) + 1)]
    BY <1>3 DEF CommitRebid, Exists
  <2>2. r.id \in App /\ FreshRow(r.snap, r.next, Len(ops) + 1).appNo = 0
    <3>1. r \in Request
      BY <1>3, RequestTyped DEF CommitRebid
    <3>2. r.id \in App /\ r.snap \in Row
      BY <3>1 DEF Request
    <3>3. QED
      BY <3>2 DEF FreshRow, Row
  <2> HIDE DEF r
  <2>3. app \in [App -> Row]
    BY DEF TypeOK
  <2>4. [app[r.id] EXCEPT !.status = "cancelled"].appNo = app[r.id].appNo
    BY <2>2, <2>3 DEF Row
  <2>5. QED
    BY <2>1, <2>2, <2>3, <2>4
<1>4. ASSUME NEW p \in Poster, SaveAnswer(p)
      PROVE  /\ a = poster[p].cur.app
             /\ app'[a].appNo = NumberAfter(poster[p].cur, poster[p].res)
  <2>1. app' = app \/ app' = [app EXCEPT ![poster[p].cur.app].status = "submitted",
                          ![poster[p].cur.app].appNo = NumberAfter(poster[p].cur, poster[p].res),
                          ![poster[p].cur.app].ref = FALSE]
    BY <1>4 DEF SaveAnswer
  <2>2. app[a] \in Row
    BY DEF TypeOK
  <2>3. QED
    BY <2>1, <2>2 DEF TypeOK, Row
<1>5. QED
  <2>1. \/ UNCHANGED app
        \/ \E h \in Handler : CommitModify(h) \/ CommitCancel(h) \/ CommitRebid(h)
        \/ \E p \in Poster : SaveAnswer(p)
    BY DEF Next, vars, LoadSome, Load, FindPendingNew, Commit, CommitNew, CommitUpi,
           Post, LoadBatch, CallAccepted, CallRefused, CallThrew, Crash
  <2>2. QED
    BY <2>1, <1>1, <1>2, <1>3, <1>4

\* A letter whose answer is in agrees with the tables.
LEMMA CurrentAgrees ==
    ASSUME IInv, NEW p \in Poster, poster[p].pc = "answered"
    PROVE  poster[p].cur \in Letter /\ LetterAgrees(poster[p].cur)
    BY AnswerTyped DEF IInv, PostersAgree, Letters, IdlePoster

\* The number an answer leaves behind is of a bid of that application.
LEMMA AnswerNumber ==
    ASSUME IInv, NEW p \in Poster, poster[p].pc = "answered"
    PROVE  LET n == NumberAfter(poster[p].cur, poster[p].res)
           IN  n # 0 => n \in DOMAIN bids /\ bids[n].app = poster[p].cur.app
<1>1. LetterAgrees(poster[p].cur)
    BY CurrentAgrees
<1>2. QED
    BY <1>1 DEF IInv, AnswersAreOwn, LetterAgrees, NumberAfter

\* Every step keeps the numbers in the table those of own bids.
LEMMA NumbersStep ==
    ASSUME IInv, [Next]_vars
    PROVE  NumbersAreOwn'
<1>1. TypeOK' /\ Grows
    BY StepGrows DEF IInv
<1>2. SUFFICES ASSUME NEW a \in App, app'[a].appNo # 0
               PROVE  app'[a].appNo \in DOMAIN bids' /\ bids'[app'[a].appNo].app = a
    BY DEF NumbersAreOwn
<1>3. CASE app'[a].appNo = app[a].appNo
    BY <1>1, <1>2, <1>3 DEF IInv, NumbersAreOwn, Grows, BidsGrow
<1>4. CASE app'[a].appNo # app[a].appNo
  <2>1. PICK p \in Poster : /\ SaveAnswer(p)
                            /\ a = poster[p].cur.app
                            /\ app'[a].appNo = NumberAfter(poster[p].cur, poster[p].res)
    BY <1>2, <1>4, NumberChange DEF IInv
  <2>2. app'[a].appNo \in DOMAIN bids /\ bids[app'[a].appNo].app = a
    BY <1>2, <2>1, AnswerNumber DEF SaveAnswer
  <2>3. QED
    BY <1>1, <2>2 DEF Grows, BidsGrow
<1>5. QED
    BY <1>3, <1>4

\* What a step that writes the exchange's book did: it was a call for a letter
\* in some poster's hands.
LEMMA BookChange ==
    ASSUME [Next]_vars
    PROVE  \/ UNCHANGED bids
           \/ \E p \in Poster : CallAccepted(p)
    BY DEF Next, vars, LoadSome, Load, FindPendingNew, Commit, CommitNew, CommitUpi,
           CommitModify, CommitCancel, CommitRebid,
           Post, LoadBatch, CallRefused, CallThrew, SaveAnswer, Crash

\* A letter about to be sent agrees with the tables.
LEMMA BatchAgrees ==
    ASSUME IInv, NEW p \in Poster, poster[p].pc = "posting", NEW l \in poster[p].batch
    PROVE  l \in Letter /\ LetterAgrees(l)
    BY DEF IInv, TypeOK, PosterState, IdlePoster, PostersAgree, Letters

\* Every step keeps institutional bids in the book.
LEMMA WithdrawnStep ==
    ASSUME IInv, [Next]_vars
    PROVE  InstitutionalNeverWithdrawn' /\ (\A n \in DOMAIN bids : Exists(bids[n].app))'
<1>1. TypeOK' /\ Grows
    BY StepGrows DEF IInv
<1>2. \A n \in DOMAIN bids : bids[n] \in Bid /\ bids[n].app \in App /\ Exists(bids[n].app)
    BY BidTyped DEF IInv, RowsExist, Bid
<1>3. \A n \in DOMAIN bids : /\ Exists(bids[n].app)'
                             /\ Institutional(bids[n].app)' <=> Institutional(bids[n].app)
  <2>1. SUFFICES ASSUME NEW n \in DOMAIN bids
                 PROVE  /\ Exists(bids[n].app)'
                        /\ Institutional(bids[n].app)' <=> Institutional(bids[n].app)
    OBVIOUS
  <2>2. bids'[n].app = bids[n].app
    BY <1>1 DEF Grows, BidsGrow
  <2>3. Exists(bids[n].app)'
    BY <1>1, <1>2, <2>2 DEF Grows, RowsGrow, Exists
  <2>4. QED
    BY <1>1, <1>2, <2>2, <2>3 DEF Grows, RowsGrow, Institutional
<1>4. CASE UNCHANGED bids
    BY <1>3, <1>4 DEF IInv, InstitutionalNeverWithdrawn
<1>5. ASSUME NEW p \in Poster, CallAccepted(p)
      PROVE  /\ InstitutionalNeverWithdrawn'
             /\ (\A n \in DOMAIN bids : Exists(bids[n].app))'
  <2>1. PICK l \in poster[p].batch : Takes(l)
    BY <1>5 DEF CallAccepted
  <2>2. l \in Letter /\ LetterAgrees(l) /\ UNCHANGED app
    BY <1>5, BatchAgrees DEF CallAccepted
  <2>3. \A a \in App : (Exists(a)' <=> Exists(a)) /\ (Institutional(a)' <=> Institutional(a))
    BY <2>2 DEF Exists, Institutional
  <2>4. CASE l.action = "new"
    <3>1. bids' = Append(bids, [app |-> l.app, qty |-> l.qty, live |-> TRUE])
      BY <2>1, <2>4 DEF Takes
    <3>2. /\ DOMAIN bids' = DOMAIN bids \cup {Len(bids) + 1}
          /\ \A n \in DOMAIN bids : bids'[n] = bids[n]
          /\ bids'[Len(bids) + 1] = [app |-> l.app, qty |-> l.qty, live |-> TRUE]
      <4>1. [app |-> l.app, qty |-> l.qty, live |-> TRUE] \in Bid
        BY <2>2 DEF Letter, Bid
      <4>2. bids \in Seq(Bid)
        BY DEF IInv, TypeOK
      <4>3. QED
        BY <3>1, <4>1, <4>2, AppendSeq
    <3>3. Exists(l.app) /\ l.app \in App
      BY <2>2 DEF LetterAgrees, SameRow, Letter
    <3>4. QED
      BY <1>2, <2>2, <3>2, <3>3 DEF IInv, InstitutionalNeverWithdrawn, Exists, Institutional
  <2>5. CASE l.action # "new"
    <3>1. /\ DOMAIN bids' = DOMAIN bids
          /\ \A n \in DOMAIN bids :
                /\ bids'[n].app = bids[n].app
                /\ bids'[n].live = bids[n].live \/ (n = l.row.appNo /\ l.action = "cancel")
      BY <1>2, <2>1, <2>5 DEF Takes, Bid
    <3>2. l.action = "cancel" => ~Institutional(bids[l.row.appNo].app)
      BY <2>1, <2>2, <2>5 DEF LetterAgrees, Takes, Buildable
    <3>3. QED
      BY <1>2, <2>2, <3>1, <3>2 DEF IInv, InstitutionalNeverWithdrawn, Exists, Institutional
  <2>6. QED
    BY <2>4, <2>5
<1>6. QED
    BY <1>4, <1>5, BookChange

-----------------------------------------------------------------------------
(* The rows and the operations a step adds.                                *)

\* A request in its last step still agrees with the tables.
LEMMA CommitAgrees ==
    ASSUME IInv, NEW h \in Handler, Commit(h)
    PROVE  /\ handler[h].req \in Request
           /\ RequestAgrees(handler[h].req)
<1>1. handler[h].pc = "ready"
    BY DEF Commit, CommitNew, CommitModify, CommitCancel, CommitRebid, CommitUpi
<1>2. QED
    BY <1>1, RequestTyped DEF IInv, RequestsAgree, IdleHandler

\* Only a rebid makes a row out of nothing.
LEMMA NewRow ==
    ASSUME IInv, [Next]_vars, NEW a \in App, ~Exists(a), app'[a] # app[a]
    PROVE  \E h \in Handler :
              LET r == handler[h].req
              IN  CommitRebid(h) /\ app'[a] = FreshRow(r.snap, r.next, Len(ops) + 1)
<1>1. app \in [App -> Row]
    BY DEF IInv, TypeOK
<1>2. ASSUME NEW h \in Handler, Commit(h)
      PROVE  handler[h].req.id \in App /\ Exists(handler[h].req.id)
    BY <1>2, CommitAgrees DEF RequestAgrees, SameRow, Request
<1>3. ASSUME NEW h \in Handler, CommitModify(h) \/ CommitCancel(h)
      PROVE  FALSE
  <2>1. a # handler[h].req.id
    BY <1>2, <1>3 DEF Commit
  <2>2. QED
    BY <1>1, <1>3, <2>1 DEF CommitModify, CommitCancel
<1>4. ASSUME NEW p \in Poster, SaveAnswer(p)
      PROVE  FALSE
  <2>1. LetterAgrees(poster[p].cur)
    BY <1>4, CurrentAgrees DEF SaveAnswer
  <2>2. a # poster[p].cur.app
    BY <2>1 DEF LetterAgrees, SameRow
  <2>3. QED
    BY <1>1, <1>4, <2>2 DEF SaveAnswer
<1>5. PICK h \in Handler : CommitRebid(h)
    BY <1>3, <1>4 DEF Next, vars, LoadSome, Load, FindPendingNew, Commit, CommitNew, CommitUpi,
           Post, LoadBatch, CallAccepted, CallRefused, CallThrew, Crash
<1> DEFINE r == handler[h].req
<1>6. PICK fresh \in App :
        app' = [app EXCEPT ![r.id].status = "cancelled",
                           ![fresh] = FreshRow(r.snap, r.next, Len(ops) + 1)]
    BY <1>5 DEF CommitRebid
<1>7. a # r.id
    BY <1>2, <1>5 DEF Commit
<1> HIDE DEF r
<1>8. a = fresh
    BY <1>1, <1>6, <1>7
<1>9. app'[a] = FreshRow(r.snap, r.next, Len(ops) + 1)
    BY <1>1, <1>6, <1>7, <1>8
<1>10. QED
    BY <1>5, <1>9 DEF r

\* An operation a step adds is for the application of the request that commits,
\* with the route it read there, or is the "new" of the row a rebid adds.
LEMMA NewOps ==
    ASSUME IInv, [Next]_vars, NEW i \in DOMAIN ops', i \notin DOMAIN ops
    PROVE  \E h \in Handler :
              LET r == handler[h].req
              IN  /\ Commit(h)
                  /\ \/ /\ ops'[i].app = r.id
                        /\ ops'[i].routed = r.snap.routed
                        /\ ops'[i].action = "cancel" => r.kind \in {"cancel", "rebid"}
                     \/ /\ ops'[i].action = "new"
                        /\ ops'[i].app \in App /\ Exists(ops[i].app)'
                        /\ ops'[i].routed = app'[ops'[i].app].routed
<1>1. ops \in Seq(Op) /\ app \in [App -> Row]
    BY DEF IInv, TypeOK
<1>2. ASSUME NEW h \in Handler, NEW action \in Action, NEW q \in Qty, Commit(h),
             ops' = Append(ops, NewOp(handler[h].req.id, action, q, handler[h].req.snap))
      PROVE  /\ ops'[i].app = handler[h].req.id
             /\ ops'[i].routed = handler[h].req.snap.routed
             /\ ops'[i].action = action
  <2> DEFINE op == NewOp(handler[h].req.id, action, q, handler[h].req.snap)
  <2>1. op \in Op
    BY <1>2, CommitAgrees, NewOpType DEF Request
  <2> HIDE DEF op
  <2>2. ops'[i] = op
    BY <1>1, <1>2, <2>1, AppendSeq DEF op
  <2>3. QED
    BY <2>2 DEF op, NewOp
<1>3. ASSUME NEW h \in Handler, NEW n, NEW e, ops' = [ops EXCEPT ![n] = e]
      PROVE  FALSE
    BY <1>1, <1>3, LenProperties
<1>4. ASSUME NEW h \in Handler, CommitNew(h) \/ CommitModify(h) \/ CommitCancel(h) \/ CommitUpi(h)
      PROVE  /\ ops'[i].app = handler[h].req.id
             /\ ops'[i].routed = handler[h].req.snap.routed
             /\ ops'[i].action = "cancel" => handler[h].req.kind = "cancel"
  <2>1. handler[h].req \in Request /\ Commit(h)
    BY <1>4, CommitAgrees DEF Commit
  <2>2. handler[h].req.next \in Qty /\ handler[h].req.snap.qty \in Qty
    BY <2>1 DEF Request, Row
  <2>3. CASE CommitNew(h)
    BY <1>2, <2>1, <2>2, <2>3 DEF CommitNew, Action
  <2>4. CASE CommitModify(h)
    BY <1>2, <1>3, <2>1, <2>2, <2>4 DEF CommitModify, Action
  <2>5. CASE CommitCancel(h)
    BY <1>2, <1>3, <2>1, <2>2, <2>5 DEF CommitCancel, Action
  <2>6. CASE CommitUpi(h)
    BY <1>2, <2>1, <2>2, <2>6 DEF CommitUpi, Action
  <2>7. QED
    BY <1>4, <2>3, <2>4, <2>5, <2>6
<1>5. ASSUME NEW h \in Handler, CommitRebid(h)
      PROVE  \/ /\ ops'[i].app = handler[h].req.id
                /\ ops'[i].routed = handler[h].req.snap.routed
             \/ /\ ops'[i].action = "new"
                /\ ops'[i].app \in App /\ Exists(ops[i].app)'
                /\ ops'[i].routed = app'[ops'[i].app].routed
  <2> DEFINE r == handler[h].req
  <2>1. r \in Request /\ r.snap \in Row /\ r.snap.qty \in Qty
    BY <1>5, CommitAgrees DEF Commit, Request, Row
  <2>2. PICK fresh \in App :
          /\ app' = [app EXCEPT ![r.id].status = "cancelled",
                                ![fresh] = FreshRow(r.snap, r.next, Len(ops) + 1)]
          /\ ops' = ops \o <<NewOp(r.id, "cancel", r.snap.qty, r.snap),
                             NewOp(fresh, "new", r.next, r.snap)>>
    BY <1>5 DEF CommitRebid
  <2> DEFINE cancelOp == NewOp(r.id, "cancel", r.snap.qty, r.snap)
             newOp == NewOp(fresh, "new", r.next, r.snap)
  <2>3. cancelOp \in Op /\ newOp \in Op
    BY <2>1, NewOpType DEF Request, Action
  <2>4. /\ cancelOp.app = r.id /\ cancelOp.routed = r.snap.routed
        /\ newOp.action = "new" /\ newOp.app = fresh /\ newOp.routed = r.snap.routed
    BY DEF NewOp
  <2>5. Exists(fresh)' /\ app'[fresh].routed = r.snap.routed
    BY <1>1, <2>1, <2>2 DEF Exists, FreshRow, Row
  <2> HIDE DEF cancelOp, newOp, r
  <2>6. ops'[i] \in {cancelOp, newOp}
    BY <1>1, <2>2, <2>3, AppendTwo DEF cancelOp, newOp
  <2>7. CASE ops'[i] = cancelOp
    BY <2>4, <2>7 DEF r
  <2>8. CASE ops'[i] = newOp
    <3>1. ops'[i].action = "new" /\ ops'[i].app = fresh /\ ops'[i].routed = r.snap.routed
      BY <2>4, <2>8
    <3>2. Exists(ops[i].app)' /\ ops'[i].routed = app'[ops'[i].app].routed
      BY <2>5, <3>1 DEF Exists
    <3>3. QED
      BY <3>1, <3>2
  <2>9. QED
    BY <2>6, <2>7, <2>8
<1>6. ASSUME NEW p \in Poster, SaveAnswer(p)
      PROVE  FALSE
    BY <1>1, <1>6, LenProperties DEF SaveAnswer
<1>7. PICK h \in Handler : Commit(h)
    BY <1>6 DEF Next, vars, LoadSome, Load, FindPendingNew,
           Post, LoadBatch, CallAccepted, CallRefused, CallThrew, Crash
<1>8. CASE CommitRebid(h)
    BY <1>5, <1>7, <1>8 DEF CommitRebid
<1>9. CASE ~CommitRebid(h)
    BY <1>4, <1>7, <1>9 DEF Commit
<1>10. QED
    BY <1>8, <1>9

\* Operations, bids and whatever processes hold are of made rows.
LEMMA RowsExistStep ==
    ASSUME IInv, [Next]_vars
    PROVE  RowsExist'
<1>1. TypeOK' /\ Grows
    BY StepGrows DEF IInv
<1>2. SUFFICES ASSUME NEW i \in DOMAIN ops'
               PROVE  Exists(ops[i].app)' /\ ops'[i].routed = app'[ops'[i].app].routed
    BY WithdrawnStep DEF RowsExist, Exists
<1>3. CASE i \in DOMAIN ops
  <2>1. /\ ops[i].app \in App /\ Exists(ops[i].app)
        /\ ops[i].routed = app[ops[i].app].routed
        /\ ops'[i].app = ops[i].app /\ ops'[i].routed = ops[i].routed
    BY <1>1, <1>3, OpTyped DEF IInv, RowsExist, Op, Grows, OpsGrow
  <2>2. QED
    BY <1>1, <2>1 DEF Grows, RowsGrow, Exists
<1>4. CASE i \notin DOMAIN ops
  <2>1. PICK h \in Handler :
          /\ Commit(h)
          /\ \/ /\ ops'[i].app = handler[h].req.id
                /\ ops'[i].routed = handler[h].req.snap.routed
             \/ Exists(ops[i].app)' /\ ops'[i].routed = app'[ops'[i].app].routed
    BY <1>4, NewOps
  <2>2. /\ handler[h].req.id \in App /\ Exists(handler[h].req.id)
        /\ handler[h].req.snap.routed = app[handler[h].req.id].routed
    BY <2>1, CommitAgrees DEF Request, RequestAgrees, SameRow
  <2>3. QED
    BY <1>1, <2>1, <2>2 DEF Grows, RowsGrow, Exists
<1>5. QED
    BY <1>3, <1>4

\* No cancel of a routed institutional bid is ever in the table.
LEMMA NoCancelStep ==
    ASSUME IInv, [Next]_vars
    PROVE  NoInstitutionalCancel'
<1>1. TypeOK' /\ Grows
    BY StepGrows DEF IInv
<1>2. SUFFICES ASSUME NEW i \in DOMAIN ops', ops'[i].action = "cancel", ops'[i].routed
               PROVE  ~Institutional(ops[i].app)'
    BY DEF NoInstitutionalCancel, Institutional
<1>3. CASE i \in DOMAIN ops
  <2>1. /\ ops[i].app \in App /\ Exists(ops[i].app) /\ ~Institutional(ops[i].app)
        /\ ops'[i].app = ops[i].app
    BY <1>1, <1>2, <1>3, OpTyped
    DEF IInv, RowsExist, NoInstitutionalCancel, Op, Grows, OpsGrow
  <2>2. QED
    BY <1>1, <2>1 DEF Grows, RowsGrow, Institutional
<1>4. CASE i \notin DOMAIN ops
  <2>1. PICK h \in Handler : /\ Commit(h)
                             /\ ops'[i].app = handler[h].req.id
                             /\ handler[h].req.snap.routed
                             /\ handler[h].req.kind \in {"cancel", "rebid"}
    BY <1>2, <1>4, NewOps
  <2>2. handler[h].req.id \in App /\ Exists(handler[h].req.id) /\ ~Institutional(handler[h].req.id)
    BY <2>1, CommitAgrees DEF Request, RequestAgrees, SameRow
  <2>3. QED
    BY <1>1, <2>1, <2>2 DEF Grows, RowsGrow, Institutional
<1>5. QED
    BY <1>3, <1>4

\* A number an institutional application has is never taken from it.
LEMMA RoutingStep ==
    ASSUME IInv, [Next]_vars
    PROVE  InstitutionalRouting'
<1>1. TypeOK' /\ Grows
    BY StepGrows DEF IInv
<1>2. SUFFICES ASSUME NEW a \in App, app'[a].routed, Institutional(a)'
               PROVE  app'[a].appNo # 0
    BY DEF InstitutionalRouting
<1>3. CASE Exists(a)
  <2>1. app[a].appNo # 0 /\ Institutional(a)
    BY <1>1, <1>2, <1>3 DEF Grows, RowsGrow, Institutional, IInv, InstitutionalRouting
  <2>2. CASE app'[a].appNo # app[a].appNo
    <3>1. PICK p \in Poster : /\ SaveAnswer(p)
                              /\ a = poster[p].cur.app
                              /\ app'[a].appNo = NumberAfter(poster[p].cur, poster[p].res)
      BY <1>3, <2>2, NumberChange DEF IInv
    <3>2. poster[p].cur.row.appNo # 0
      BY <2>1, <3>1, CurrentAgrees DEF SaveAnswer, LetterAgrees
    <3>3. QED
      BY <3>1, <3>2 DEF NumberAfter
  <2>3. QED
    BY <2>1, <2>2
<1>4. CASE ~Exists(a) /\ app'[a] = app[a]
    BY <1>2, <1>4 DEF IInv, InstitutionalRouting, Institutional
<1>5. CASE ~Exists(a) /\ app'[a] # app[a]
  <2>1. PICK h \in Handler : /\ CommitRebid(h)
                             /\ app'[a] = FreshRow(handler[h].req.snap, handler[h].req.next, Len(ops) + 1)
    BY <1>5, NewRow
  <2> DEFINE r == handler[h].req
  <2>2. r \in Request /\ RequestAgrees(r) /\ r.kind = "rebid"
    BY <2>1, CommitAgrees DEF Commit, CommitRebid
  <2>3. app'[a].category = r.snap.category /\ app'[a].routed = r.snap.routed
    BY <2>1, <2>2 DEF FreshRow, Request, Row
  <2>4. QED
    BY <1>2, <2>2, <2>3 DEF RequestAgrees, SameRow, Institutional
<1>6. QED
    BY <1>3, <1>4, <1>5

-----------------------------------------------------------------------------
(* What requests and posters hold after a step.                            *)

\* What the requests have read stays true in every step.
LEMMA RequestsStep ==
    ASSUME IInv, [Next]_vars
    PROVE  RequestsAgree'
<1>1. TypeOK' /\ Grows
    BY StepGrows DEF IInv
<1>2. SUFFICES ASSUME NEW h \in Handler, NEW r, handler'[h] # IdleHandler, r = handler'[h].req
               PROVE  RequestAgrees(r)'
    BY DEF RequestsAgree
<1>3. handler \in [Handler -> HandlerState \cup {IdleHandler}]
    BY DEF IInv, TypeOK
<1>4. CASE handler'[h] = handler[h]
  <2>1. handler[h] \in HandlerState /\ r \in Request /\ RequestAgrees(r)
    BY <1>2, <1>3, <1>4 DEF IInv, RequestsAgree, HandlerState
  <2>2. QED
    BY <1>1, <2>1, RequestStays
<1>5. CASE LoadSome(h)
  <2>1. PICK kind \in {"new", "modify", "cancel", "rebid", "upi"}, a \in App, q \in Qty :
          Load(h, kind, a, q)
    BY <1>5 DEF LoadSome
  <2>2. r = [kind |-> kind, id |-> a, snap |-> app[a], next |-> q, pend |-> 0]
    BY <1>2, <1>3, <2>1 DEF Load
  <2>3. Exists(a) /\ UNCHANGED app
    BY <2>1 DEF Load, Exists
  <2>4. kind \in {"cancel", "rebid"} /\ app[a].routed => ~Institutional(a)
    <3>1. kind \in {"cancel", "rebid"} => MayCancel(app[a].category, AtExchange(app[a]))
      BY <2>1 DEF Load, Permitted
    <3>2. app[a].routed /\ Institutional(a) => AtExchange(app[a])
      BY DEF IInv, InstitutionalRouting, AtExchange
    <3>3. QED
      BY <3>1, <3>2 DEF MayCancel, Institutional
  <2>5. QED
    BY <2>2, <2>3, <2>4 DEF RequestAgrees, SameRow, Exists, Institutional
<1>6. CASE FindPendingNew(h)
  <2>1. handler[h].pc = "loaded" /\ handler[h] # IdleHandler
    BY <1>6 DEF FindPendingNew, IdleHandler
  <2>2. handler[h].req \in Request /\ RequestAgrees(handler[h].req)
    BY <2>1, RequestTyped DEF IInv, RequestsAgree
  <2>3. r.kind = handler[h].req.kind /\ r.id = handler[h].req.id /\ r.snap = handler[h].req.snap
    <3>1. PICK n : handler' = [handler EXCEPT ![h].pc = "ready", ![h].req.pend = n]
      BY <1>6 DEF FindPendingNew
    <3>2. handler[h] \in HandlerState
      BY <1>3, <2>1
    <3>3. handler'[h].req = [handler[h].req EXCEPT !.pend = n]
      BY <1>3, <3>1, <3>2 DEF HandlerState
    <3>4. QED
      BY <1>2, <2>2, <3>3 DEF Request
  <2>4. RequestAgrees(handler[h].req) => RequestAgrees(r)
    BY <2>3 DEF RequestAgrees
  <2>5. UNCHANGED app
    BY <1>6 DEF FindPendingNew
  <2>6. QED
    BY <2>2, <2>4, <2>5 DEF RequestAgrees, SameRow, Exists, Institutional
<1>7. QED
  <2>1. ASSUME NEW g \in Handler, LoadSome(g) \/ FindPendingNew(g) \/ Commit(g)
        PROVE  handler'[h] = handler[h] \/ g = h
    BY <1>3, <2>1 DEF LoadSome, Load, FindPendingNew, Commit, CommitNew, CommitModify,
       CommitCancel, CommitRebid, CommitUpi, Finish
  <2>2. Commit(h) => handler'[h] = IdleHandler
    BY <1>3 DEF Commit, CommitNew, CommitModify, CommitCancel, CommitRebid, CommitUpi, Finish
  <2>3. \/ UNCHANGED handler
        \/ \E g \in Handler : LoadSome(g) \/ FindPendingNew(g) \/ Commit(g)
        \/ handler'[h] = IdleHandler
    BY DEF Next, vars, Post, LoadBatch, CallAccepted, CallRefused, CallThrew, SaveAnswer, Crash
  <2>4. QED
    BY <1>2, <1>4, <1>5, <1>6, <2>1, <2>2, <2>3

\* Which step writes what a poster holds.
LEMMA PosterChange ==
    ASSUME TypeOK, [Next]_vars, NEW p \in Poster
    PROVE  \/ poster'[p] = poster[p]
           \/ poster'[p] = IdlePoster
           \/ Post(p)
<1>1. poster \in [Poster -> PosterState \cup {IdlePoster}]
    BY DEF TypeOK
<1>2. ASSUME NEW q \in Poster, Post(q)
      PROVE  poster'[p] = poster[p] \/ q = p
    BY <1>1, <1>2 DEF Post, LoadBatch, CallAccepted, CallRefused, CallThrew, SaveAnswer,
       Answered, RestOf
<1>3. \/ UNCHANGED poster
      \/ \E q \in Poster : Post(q)
      \/ poster'[p] = IdlePoster
    BY DEF Next, vars, LoadSome, Load, FindPendingNew, Commit, CommitNew, CommitModify,
       CommitCancel, CommitRebid, CommitUpi, Crash
<1>4. QED
    BY <1>2, <1>3

\* A letter made from the tables agrees with them.
LEMMA LetterForAgrees ==
    ASSUME IInv, NEW i \in Due
    PROVE  LetterFor(i) \in Letter /\ LetterAgrees(LetterFor(i))
<1>1. i \in DOMAIN ops /\ ops[i].routed
    BY DEF Due
<1>2. ops[i].app \in App /\ Exists(ops[i].app) /\ app[ops[i].app].routed
    BY <1>1, OpTyped DEF IInv, RowsExist, Op
<1>3. ops[i].action = "cancel" => ~Institutional(ops[i].app)
    BY <1>1 DEF IInv, NoInstitutionalCancel
<1>4. Institutional(ops[i].app) => app[ops[i].app].appNo # 0
    BY <1>2 DEF IInv, InstitutionalRouting
<1>5. app[ops[i].app].appNo # 0 => /\ app[ops[i].app].appNo \in DOMAIN bids
                                  /\ bids[app[ops[i].app].appNo].app = ops[i].app
    BY <1>2 DEF IInv, NumbersAreOwn
<1>6. LetterFor(i) \in Letter
    BY <1>1, LetterType DEF IInv
<1>7. QED
    BY <1>1, <1>2, <1>3, <1>4, <1>5, <1>6 DEF LetterAgrees, LetterFor, SameRow

\* What a poster still has to send.
Batch(p) == IF poster[p] = IdlePoster THEN {} ELSE poster[p].batch

\* What a step leaves in the hands of a poster.
LEMMA LettersFrom ==
    ASSUME IInv, [Next]_vars, NEW p \in Poster
    PROVE  \/ Letters(p)' = Letters(p) /\ Batch(p)' = Batch(p)
           \/ Letters(p)' = {} /\ Batch(p)' = {}
           \/ LoadBatch(p) /\ Letters(p)' = {LetterFor(i) : i \in Due} /\ Batch(p)' = Letters(p)'
           \/ Letters(p)' = Letters(p) /\ Batch(p)' \subseteq Batch(p) /\ UNCHANGED ops
           \/ /\ SaveAnswer(p) /\ Letters(p)' = Batch(p) /\ Batch(p)' = Batch(p)
              /\ Letters(p) = Batch(p) \cup {poster[p].cur}
<1>1. poster \in [Poster -> PosterState \cup {IdlePoster}]
  BY DEF IInv, TypeOK
<1>2. CASE poster'[p] = poster[p]
  BY <1>2 DEF Letters, Batch
<1>3. CASE poster'[p] = IdlePoster /\ ~SaveAnswer(p)
  BY <1>3 DEF Letters, Batch
<1>4. CASE LoadBatch(p)
  <2>1. poster'[p] = [pc |-> "posting", batch |-> {LetterFor(i) : i \in Due}]
    BY <1>1, <1>4 DEF LoadBatch
  <2>2. QED
    BY <1>4, <2>1 DEF Letters, Batch, IdlePoster
<1>5. CASE CallAccepted(p) \/ CallRefused(p) \/ CallThrew(p)
  <2>1. PICK m, res : m \in poster[p].batch /\ poster[p].pc = "posting" /\ Answered(p, m, res)
    BY <1>5 DEF CallAccepted, CallRefused, CallThrew
  <2>2. poster'[p] = [pc |-> "answered", batch |-> poster[p].batch \ {m}, cur |-> m, res |-> res]
    BY <1>1, <2>1 DEF Answered
  <2>3. UNCHANGED ops
    BY <1>5 DEF CallAccepted, CallRefused, CallThrew
  <2>4. Letters(p) = poster[p].batch /\ Batch(p) = poster[p].batch
    BY <2>1 DEF Letters, Batch, IdlePoster
  <2>5. Letters(p)' = (poster[p].batch \ {m}) \cup {m} /\ Batch(p)' = poster[p].batch \ {m}
    BY <2>2 DEF Letters, Batch, IdlePoster
  <2>6. QED
    BY <2>1, <2>3, <2>4, <2>5
<1>6. CASE SaveAnswer(p)
  <2>1. Letters(p) = Batch(p) \cup {poster[p].cur} /\ Batch(p) = poster[p].batch
    <3>1. poster[p].pc = "answered"
      BY <1>6 DEF SaveAnswer
    <3>2. QED
      BY <3>1 DEF Letters, Batch, IdlePoster
  <2>2. poster'[p] = IF poster[p].batch = {} THEN IdlePoster
                     ELSE [pc |-> "posting", batch |-> poster[p].batch]
    BY <1>1, <1>6 DEF SaveAnswer, RestOf
  <2>3. Letters(p)' = poster[p].batch /\ Batch(p)' = poster[p].batch
    BY <2>2 DEF Letters, Batch, IdlePoster
  <2>4. QED
    BY <1>6, <2>1, <2>3
<1>7. QED
  BY <1>2, <1>3, <1>4, <1>5, <1>6, PosterChange DEF Post, IInv

\* A letter after a step is one from before it, or made from a due operation.
LEMMA LetterFrom ==
    ASSUME IInv, [Next]_vars, NEW p \in Poster, NEW l \in Letters(p)'
    PROVE  /\ l \in Letter /\ LetterAgrees(l)
           /\ \/ l \in Letters(p)
              \/ LoadBatch(p) /\ \E i \in Due : l = LetterFor(i)
<1>1. l \in Letters(p) \/ (LoadBatch(p) /\ \E i \in Due : l = LetterFor(i))
  BY LettersFrom
<1>2. CASE l \in Letters(p)
  BY <1>2, AnswerTyped DEF IInv, PostersAgree, Letters, TypeOK, PosterState
<1>3. CASE LoadBatch(p) /\ \E i \in Due : l = LetterFor(i)
  BY <1>3, LetterForAgrees
<1>4. QED
  BY <1>1, <1>2, <1>3

\* What the posters have read stays true in every step.
LEMMA PostersStep ==
    ASSUME IInv, [Next]_vars
    PROVE  PostersAgree'
<1>1. TypeOK' /\ Grows
    BY StepGrows DEF IInv
<1>2. SUFFICES ASSUME NEW p \in Poster, NEW l \in Letters(p)'
               PROVE  LetterAgrees(l)'
    BY DEF PostersAgree
<1>3. l \in Letter /\ LetterAgrees(l)
    BY LetterFrom
<1>4. QED
    BY <1>1, <1>3, LetterStays

\* An answer not yet written names a bid of its own application.
LEMMA AnswersStep ==
    ASSUME IInv, [Next]_vars
    PROVE  AnswersAreOwn'
<1>1. TypeOK' /\ Grows
    BY StepGrows DEF IInv
<1>2. SUFFICES ASSUME NEW p \in Poster, poster'[p].pc = "answered", poster'[p].res.appNo # 0
               PROVE  /\ poster'[p].res.appNo \in DOMAIN bids'
                      /\ bids'[poster'[p].res.appNo].app = poster'[p].cur.app
    BY DEF AnswersAreOwn
<1>3. poster \in [Poster -> PosterState \cup {IdlePoster}] /\ poster'[p] # IdlePoster
    BY <1>2 DEF IInv, TypeOK, IdlePoster
<1>4. CASE poster'[p] = poster[p]
    BY <1>1, <1>2, <1>4 DEF IInv, AnswersAreOwn, Grows, BidsGrow
<1>5. CASE LoadBatch(p) \/ SaveAnswer(p)
  <2>1. poster'[p] = IdlePoster \/ poster'[p].pc = "posting"
    BY <1>3, <1>5 DEF LoadBatch, SaveAnswer, RestOf
  <2>2. QED
    BY <1>2, <1>3, <2>1
<1>6. CASE CallRefused(p) \/ CallThrew(p)
  <2>1. PICK l, res : l \in poster[p].batch /\ res \in {Refusal, Threw} /\ Answered(p, l, res)
    BY <1>6 DEF CallRefused, CallThrew
  <2>2. poster'[p].res = res /\ res.appNo = 0
    BY <1>3, <2>1 DEF Answered, Refusal, Threw
  <2>3. QED
    BY <1>2, <2>2
<1>7. CASE CallAccepted(p)
  <2>1. PICK l, res : l \in poster[p].batch /\
          res \in Acceptance(l) \cup {Threw} /\ Takes(l) /\ Answered(p, l, res)
    BY <1>7 DEF CallAccepted
  <2>2. l \in Letter
    BY <1>7, <2>1, BatchAgrees DEF CallAccepted
  <2>3. poster'[p].res = res /\ poster'[p].cur = l
    BY <1>3, <2>1 DEF Answered
  <2>4. l.action = "new" /\ res.appNo = Len(bids) + 1
    <3>1. res # Threw
      BY <1>2, <2>3 DEF Threw
    <3>2. PICK n \in IF l.action = "new" THEN {0, Len(bids) + 1} ELSE {0} :
            res = [ok |-> TRUE, threw |-> FALSE, appNo |-> n]
      BY <2>1, <3>1 DEF Acceptance
    <3>3. QED
      BY <1>2, <2>3, <3>2
  <2>5. bids' = Append(bids, [app |-> l.app, qty |-> l.qty, live |-> TRUE])
    BY <2>1, <2>4 DEF Takes
  <2>6. [app |-> l.app, qty |-> l.qty, live |-> TRUE] \in Bid /\ bids \in Seq(Bid)
    BY <2>2 DEF Letter, Bid, IInv, TypeOK
  <2>7. Len(bids) + 1 \in DOMAIN bids' /\ bids'[Len(bids) + 1].app = l.app
    BY <2>5, <2>6, AppendSeq
  <2>8. QED
    BY <2>3, <2>4, <2>7
<1>8. QED
    BY <1>3, <1>4, <1>5, <1>6, <1>7, PosterChange DEF Post, IInv

-----------------------------------------------------------------------------
(* The theorems.                                                           *)

\* No step breaks the inductive invariant.
THEOREM StepIInv == IInv /\ [Next]_vars => IInv'
    BY StepGrows, NumbersStep, WithdrawnStep, RoutingStep, RowsExistStep, NoCancelStep,
       RequestsStep, PostersStep, AnswersStep DEF IInv

\* The inductive invariant holds in every state of every behaviour.
THEOREM Invariance == Spec => []IInv
<1>1. Init => IInv
    BY InitIInv
<1>2. IInv /\ [Next]_vars => IInv'
    BY StepIInv
<1>3. QED
    BY <1>1, <1>2, PTL DEF Spec

\* Every table, request and poster always has its type.
THEOREM TypeCorrect == Spec => []TypeOK
<1>1. IInv => TypeOK
    BY DEF IInv
<1>2. QED
    BY <1>1, Invariance, PTL

\* An application number in the table always names a bid the exchange took for
\* that application, however requests, posters, lost answers and crashes
\* interleave.
THEOREM NumbersCorrect == Spec => []NumbersAreOwn
<1>1. IInv => NumbersAreOwn
    BY DEF IInv
<1>2. QED
    BY <1>1, Invariance, PTL

\* No HNI or QIB bid the exchange holds is ever withdrawn by anything the
\* ledger posts.
THEOREM NeverWithdrawn == Spec => []InstitutionalNeverWithdrawn
<1>1. IInv => InstitutionalNeverWithdrawn
    BY DEF IInv
<1>2. QED
    BY <1>1, Invariance, PTL

\* A step that changes a bid at the exchange does so for the application the
\* bid belongs to.
LEMMA OwnBidStep ==
    ASSUME IInv, [Next]_vars, NEW n \in DOMAIN bids, bids'[n] # bids[n]
    PROVE  \E p \in Poster : poster'[p].pc = "answered" /\ poster'[p].cur.app = bids[n].app
<1>1. PICK p \in Poster : CallAccepted(p)
    BY BookChange
<1>2. PICK l, res : l \in poster[p].batch /\ Takes(l) /\ Answered(p, l, res)
    BY <1>1 DEF CallAccepted
<1>3. l \in Letter /\ LetterAgrees(l)
    BY <1>1, <1>2, BatchAgrees DEF CallAccepted
<1>4. poster'[p].pc = "answered" /\ poster'[p].cur = l
    BY <1>2 DEF Answered, IInv, TypeOK
<1>5. CASE l.action = "new"
  <2>1. bids' = Append(bids, [app |-> l.app, qty |-> l.qty, live |-> TRUE])
    BY <1>2, <1>5 DEF Takes
  <2>2. [app |-> l.app, qty |-> l.qty, live |-> TRUE] \in Bid /\ bids \in Seq(Bid)
    BY <1>3 DEF Letter, Bid, IInv, TypeOK
  <2>3. bids'[n] = bids[n]
    BY <2>1, <2>2, AppendSeq
  <2>4. QED
    BY <2>3
<1>6. CASE l.action # "new"
  <2>1. n = l.row.appNo
    BY <1>2, <1>6 DEF Takes
  <2>2. bids[n].app = l.app
    BY <1>2, <1>3, <1>6, <2>1 DEF LetterAgrees, Takes, Buildable
  <2>3. QED
    BY <1>4, <2>2
<1>7. QED
    BY <1>5, <1>6

\* The book changes only on behalf of the application the bid belongs to.
THEOREM OwnBids == Spec => OnlyOwnBidTouched
<1>1. IInv /\ [Next]_vars =>
        [\A n \in DOMAIN bids : bids'[n] # bids[n] =>
            \E p \in Poster : poster'[p].pc = "answered" /\ poster'[p].cur.app = bids[n].app]_bids
    BY OwnBidStep
<1>2. QED
    BY <1>1, Invariance, PTL DEF Spec, OnlyOwnBidTouched

-----------------------------------------------------------------------------
(* BidLedger implements ExchangeBook.  Only two things the ledger does are *)
(* visible in the book: a rebid makes an application, and a call the       *)
(* exchange accepts places, revises or withdraws one bid.  That the call   *)
(* never withdraws a restricted bid is where IInv is needed.               *)

\* The book is instantiated with its own copy of the bid rules: the same ones.
LEMMA SameRules ==
    /\ Book!CategoryText = CategoryText
    /\ \A c : Book!BidRights(c) <=> BidRights(c)
BY DEF Book!CategoryText, CategoryText, Book!BidRights, BidRights,
       Book!NormaliseBidCategory, NormaliseBidCategory

\* The ledger starts in a book of live bids of applications that were made.
LEMMA InitBook == Init => Book!BookInit
<1> SUFFICES ASSUME Init PROVE Book!BookInit
    OBVIOUS
<1>1. TypeOK /\ RowsExist
    BY InitIInv DEF IInv
<1>2. ClassOf \in [App -> CategoryText \cup {"not made"}]
    BY <1>1 DEF ClassOf, TypeOK, Row
<1>3. ASSUME NEW n \in DOMAIN bids
      PROVE  Book!Made(bids[n].app) /\ bids[n].live
  <2>1. bids[n].app \in App /\ Exists(bids[n].app)
    BY <1>1, BidTyped DEF RowsExist, Bid
  <2>2. app[bids[n].app].category \in CategoryText
    BY <1>1, <2>1 DEF TypeOK, Row
  <2>3. "not made" \notin CategoryText
    BY DEF CategoryText
  <2>4. bids[n].live
    BY DEF Init
  <2>5. QED
    BY <2>1, <2>2, <2>3, <2>4 DEF Book!Made, Book!NotMade, ClassOf
<1>4. QED
    BY <1>2, <1>3, SameRules DEF Book!BookInit, Book!NotMade

\* An application that exists is Made, and Restricted says the same as Institutional.
LEMMA ClassMeaning ==
    ASSUME TypeOK, NEW a \in App
    PROVE  /\ Book!Made(a) <=> Exists(a)
           /\ Exists(a) => (Book!Restricted(a) <=> Institutional(a))
<1>1. app[a].category \in CategoryText
    BY DEF TypeOK, Row
<1>2. "not made" \notin CategoryText
    BY DEF CategoryText
<1>3. QED
    BY <1>1, <1>2, SameRules DEF Book!Made, Book!NotMade, Book!Restricted, ClassOf, Institutional

\* A rebid makes one application, in a category there is; nothing else makes any.
LEMMA ClassStep ==
    ASSUME IInv, [Next]_vars
    PROVE  \/ ClassOf' = ClassOf
           \/ \E a \in App, c \in CategoryText : Book!Make(a, c)
<1>1. Grows /\ TypeOK
    BY StepGrows DEF IInv
<1>2. CASE \A h \in Handler : ~CommitRebid(h)
  <2>1. ASSUME NEW a \in App
        PROVE  /\ Exists(a)' <=> Exists(a)
               /\ Exists(a) => app'[a].category = app[a].category
    <3>1. CASE Exists(a)
      BY <1>1, <3>1 DEF Grows, RowsGrow
    <3>2. CASE ~Exists(a)
      <4>1. app'[a] = app[a]
        BY <1>2, <3>2, NewRow
      <4>2. QED
        BY <3>2, <4>1 DEF Exists
    <3>3. QED
      BY <3>1, <3>2
  <2>2. QED
    BY <2>1 DEF ClassOf
<1>3. ASSUME NEW h \in Handler, CommitRebid(h)
      PROVE  \E a \in App, c \in CategoryText : Book!Make(a, c)
  <2> DEFINE r == handler[h].req
  <2>1. r \in Request /\ Exists(r.id) /\ r.id \in App
    BY <1>3, CommitAgrees DEF Commit, RequestAgrees, SameRow, Request
  <2>2. PICK fresh \in App :
          /\ ~Exists(fresh)
          /\ app' = [app EXCEPT ![r.id].status = "cancelled",
                                ![fresh] = FreshRow(r.snap, r.next, Len(ops) + 1)]
    BY <1>3 DEF CommitRebid, Exists
  <2> DEFINE row == FreshRow(r.snap, r.next, Len(ops) + 1)
  <2>3. row.status = "draft" /\ row.category = r.snap.category /\ r.snap.category \in CategoryText
    BY <2>1 DEF FreshRow, Request, Row
  <2> HIDE DEF row
  <2>4. /\ app'[fresh] = row
        /\ \A a \in App \ {fresh, r.id} : app'[a] = app[a]
        /\ app'[r.id].status = "cancelled"
        /\ app'[r.id].category = app[r.id].category
    <3>1. app \in [App -> Row] /\ fresh # r.id
      BY <1>1, <2>1, <2>2 DEF TypeOK
    <3>2. app' = [[app EXCEPT ![r.id].status = "cancelled"] EXCEPT ![fresh] = row]
      BY <2>2 DEF row
    <3>3. [app[r.id] EXCEPT !.status = "cancelled"].status = "cancelled"
      BY <2>1, <3>1 DEF Row
    <3>4. [app[r.id] EXCEPT !.status = "cancelled"].category = app[r.id].category
      BY <2>1, <3>1 DEF Row
    <3> HIDE DEF r
    <3>5. QED
      BY <2>1, <3>1, <3>2, <3>3, <3>4
  <2> HIDE DEF r
  <2>5. ~Book!Made(fresh)
    BY <1>1, <2>2, ClassMeaning
  <2>6. ASSUME NEW a \in App
        PROVE  ClassOf'[a] = IF a = fresh THEN row.category ELSE ClassOf[a]
    <3>1. CASE a = fresh
      BY <2>2, <2>3, <2>4, <3>1 DEF ClassOf, Exists
    <3>2. CASE a # fresh /\ a = r.id
      <4>1. app'[a].status # "none" /\ app[a].status # "none"
        BY <2>1, <2>4, <3>2 DEF Exists
      <4>2. QED
        BY <2>1, <2>4, <3>2, <4>1 DEF ClassOf, Exists
    <3>3. CASE a # fresh /\ a # r.id
      BY <2>4, <3>3 DEF ClassOf, Exists
    <3>4. QED
      BY <3>1, <3>2, <3>3
  <2>7. ClassOf' = [ClassOf EXCEPT ![fresh] = row.category]
    BY <2>6 DEF ClassOf
  <2>8. UNCHANGED bids
    BY <1>3 DEF CommitRebid
  <2>9. QED
    BY <2>3, <2>5, <2>7, <2>8 DEF Book!Make
<1>4. QED
    BY <1>2, <1>3

\* A call the exchange accepts is one move of the book.
LEMMA CallMoves ==
    ASSUME IInv, NEW p \in Poster, CallAccepted(p)
    PROVE  Book!BookNext
<1>1. PICK l, res : l \in poster[p].batch /\ Takes(l) /\ Answered(p, l, res)
    BY DEF CallAccepted
<1>2. l \in Letter /\ LetterAgrees(l) /\ TypeOK
    BY <1>1, BatchAgrees DEF CallAccepted, IInv
<1>3. l.app \in App /\ Exists(l.app) /\ l.qty \in 1 .. MaxQty
    BY <1>2 DEF Letter, LetterAgrees, SameRow, Qty
<1>4. ClassOf' = ClassOf
    BY DEF CallAccepted, ClassOf, Exists
<1>5. CASE l.action = "new"
  <2>1. Book!Place(l.app, l.qty)
    BY <1>1, <1>2, <1>3, <1>4, <1>5, ClassMeaning DEF Takes, Book!Place
  <2>2. QED
    BY <1>3, <2>1 DEF Book!BookNext
<1>6. CASE l.action # "new"
  <2> DEFINE n == l.row.appNo
  <2>1. n \in DOMAIN bids /\ bids[n].app = l.app
    BY <1>1, <1>2, <1>6 DEF Takes, Buildable, LetterAgrees
  <2>2. CASE l.action = "modify"
    <3>1. Book!Revise(n, l.qty)
      BY <1>1, <1>4, <2>2 DEF Takes, Book!Revise
    <3>2. QED
      BY <1>3, <2>1, <3>1 DEF Book!BookNext
  <2>3. CASE l.action = "cancel"
    <3>1. ~Institutional(bids[n].app)
      BY <1>2, <2>1, <2>3 DEF LetterAgrees
    <3>2. ~Book!Restricted(bids[n].app)
      BY <1>2, <1>3, <2>1, <3>1, ClassMeaning
    <3>3. Book!Withdraw(n)
      BY <1>1, <1>4, <2>3, <3>2 DEF Takes, Book!Withdraw
    <3>4. QED
      BY <2>1, <3>3 DEF Book!BookNext
  <2>4. QED
    BY <1>2, <1>6, <2>2, <2>3 DEF Letter, Action
<1>7. QED
    BY <1>5, <1>6

\* The ledger, with every copy, crash, overlap and lost answer, implements the
\* book: what the exchange sees is bids placed, revised and lawfully withdrawn.
THEOREM Refinement == Spec => ImplementsBook
<1>1. Init => Book!BookInit
    BY InitBook
<1>2. IInv /\ [Next]_vars => [Book!BookNext]_<<ClassOf, bids>>
  <2> SUFFICES ASSUME IInv, [Next]_vars
               PROVE  Book!BookNext \/ (ClassOf' = ClassOf /\ bids' = bids)
    OBVIOUS
  <2>1. CASE UNCHANGED bids
    BY <2>1, ClassStep, SameRules DEF Book!BookNext
  <2>2. CASE \E p \in Poster : CallAccepted(p)
    BY <2>2, CallMoves
  <2>3. QED
    BY <2>1, <2>2, BookChange
<1>3. QED
    BY <1>1, <1>2, Invariance, PTL DEF Spec, ImplementsBook, Book!BookSpec, Book!bookVars

-----------------------------------------------------------------------------
(* While no two requests about one bid overlap (Apart), what was queued    *)
(* for it and posted is what the exchange holds.  First: operations are    *)
(* posted in the order they were queued, and a quantity only moves by a    *)
(* request's own last step.                                                *)

\* Nothing queued before a letter was left out of the run that carries it.
InTurn ==
    \A p \in Poster : \A l \in Batch(p), i \in Due : i < l.op => \E m \in Letters(p) : m.op = i

-----------------------------------------------------------------------------
\* Quantities are numbers.
LEMMA QtyTypes ==
    ASSUME TypeOK
    PROVE  /\ \A a \in App : app[a].qty \in Nat
           /\ \A i \in DOMAIN ops : ops[i].qty \in Nat /\ ops[i].app \in App
           /\ \A n \in DOMAIN bids : bids[n].qty \in Nat /\ bids[n].app \in App
<1>1. Qty \subseteq Nat
  BY BoundsAssumption DEF Qty
<1>2. QED
  BY <1>1, OpTyped, BidTyped DEF TypeOK, Row, Op, Bid

\* New operations come after the old ones.
LEMMA NewComeLast ==
    ASSUME TypeOK, TypeOK', NEW i \in DOMAIN ops, NEW j \in DOMAIN ops', j \notin DOMAIN ops
    PROVE  i < j /\ i \in Nat /\ j \in Nat
BY LenProperties DEF TypeOK

\* No step makes an operation pending again.
LEMMA NoneReopened ==
    ASSUME IInv, [Next]_vars, NEW i \in DOMAIN ops, ops'[i].state = "pending"
    PROVE  ops[i].state = "pending"
<1>1. ops \in Seq(Op) /\ ops[i] \in Op /\ TypeOK
  BY OpTyped DEF IInv, TypeOK
<1>2. CASE UNCHANGED ops
  BY <1>2
<1>3. ASSUME NEW h \in Handler, Commit(h) PROVE ops[i].state = "pending"
  <2> DEFINE r == handler[h].req
  <2>1. r \in Request /\ r.id \in App /\ r.next \in Qty /\ r.snap \in Row
    BY <1>3, CommitAgrees DEF Request
  <2>2. r.snap.qty \in Qty
    BY <2>1, BoundsAssumption DEF Row, Qty
  <2>3. \A a \in App, action \in Action, q \in Qty : NewOp(a, action, q, r.snap) \in Op
    BY <2>1, NewOpType
  <2>4. CASE \E a \in App, action \in Action, q \in Qty : ops' = Append(ops, NewOp(a, action, q, r.snap))
    BY <1>1, <2>3, <2>4, AppendSeq
  <2>5. CASE \E n, q : ops' = [ops EXCEPT ![n].qty = q]
    BY <1>1, <2>5 DEF Op
  <2>6. CASE \E n : ops' = [ops EXCEPT ![n].state = "failed"]
    BY <1>1, <2>6 DEF Op
  <2>7. CASE CommitRebid(h)
    <3>1. PICK fresh \in App :
             ops' = ops \o <<NewOp(r.id, "cancel", r.snap.qty, r.snap), NewOp(fresh, "new", r.next, r.snap)>>
      BY <2>7 DEF CommitRebid
    <3>2. "cancel" \in Action /\ "new" \in Action
      BY DEF Action
    <3>3. QED
      BY <1>1, <2>1, <2>2, <2>3, <3>1, <3>2, AppendTwo
  <2>8. "new" \in Action /\ "modify" \in Action /\ "cancel" \in Action
    BY DEF Action
  <2>9. QED
    BY <1>3, <2>1, <2>2, <2>4, <2>5, <2>6, <2>7, <2>8
       DEF Commit, CommitNew, CommitModify, CommitCancel, CommitUpi
<1>4. ASSUME NEW p \in Poster, SaveAnswer(p) PROVE ops[i].state = "pending"
  BY <1>1, <1>4 DEF SaveAnswer, Op
<1>5. QED
  <2>1. UNCHANGED ops \/ (\E h \in Handler : Commit(h)) \/ (\E p \in Poster : SaveAnswer(p))
    BY DEF Next, vars, LoadSome, Load, FindPendingNew, Post, LoadBatch, CallAccepted, CallRefused, CallThrew, Crash
  <2>2. QED
    BY <1>2, <1>3, <1>4, <2>1

\* What waits to be sent is among what a poster holds.
LEMMA BatchHeld ==
    ASSUME NEW p \in Poster
    PROVE  Batch(p) \subseteq Letters(p) /\ Batch(p)' \subseteq Letters(p)'
BY DEF Batch, Letters

\* No operation that is due is passed over.
LEMMA InTurnStep ==
    ASSUME IInv, InTurn, [Next]_vars
    PROVE  InTurn'
<1>1. SUFFICES ASSUME NEW p \in Poster, NEW l \in Batch(p)', NEW i \in Due', i < l.op
               PROVE  \E m \in Letters(p)' : m.op = i
  BY DEF InTurn
<1>2. l.op \in DOMAIN ops /\ l \in Letters(p)'
  BY BatchHeld, LetterFrom DEF LetterAgrees
<1>3. TypeOK /\ TypeOK' /\ Grows
  BY StepGrows DEF IInv
<1>4. i \in DOMAIN ops
  BY <1>1, <1>2, <1>3, NewComeLast, LenProperties DEF Due, TypeOK
<1>5. i \in Due
  BY <1>1, <1>3, <1>4, NoneReopened DEF Due, Grows, OpsGrow
<1>6. l \in Batch(p) => \E m \in Letters(p) : m.op = i
  BY <1>1, <1>5 DEF InTurn
<1>7. CASE Letters(p)' = {LetterFor(j) : j \in Due}
  <2>1. LetterFor(i) \in Letters(p)' /\ LetterFor(i).op = i
    BY <1>5, <1>7 DEF LetterFor
  <2>2. QED
    BY <2>1
<1>8. CASE /\ SaveAnswer(p) /\ Letters(p)' = Batch(p) /\ Batch(p)' = Batch(p)
           /\ Letters(p) = Batch(p) \cup {poster[p].cur}
  <2>1. PICK m \in Letters(p) : m.op = i
    BY <1>6, <1>8
  <2>2. CASE m = poster[p].cur
    <3>1. ops' = [ops EXCEPT ![i].state = IF poster[p].res.ok THEN "posted" ELSE "failed"]
      BY <1>8, <2>1, <2>2 DEF SaveAnswer
    <3>2. ops[i] \in Op
      BY <1>3, <1>4, OpTyped
    <3>3. ops'[i].state # "pending"
      BY <1>4, <3>1, <3>2 DEF Op
    <3>4. QED
      BY <3>3 DEF Due
  <2>3. QED
    BY <1>8, <2>1, <2>2
<1>9. QED
  BY <1>6, <1>7, <1>8, LettersFrom

\* Only the last step of a request about an application changes its quantity.
LEMMA QtyKept ==
    ASSUME IInv, [Next]_vars, NEW a \in App, Exists(a),
           \A h \in Handler : Commit(h) => handler[h].req.id # a
    PROVE  app'[a].qty = app[a].qty
<1>1. app \in [App -> Row]
  BY DEF IInv, TypeOK
<1>2. \/ UNCHANGED app
      \/ \E p \in Poster : SaveAnswer(p)
      \/ \E h \in Handler : Commit(h)
  BY DEF Next, vars, LoadSome, Load, FindPendingNew, Post, LoadBatch, CallAccepted, CallRefused, CallThrew, Crash
<1>3. ASSUME NEW p \in Poster, SaveAnswer(p) PROVE app'[a].qty = app[a].qty
  BY <1>1, <1>3 DEF SaveAnswer, Row
<1>4. ASSUME NEW h \in Handler, Commit(h) PROVE app'[a] = app[a]
  <2>1. handler[h].req.id # a
    BY <1>4
  <2>2. CASE CommitRebid(h)
    BY <1>1, <2>1, <2>2 DEF CommitRebid, Exists
  <2>3. CASE ~CommitRebid(h)
    BY <1>1, <1>4, <2>1, <2>3 DEF Commit, CommitNew, CommitModify, CommitCancel, CommitUpi
  <2>4. QED
    BY <2>2, <2>3
<1>5. QED
  BY <1>2, <1>3, <1>4

\* A request's last step leaves it idle.
LEMMA CommitIdles ==
    ASSUME IInv, NEW h \in Handler, Commit(h)
    PROVE  handler'[h] = IdleHandler
BY DEF Commit, CommitNew, CommitModify, CommitCancel, CommitRebid, CommitUpi, Finish, IInv, TypeOK

\* While a request is under way and no other is about its bid, the quantity of
\* that bid stays.
LEMMA QtyHeld ==
    ASSUME Apart, IInv, [Next]_vars, NEW h \in Handler,
           handler[h] # IdleHandler, handler'[h] # IdleHandler
    PROVE  LET a == handler[h].req.id IN a \in App /\ app'[a].qty = app[a].qty
<1> DEFINE a == handler[h].req.id
<1>1. a \in App /\ Exists(a)
  <2>1. handler[h].req \in Request
    BY DEF IInv, TypeOK, HandlerState
  <2>2. QED
    BY <2>1 DEF Request, IInv, RequestsAgree, RequestAgrees, SameRow
<1>2. ASSUME NEW g \in Handler, Commit(g), handler[g].req.id = a PROVE FALSE
  <2>1. handler[g] # IdleHandler
    <3>1. handler[g].pc = "ready"
      BY <1>2 DEF Commit, CommitNew, CommitModify, CommitCancel, CommitRebid, CommitUpi
    <3>2. QED
      BY <3>1 DEF IdleHandler
  <2>2. g = h
    BY <1>2, <2>1 DEF Apart
  <2>3. QED
    BY <1>2, <2>2, CommitIdles
<1> HIDE DEF a
<1>3. app'[a].qty = app[a].qty
  BY <1>1, <1>2, QtyKept DEF a
<1>4. QED
  BY <1>1, <1>3 DEF a

\* Which step writes what a request holds.
LEMMA HandlerChange ==
    ASSUME IInv, [Next]_vars, NEW h \in Handler
    PROVE  handler'[h] = handler[h] \/ handler'[h] = IdleHandler \/ LoadSome(h) \/ FindPendingNew(h)
<1>1. handler \in [Handler -> HandlerState \cup {IdleHandler}]
  BY DEF IInv, TypeOK
<1>2. ASSUME NEW g \in Handler, LoadSome(g) \/ FindPendingNew(g) \/ Commit(g)
      PROVE  handler'[h] = handler[h] \/ g = h
  BY <1>1, <1>2 DEF LoadSome, Load, FindPendingNew, Commit, CommitNew, CommitModify,
     CommitCancel, CommitRebid, CommitUpi, Finish
<1>3. \/ UNCHANGED handler
      \/ \E g \in Handler : LoadSome(g) \/ FindPendingNew(g) \/ Commit(g)
      \/ handler'[h] = IdleHandler
  BY DEF Next, vars, Post, LoadBatch, CallAccepted, CallRefused, CallThrew, SaveAnswer, Crash
<1>4. QED
  BY <1>2, <1>3, CommitIdles

\* Nothing is under way at the start, and a step of ApartSpec is a step of Spec
\* that keeps requests about one bid apart.
LEMMA InitApart == Init => Apart
BY DEF Init, Apart

LEMMA ApartKept ==
    ASSUME Apart, [Next /\ Apart']_vars
    PROVE  [Next]_vars /\ Apart'
<1>1. UNCHANGED vars => Apart'
  BY DEF vars, Apart
<1>2. QED
  BY <1>1

\* At the start nobody holds a letter.
LEMMA InitInTurn == Init => InTurn
BY DEF Init, InTurn, Batch

-----------------------------------------------------------------------------
\* An application has one number.
PlacedOnce == \A m, n \in DOMAIN Placed : Placed[m] = Placed[n] => m = n

Of(a) == {i \in DOMAIN ops : ops[i].app = a}
Revisions(a) == {i \in Of(a) : ops[i].action = "modify"}
Withdrawals(a) == {i \in Of(a) : ops[i].action = "cancel"}

\* Nothing that was queued for a has failed, and it was never queued as new.
Clean(a) == \A i \in Of(a) : ops[i].state # "failed" /\ ops[i].action # "new"

\* What poster p was told, and has not written yet: the exchange did this to a.
Done(p, a, action) ==
    /\ poster[p].pc = "answered" /\ poster[p].res.ok
    /\ poster[p].cur.app = a /\ poster[p].cur.action = action

PlacedHeld ==
    \A n \in DOMAIN Placed : n \in DOMAIN bids /\ bids[n].app = Placed[n] /\ app[Placed[n]].routed

\* Only the poster settles a revision or a withdrawal, so its copy stays true.
LetterTrue(l) ==
    /\ l.action = ops[l.op].action
    /\ l.action # "new" => l.qty = ops[l.op].qty /\ ops[l.op].state = "pending"
LettersTrue == \A p \in Poster : \A l \in Letters(p) : LetterTrue(l)

OneLetterEach ==
    \A p \in Poster : /\ \A l, m \in Letters(p) : l.op = m.op => l = m
                      /\ poster[p].pc = "answered" => poster[p].cur \notin poster[p].batch

\* Nothing that is due was queued before what is being settled.
CurFirst == \A p \in Poster : poster[p].pc = "answered" => \A i \in Due : poster[p].cur.op <= i

RequestsFit ==
    \A h \in Handler : handler[h] # IdleHandler =>
        LET r == handler[h].req
        IN  /\ r.pend # 0 => r.pend \in DOMAIN ops /\ ops[r.pend].app = r.id /\ ops[r.pend].action = "new"
            /\ r.kind = "upi" => r.next = app[r.id].qty

\* What is queued for a was posted in its order, the row has the quantity of the
\* last revision, and it is cancelled if a withdrawal was queued.
QueueFits(a) ==
    /\ \A i, j \in Of(a) : i < j /\ ops[j].state = "posted" => ops[i].state = "posted"
    /\ \A i \in Revisions(a) : (\A j \in Revisions(a) : j <= i) => ops[i].qty = app[a].qty
    /\ app[a].status = "cancelled" <=> Withdrawals(a) # {}

\* Bid n is the only one of a, it has the quantity of the row once all revisions
\* were posted, and it is withdrawn by what is or will be written as posted.
BidFits(n, a) ==
    /\ \A m \in DOMAIN bids : bids[m].app = a => m = n
    /\ (\A i \in Revisions(a) : ops[i].state = "posted") /\ bids[n].live => bids[n].qty = app[a].qty
    /\ ~bids[n].live => Withdrawals(a) # {}
    /\ \A i \in Withdrawals(a) : ops[i].state = "posted" => ~bids[n].live
    /\ \A p \in Poster : /\ Done(p, a, "modify") /\ bids[n].live => bids[n].qty = poster[p].cur.qty
                         /\ Done(p, a, "cancel") => ~bids[n].live

AllFit == \A n \in DOMAIN Placed : Clean(Placed[n]) => QueueFits(Placed[n]) /\ BidFits(n, Placed[n])

FitInv == PlacedHeld /\ LettersTrue /\ OneLetterEach /\ CurFirst /\ RequestsFit /\ AllFit

\* What a step may do to the queue and the row of one application.
SameOps(a) == Of(a) \subseteq Of(a)' /\ \A i \in Of(a) : ops'[i] = ops[i]
Kept(a) ==
    /\ SameOps(a) /\ Of(a)' = Of(a)
    /\ app'[a].qty = app[a].qty /\ app'[a].status = app[a].status
Added(a, action) ==
    /\ SameOps(a) /\ Of(a)' = Of(a) \cup {Len(ops) + 1} /\ Len(ops) + 1 \notin Of(a)
    /\ ops'[Len(ops) + 1].action = action /\ ops'[Len(ops) + 1].state = "pending"
Revised(a) ==
    /\ Added(a, "modify") /\ ops'[Len(ops) + 1].qty = app'[a].qty
    /\ app'[a].status = app[a].status
Withdrawn(a) ==
    /\ Added(a, "cancel") /\ app'[a].qty = app[a].qty
    /\ app'[a].status = "cancelled"
Settled(a, p) ==
    LET l == poster[p].cur
    IN  /\ SaveAnswer(p) /\ l.app = a /\ poster[p].res.ok
        /\ l.op \in Of(a) /\ Of(a)' = Of(a)
        /\ \A i \in Of(a) : /\ ops'[i].action = ops[i].action /\ ops'[i].qty = ops[i].qty
                            /\ ops'[i].state = IF i = l.op THEN "posted" ELSE ops[i].state
        /\ app'[a].qty = app[a].qty /\ app'[a].status = app[a].status

-----------------------------------------------------------------------------
\* One operation added, seen from one application.
LEMMA AddedFor ==
    ASSUME TypeOK, NEW op \in Op, ops' = Append(ops, op), NEW a \in App
    PROVE  /\ SameOps(a) /\ Len(ops) + 1 \notin Of(a)
           /\ Of(a)' = IF op.app = a THEN Of(a) \cup {Len(ops) + 1} ELSE Of(a)
           /\ ops'[Len(ops) + 1] = op
<1>1. ops \in Seq(Op) /\ Len(ops) \in Nat /\ DOMAIN ops = 1 .. Len(ops)
  BY LenProperties DEF TypeOK
<1>2. /\ DOMAIN ops' = DOMAIN ops \cup {Len(ops) + 1}
      /\ \A j \in DOMAIN ops : ops'[j] = ops[j]
      /\ ops'[Len(ops) + 1] = op
  BY <1>1, AppendSeq
<1>3. Len(ops) + 1 \notin DOMAIN ops
  BY <1>1
<1>4. QED
  BY <1>2, <1>3 DEF SameOps, Of

\* A request's last step, seen from an application nothing of which has failed.
LEMMA CommitFor ==
    ASSUME IInv, RequestsFit, NEW h \in Handler, Commit(h), NEW a \in App, Exists(a), Clean(a)'
    PROVE  (Kept(a) \/ Revised(a) \/ Withdrawn(a)) /\ UNCHANGED <<bids, poster>>
<1> DEFINE r == handler[h].req
           op(action, qty) == NewOp(r.id, action, qty, r.snap)
<1>0. TypeOK /\ app \in [App -> Row]
  BY DEF IInv, TypeOK
<1>1. r \in Request /\ r.id \in App /\ r.next \in Qty /\ r.snap \in Row /\ r.snap.qty \in Qty
  BY CommitAgrees DEF Request, Row
<1>2. /\ r.pend # 0 => r.pend \in DOMAIN ops /\ ops[r.pend].app = r.id /\ ops[r.pend].action = "new"
      /\ r.kind = "upi" => r.next = app[r.id].qty
  <2>1. handler[h].pc = "ready"
    BY DEF Commit, CommitNew, CommitModify, CommitCancel, CommitRebid, CommitUpi
  <2>2. QED
    BY <2>1 DEF RequestsFit, IdleHandler
<1>3. \A action \in Action, q \in Qty :
         op(action, q) \in Op /\ op(action, q).app = r.id /\ op(action, q).action = action
         /\ op(action, q).qty = q /\ op(action, q).state = "pending"
  BY <1>1, NewOpType DEF NewOp
<1>4. UNCHANGED <<bids, poster>>
  BY DEF Commit, CommitNew, CommitModify, CommitCancel, CommitRebid, CommitUpi
<1> HIDE DEF op
<1>5. ASSUME NEW action \in Action, NEW q \in Qty, ops' = Append(ops, op(action, q))
      PROVE  /\ a # r.id => SameOps(a) /\ Of(a)' = Of(a)
             /\ a = r.id => /\ Added(a, action) /\ action # "new"
                            /\ ops'[Len(ops) + 1].qty = q
  <2>1. op(action, q) \in Op /\ op(action, q).app = r.id
    BY <1>3
  <2>2. /\ SameOps(a) /\ Len(ops) + 1 \notin Of(a)
        /\ Of(a)' = IF r.id = a THEN Of(a) \cup {Len(ops) + 1} ELSE Of(a)
        /\ ops'[Len(ops) + 1] = op(action, q)
    BY <1>0, <1>5, <2>1, AddedFor
  <2>3. a = r.id => action # "new"
    BY <1>3, <2>2 DEF Clean
  <2>4. QED
    BY <1>3, <2>2, <2>3 DEF Added
<1>6. ASSUME NEW e, r.pend # 0, ops' = [ops EXCEPT ![r.pend] = e], e.app = r.id, e.action = "new"
      PROVE  a # r.id /\ SameOps(a) /\ Of(a)' = Of(a)
  <2>1. ops \in Seq(Op)
    BY <1>0 DEF TypeOK
  <2>2. DOMAIN ops' = DOMAIN ops /\ \A j \in DOMAIN ops : ops'[j] = IF j = r.pend THEN e ELSE ops[j]
    BY <1>2, <1>6, <2>1
  <2>3. a # r.id
    BY <1>2, <1>6, <2>2 DEF Clean, Of
  <2>4. QED
    BY <1>2, <1>6, <2>2, <2>3 DEF SameOps, Of
<1>7. {"new", "modify", "cancel"} = Action
  BY DEF Action
<1>8. CASE CommitNew(h)
  <2>1. ops' = Append(ops, op("new", r.next)) /\ UNCHANGED app
    BY <1>8 DEF CommitNew, op
  <2>2. QED
    BY <1>1, <1>4, <1>5, <1>7, <2>1 DEF Kept
<1>9. CASE CommitModify(h)
  <2>1. app' = [app EXCEPT ![r.id].qty = r.next]
    BY <1>9 DEF CommitModify
  <2>2. /\ a # r.id => app'[a] = app[a]
        /\ a = r.id => app'[a].qty = r.next /\ app'[a].status = app[a].status
    BY <1>0, <1>1, <2>1 DEF Row
  <2>3. CASE r.pend # 0 /\ ops' = [ops EXCEPT ![r.pend].qty = r.next]
    <3> DEFINE e == [ops[r.pend] EXCEPT !.qty = r.next]
    <3>1. ops' = [ops EXCEPT ![r.pend] = e] /\ e.app = r.id /\ e.action = "new"
      BY <1>0, <1>2, <2>3, OpTyped DEF Op
    <3> HIDE DEF e
    <3>2. QED
      BY <1>4, <1>6, <2>2, <2>3, <3>1 DEF Kept
  <2>4. CASE ops' = Append(ops, op("modify", r.next))
    BY <1>1, <1>4, <1>5, <1>7, <2>2, <2>4 DEF Kept, Revised
  <2>5. QED
    BY <1>9, <2>3, <2>4 DEF CommitModify, op
<1>10. CASE CommitCancel(h)
  <2>1. app' = [app EXCEPT ![r.id].status = "cancelled"]
    BY <1>10 DEF CommitCancel
  <2>2. /\ a # r.id => app'[a] = app[a]
        /\ a = r.id => app'[a].qty = app[a].qty /\ app'[a].status = "cancelled"
    BY <1>0, <1>1, <2>1 DEF Row
  <2>3. CASE r.pend # 0 /\ ops' = [ops EXCEPT ![r.pend].state = "failed"]
    <3> DEFINE e == [ops[r.pend] EXCEPT !.state = "failed"]
    <3>1. ops' = [ops EXCEPT ![r.pend] = e] /\ e.app = r.id /\ e.action = "new"
      BY <1>0, <1>2, <2>3, OpTyped DEF Op
    <3> HIDE DEF e
    <3>2. QED
      BY <1>4, <1>6, <2>2, <2>3, <3>1 DEF Kept
  <2>4. CASE ops' = Append(ops, op("cancel", r.snap.qty))
    BY <1>1, <1>4, <1>5, <1>7, <2>2, <2>4 DEF Kept, Withdrawn
  <2>5. QED
    BY <1>10, <2>3, <2>4 DEF CommitCancel, op
<1>11. CASE CommitUpi(h)
  <2>1. ops' = Append(ops, op("modify", r.next)) /\ UNCHANGED app /\ r.kind = "upi"
    BY <1>11 DEF CommitUpi, op
  <2>2. QED
    BY <1>1, <1>2, <1>4, <1>5, <1>7, <2>1 DEF Kept, Revised
<1>12. CASE CommitRebid(h)
  <2>1. PICK fresh \in App :
          /\ ~Exists(fresh)
          /\ app' = [app EXCEPT ![r.id].status = "cancelled",
                                ![fresh] = FreshRow(r.snap, r.next, Len(ops) + 1)]
          /\ ops' = ops \o <<op("cancel", r.snap.qty), NewOp(fresh, "new", r.next, r.snap)>>
    BY <1>12 DEF CommitRebid, Exists, op
  <2> DEFINE newOp == NewOp(fresh, "new", r.next, r.snap)
             cancelOp == op("cancel", r.snap.qty)
             old == [app[r.id] EXCEPT !.status = "cancelled"]
             row == FreshRow(r.snap, r.next, Len(ops) + 1)
  <2>2. newOp \in Op /\ newOp.app = fresh
    BY <1>1, NewOpType DEF NewOp, Action
  <2>3. /\ cancelOp \in Op /\ cancelOp.app = r.id /\ cancelOp.action = "cancel"
        /\ cancelOp.state = "pending"
    BY <1>1, <1>3, <1>7
  <2>4. fresh # a
    BY <2>1
  <2>5. old.qty = app[r.id].qty /\ old.status = "cancelled"
    BY <1>0, <1>1 DEF Row
  <2>6. ops' = ops \o <<cancelOp, newOp>> /\ app' = [app EXCEPT ![r.id] = old, ![fresh] = row]
    BY <2>1
  <2> HIDE DEF newOp, cancelOp, old, row, r
  <2>7. /\ DOMAIN ops' = DOMAIN ops \cup {Len(ops) + 1, Len(ops) + 2}
        /\ \A j \in DOMAIN ops : ops'[j] = ops[j]
        /\ ops'[Len(ops) + 1] = cancelOp /\ ops'[Len(ops) + 2] = newOp
    BY <1>0, <2>2, <2>3, <2>6, AppendTwo DEF TypeOK
  <2>8. Len(ops) \in Nat /\ DOMAIN ops = 1 .. Len(ops)
    BY <1>0, LenProperties DEF TypeOK
  <2>9. Len(ops) + 1 \notin DOMAIN ops /\ Len(ops) + 2 \notin DOMAIN ops
    BY <2>8
  <2>10. Of(a)' = IF a = r.id THEN Of(a) \cup {Len(ops) + 1} ELSE Of(a)
    BY <2>2, <2>3, <2>4, <2>7, <2>9 DEF Of
  <2>11. SameOps(a) /\ Len(ops) + 1 \notin Of(a)
    BY <2>7, <2>9 DEF SameOps, Of
  <2>12. /\ a # r.id => app'[a] = app[a]
         /\ a = r.id => app'[a].qty = app[a].qty /\ app'[a].status = "cancelled"
    BY <1>0, <1>1, <2>4, <2>5, <2>6
  <2>13. QED
    BY <1>4, <2>3, <2>7, <2>10, <2>11, <2>12 DEF Kept, Withdrawn, Added
<1>13. QED
  BY <1>8, <1>9, <1>10, <1>11, <1>12 DEF Commit

\* What postOne writes, seen from an application nothing of which has failed.
LEMMA SaveFor ==
    ASSUME IInv, LettersTrue, NEW p \in Poster, SaveAnswer(p), NEW a \in App, Clean(a)'
    PROVE  Clean(a) /\ (Kept(a) \/ Settled(a, p))
<1> DEFINE l == poster[p].cur
           state == IF poster[p].res.ok THEN "posted" ELSE "failed"
           i == l.op
           e == [ops[i] EXCEPT !.state = state]
<1>0. TypeOK /\ ops \in Seq(Op) /\ app \in [App -> Row]
  BY DEF IInv, TypeOK
<1>1. poster[p].pc = "answered" /\ l \in Letters(p) /\ l \in Letter
  <2>1. poster[p].pc = "answered"
    BY DEF SaveAnswer
  <2>2. l \in Letters(p)
    BY <2>1 DEF Letters, IdlePoster
  <2>3. l \in Letter
    BY <1>0, <2>1, AnswerTyped
  <2>4. QED
    BY <2>1, <2>2, <2>3
<1>2. i \in DOMAIN ops /\ ops[i].app = l.app /\ LetterTrue(l)
  BY <1>1 DEF IInv, PostersAgree, LetterAgrees, LettersTrue
<1>3. ops[i] \in Op
  BY <1>0, <1>2, OpTyped
<1>4. /\ e \in Op /\ e.app = l.app /\ e.action = ops[i].action /\ e.qty = ops[i].qty
      /\ e.state = state
  BY <1>2, <1>3 DEF Op
<1>5. ops' = [ops EXCEPT ![i] = e]
  BY DEF SaveAnswer
<1> HIDE DEF e
<1>6. DOMAIN ops' = DOMAIN ops /\ \A j \in DOMAIN ops : ops'[j] = IF j = i THEN e ELSE ops[j]
  BY <1>0, <1>4, <1>5, UpdateSeq
<1>7. Of(a)' = Of(a)
  BY <1>2, <1>4, <1>6 DEF Of
<1>8. CASE l.app # a
  <2>1. app'[a] = app[a]
    BY <1>0, <1>8 DEF SaveAnswer
  <2>2. i \notin Of(a)
    BY <1>2, <1>8 DEF Of
  <2>3. \A j \in Of(a) : ops'[j] = ops[j]
    BY <1>6, <2>2 DEF Of
  <2>4. QED
    BY <1>7, <2>1, <2>3 DEF Clean, Kept, SameOps
<1>9. CASE l.app = a
  <2>1. i \in Of(a)
    BY <1>2, <1>9 DEF Of
  <2>2. ops'[i] = e /\ e.state # "failed" /\ e.action # "new"
    BY <1>2, <1>6, <1>7, <2>1 DEF Clean
  <2>3. poster[p].res.ok /\ l.action # "new" /\ ops[i].state = "pending"
    BY <1>2, <1>4, <2>2 DEF LetterTrue
  <2>4. UNCHANGED app
    BY <2>3 DEF SaveAnswer
  <2>5. \A j \in Of(a) : /\ ops'[j].action = ops[j].action /\ ops'[j].qty = ops[j].qty
                         /\ ops'[j].state = IF j = i THEN "posted" ELSE ops[j].state
    BY <1>4, <1>6, <2>3 DEF Of
  <2>6. Clean(a)
    BY <1>7, <2>3, <2>5 DEF Clean
  <2>7. QED
    BY <1>7, <1>9, <2>1, <2>3, <2>4, <2>5, <2>6 DEF Settled
<1>10. QED
  BY <1>8, <1>9

\* A request's last step leaves what is not the "new" row it found.
LEMMA CommitKeeps ==
    ASSUME IInv, RequestsFit, NEW h \in Handler, Commit(h),
           NEW i \in DOMAIN ops, ops[i].action # "new"
    PROVE  ops'[i] = ops[i]
<1> DEFINE r == handler[h].req
<1>1. TypeOK /\ ops \in Seq(Op) /\ Len(ops) \in Nat /\ DOMAIN ops = 1 .. Len(ops)
  BY LenProperties DEF IInv, TypeOK
<1>2. handler[h].pc = "ready"
  BY DEF Commit, CommitNew, CommitModify, CommitCancel, CommitRebid, CommitUpi
<1>3. r.pend # 0 => r.pend \in DOMAIN ops /\ ops[r.pend].action = "new"
  BY <1>2 DEF RequestsFit, IdleHandler
<1>4. ASSUME NEW e, ops' = Append(ops, e) PROVE ops'[i] = ops[i]
  BY <1>1, <1>4
<1>5. ASSUME NEW e, r.pend # 0, ops' = [ops EXCEPT ![r.pend] = e] PROVE ops'[i] = ops[i]
  BY <1>1, <1>3, <1>5
<1>6. ASSUME NEW e, NEW f, ops' = ops \o <<e, f>> PROVE ops'[i] = ops[i]
  BY <1>1, <1>6
<1>7. CASE CommitNew(h) \/ CommitUpi(h)
  BY <1>4, <1>7 DEF CommitNew, CommitUpi
<1>8. CASE CommitModify(h) \/ CommitCancel(h)
  BY <1>4, <1>5, <1>8 DEF CommitModify, CommitCancel
<1>9. CASE CommitRebid(h)
  BY <1>6, <1>9 DEF CommitRebid
<1>10. QED
  BY <1>7, <1>8, <1>9 DEF Commit

\* Which steps write the queue or the rows.
LEMMA QueueChange ==
    ASSUME [Next]_vars
    PROVE  \/ UNCHANGED <<app, ops>>
           \/ \E h \in Handler : Commit(h)
           \/ \E p \in Poster : SaveAnswer(p)
BY DEF Next, vars, LoadSome, Load, FindPendingNew, Post, LoadBatch, CallAccepted,
   CallRefused, CallThrew, Crash

\* A revision or a withdrawal, once queued, changes only when its answer is written.
LEMMA Steady ==
    ASSUME IInv, RequestsFit, [Next]_vars, NEW i \in DOMAIN ops, ops[i].action # "new"
    PROVE  /\ i \in DOMAIN ops' /\ ops'[i].action = ops[i].action /\ ops'[i].qty = ops[i].qty
           /\ \/ ops'[i].state = ops[i].state
              \/ \E p \in Poster : SaveAnswer(p) /\ poster[p].cur.op = i
<1>1. TypeOK /\ Grows /\ ops[i] \in Op /\ ops \in Seq(Op)
  BY StepGrows, OpTyped DEF IInv, TypeOK
<1>2. ASSUME NEW p \in Poster, SaveAnswer(p)
      PROVE  ops'[i].qty = ops[i].qty /\ (ops'[i].state = ops[i].state \/ poster[p].cur.op = i)
  BY <1>1, <1>2 DEF SaveAnswer, Op
<1>3. QED
  BY <1>1, <1>2, QueueChange, CommitKeeps DEF Grows, OpsGrow

-----------------------------------------------------------------------------
\* Once an answer is written, a poster has only what is still to be sent.
LEMMA SaveLetters ==
    ASSUME IInv, NEW p \in Poster, SaveAnswer(p)
    PROVE  /\ Letters(p) = poster[p].batch \cup {poster[p].cur}
           /\ Letters(p)' = poster[p].batch
<1>1. poster \in [Poster -> PosterState \cup {IdlePoster}]
  BY DEF IInv, TypeOK
<1>2. poster[p].pc = "answered"
  BY DEF SaveAnswer
<1>3. poster'[p] = IF poster[p].batch = {} THEN IdlePoster
                   ELSE [pc |-> "posting", batch |-> poster[p].batch]
  BY <1>1 DEF SaveAnswer, RestOf
<1>4. QED
  BY <1>2, <1>3 DEF Letters, IdlePoster

\* Where an answer in the hands of a poster comes from.
LEMMA AnsweredFrom ==
    ASSUME IInv, [Next]_vars, NEW p \in Poster, poster'[p].pc = "answered"
    PROVE  \/ poster'[p] = poster[p]
           \/ \E l, res :
                /\ l \in poster[p].batch /\ poster[p].pc = "posting" /\ First(poster[p].batch, l)
                /\ poster'[p] = [pc |-> "answered", batch |-> poster[p].batch \ {l}, cur |-> l, res |-> res]
                /\ UNCHANGED <<app, ops>>
                /\ (CallAccepted(p) /\ Takes(l)) \/ (UNCHANGED bids /\ ~res.ok)
<1>1. poster \in [Poster -> PosterState \cup {IdlePoster}] /\ poster'[p] # IdlePoster
  BY DEF IInv, TypeOK, IdlePoster
<1>2. CASE LoadBatch(p) \/ SaveAnswer(p)
  <2>1. poster'[p] = IdlePoster \/ poster'[p].pc = "posting"
    BY <1>1, <1>2 DEF LoadBatch, SaveAnswer, RestOf
  <2>2. QED
    BY <1>1, <2>1
<1>3. CASE CallRefused(p) \/ CallThrew(p)
  <2>1. PICK l \in poster[p].batch, res \in {Refusal, Threw} :
          First(poster[p].batch, l) /\ Answered(p, l, res)
    BY <1>3 DEF CallRefused, CallThrew
  <2>2. /\ poster'[p] = [pc |-> "answered", batch |-> poster[p].batch \ {l}, cur |-> l, res |-> res]
        /\ ~res.ok /\ poster[p].pc = "posting" /\ UNCHANGED <<app, ops, bids>>
    BY <1>1, <1>3, <2>1 DEF Answered, Refusal, Threw, CallRefused, CallThrew
  <2>3. QED
    BY <2>1, <2>2
<1>4. CASE CallAccepted(p)
  <2>1. PICK l \in poster[p].batch : /\ First(poster[p].batch, l) /\ Takes(l)
                                     /\ \E res \in Acceptance(l) \cup {Threw} : Answered(p, l, res)
    BY <1>4 DEF CallAccepted
  <2>2. PICK res : Answered(p, l, res)
    BY <2>1
  <2>3. /\ poster'[p] = [pc |-> "answered", batch |-> poster[p].batch \ {l}, cur |-> l, res |-> res]
        /\ poster[p].pc = "posting" /\ UNCHANGED <<app, ops>>
    BY <1>1, <1>4, <2>2 DEF Answered, CallAccepted
  <2>4. QED
    BY <1>4, <2>1, <2>3
<1>5. QED
  BY <1>1, <1>2, <1>3, <1>4, PosterChange DEF Post, IInv

\* Every step keeps one letter for an operation and none for what was answered.
LEMMA OneLetterStep ==
    ASSUME IInv, OneLetterEach, [Next]_vars
    PROVE  OneLetterEach'
<1>1. ASSUME NEW p \in Poster, NEW l \in Letters(p)', NEW m \in Letters(p)', l.op = m.op
      PROVE  l = m
  <2>1. Letters(p)' \subseteq Letters(p) \/ Letters(p)' = {LetterFor(i) : i \in Due}
    BY LettersFrom
  <2>2. CASE Letters(p)' \subseteq Letters(p)
    BY <1>1, <2>2 DEF OneLetterEach
  <2>3. CASE Letters(p)' = {LetterFor(i) : i \in Due}
    BY <1>1, <2>3 DEF LetterFor
  <2>4. QED
    BY <2>1, <2>2, <2>3
<1>2. ASSUME NEW p \in Poster, poster'[p].pc = "answered"
      PROVE  poster'[p].cur \notin poster'[p].batch
  <2>1. CASE poster'[p] = poster[p]
    BY <1>2, <2>1 DEF OneLetterEach
  <2>2. CASE \E l, res : poster'[p] =
          [pc |-> "answered", batch |-> poster[p].batch \ {l}, cur |-> l, res |-> res]
    BY <2>2
  <2>3. QED
    BY <1>2, <2>1, <2>2, AnsweredFrom
<1>3. QED
  BY <1>1, <1>2 DEF OneLetterEach

\* While one run posts at a time, a letter is as true as when it was made until it is answered.
LEMMA LettersTrueStep ==
    ASSUME Apart, IInv, LettersTrue, OneLetterEach, RequestsFit, [Next]_vars
    PROVE  LettersTrue'
<1>1. SUFFICES ASSUME NEW p \in Poster, NEW l \in Letters(p)'
               PROVE  /\ l.action = ops'[l.op].action
                      /\ l.action # "new" => l.qty = ops'[l.op].qty /\ ops'[l.op].state = "pending"
  BY DEF LettersTrue, LetterTrue
<1>2. l.op \in DOMAIN ops /\ Grows
  BY LetterFrom, StepGrows DEF LetterAgrees, IInv
<1>3. LetterTrue(l)
  BY LetterFrom DEF LettersTrue, LetterTrue, LetterFor, Due
<1>4. l.action = ops[l.op].action /\ ops'[l.op].action = ops[l.op].action
  BY <1>2, <1>3 DEF LetterTrue, Grows, OpsGrow
<1>5. CASE l.action = "new"
  BY <1>4, <1>5
<1>6. CASE l.action # "new"
  <2>1. ops'[l.op].qty = ops[l.op].qty
    BY <1>2, <1>4, <1>6, Steady
  <2>2. ASSUME NEW q \in Poster, SaveAnswer(q), poster[q].cur.op = l.op
        PROVE  FALSE
    <3>1. q = p
      <4>1. poster[q] # IdlePoster
        <5>1. poster[q].pc = "answered"
          BY <2>2 DEF SaveAnswer
        <5>2. QED
          BY <5>1 DEF IdlePoster
      <4>2. poster[p] # IdlePoster \/ LoadBatch(p)
        <5>1. poster[p] = IdlePoster => Letters(p) = {}
          BY DEF Letters
        <5>2. Letters(p) # {} \/ LoadBatch(p)
          BY LettersFrom
        <5>3. QED
          BY <5>1, <5>2
      <4>3. ~LoadBatch(p)
        <5>1. poster \in [Poster -> PosterState \cup {IdlePoster}] /\ poster[q].pc = "answered"
          BY <2>2 DEF IInv, TypeOK, SaveAnswer
        <5>2. poster'[q].pc # "answered"
          BY <2>2, <5>1 DEF SaveAnswer, RestOf, IdlePoster
        <5>3. LoadBatch(p) => poster[p] = IdlePoster /\ (q # p => poster'[q] = poster[q])
          BY <5>1 DEF LoadBatch
        <5>4. QED
          BY <5>1, <5>2, <5>3 DEF IdlePoster
      <4>4. QED
        BY <4>1, <4>2, <4>3 DEF Apart
    <3>2. l \in poster[p].batch /\ l \in Letters(p) /\ poster[p].cur \in Letters(p)
      BY <2>2, <3>1, SaveLetters
    <3>3. poster[p].pc = "answered"
      BY <2>2, <3>1 DEF SaveAnswer
    <3>4. QED
      BY <2>2, <3>1, <3>2, <3>3 DEF OneLetterEach
  <2>3. ops'[l.op].state = ops[l.op].state
    BY <1>2, <1>4, <1>6, <2>2, Steady
  <2>4. QED
    BY <1>3, <1>4, <1>6, <2>1, <2>3 DEF LetterTrue
<1>7. QED
  BY <1>5, <1>6

\* What is due was not queued before what is being settled.
LEMMA CurFirstStep ==
    ASSUME IInv, InTurn, CurFirst, [Next]_vars
    PROVE  CurFirst'
<1>1. SUFFICES ASSUME NEW p \in Poster, poster'[p].pc = "answered", NEW i \in Due'
               PROVE  poster'[p].cur.op <= i
  BY DEF CurFirst
<1>2. TypeOK /\ TypeOK' /\ Grows
  BY StepGrows DEF IInv
<1>3. CASE poster'[p] = poster[p]
  <2>1. poster[p].cur \in Letters(p)
    BY <1>1, <1>3 DEF Letters, IdlePoster
  <2>2. poster[p].cur.op \in DOMAIN ops
    BY <2>1 DEF IInv, PostersAgree, LetterAgrees
  <2>3. CASE i \in DOMAIN ops
    <3>1. i \in Due
      BY <1>1, <1>2, <2>3, NoneReopened DEF Due, Grows, OpsGrow
    <3>2. QED
      BY <1>1, <1>3, <3>1 DEF CurFirst
  <2>4. CASE i \notin DOMAIN ops
    <3>1. poster[p].cur.op < i /\ poster[p].cur.op \in Nat /\ i \in Nat
      BY <1>2, <2>2, <2>4, NewComeLast DEF Due
    <3>2. QED
      BY <1>3, <3>1
  <2>5. QED
    BY <2>3, <2>4
<1>4. ASSUME NEW l \in poster[p].batch, poster[p].pc = "posting", First(poster[p].batch, l),
             poster'[p].cur = l, UNCHANGED ops
      PROVE  l.op <= i
  <2>1. l \in Batch(p) /\ Letters(p) = poster[p].batch
    BY <1>4 DEF Batch, Letters, IdlePoster
  <2>2. i \in Due
    BY <1>4 DEF Due
  <2>3. l.op \in Nat /\ i \in Nat
    BY <1>2, <2>1, <2>2, LenProperties DEF Due, IInv, PostersAgree, LetterAgrees, TypeOK
  <2>4. ~(i < l.op)
    <3>1. SUFFICES ASSUME i < l.op PROVE FALSE
      OBVIOUS
    <3>2. PICK m \in poster[p].batch : m.op = i
      BY <2>1, <2>2, <3>1 DEF InTurn
    <3>3. QED
      BY <1>4, <2>3, <3>1, <3>2 DEF First
  <2>5. QED
    BY <2>3, <2>4
<1>5. CASE poster'[p] # poster[p]
  <2>1. PICK l, res :
          /\ l \in poster[p].batch /\ poster[p].pc = "posting" /\ First(poster[p].batch, l)
          /\ poster'[p] = [pc |-> "answered", batch |-> poster[p].batch \ {l}, cur |-> l, res |-> res]
          /\ UNCHANGED ops
    BY <1>1, <1>5, AnsweredFrom
  <2>2. poster'[p].cur = l
    BY <2>1
  <2>3. QED
    BY <1>4, <2>1, <2>2
<1>6. QED
  BY <1>3, <1>5

\* A request still holds the "new" row it found, and the quantity it restates.
LEMMA RequestsFitStep ==
    ASSUME Apart, IInv, RequestsFit, [Next]_vars
    PROVE  RequestsFit'
<1> DEFINE Fits(r) == /\ r.pend # 0 => r.pend \in DOMAIN ops' /\ ops'[r.pend].app = r.id
                                       /\ ops'[r.pend].action = "new"
                      /\ r.kind = "upi" => r.next = app'[r.id].qty
<1>1. SUFFICES ASSUME NEW h \in Handler, handler'[h] # IdleHandler PROVE Fits(handler'[h].req)
  BY DEF RequestsFit
<1>2. Grows /\ handler \in [Handler -> HandlerState \cup {IdleHandler}]
  BY StepGrows DEF IInv, TypeOK
<1>3. CASE handler'[h] = handler[h]
  <2> DEFINE r == handler[h].req
  <2>3. app'[r.id].qty = app[r.id].qty
    BY <1>1, <1>3, QtyHeld
  <2>4. /\ r.pend # 0 => r.pend \in DOMAIN ops /\ ops[r.pend].app = r.id /\ ops[r.pend].action = "new"
        /\ r.kind = "upi" => r.next = app[r.id].qty
    BY <1>1, <1>3 DEF RequestsFit
  <2>5. QED
    BY <1>2, <1>3, <2>3, <2>4 DEF Grows, OpsGrow
<1>4. CASE LoadSome(h)
  <2>1. PICK kind \in {"new", "modify", "cancel", "rebid", "upi"}, a \in App, q \in Qty : Load(h, kind, a, q)
    BY <1>4 DEF LoadSome
  <2> DEFINE r == [kind |-> kind, id |-> a, snap |-> app[a], next |-> q, pend |-> 0]
  <2>2. /\ handler'[h] = [pc |-> IF LooksForNew(kind, app[a]) THEN "loaded" ELSE "ready", req |-> r]
        /\ UNCHANGED app /\ Permitted(kind, app[a], q)
    BY <1>2, <2>1 DEF Load
  <2>3. kind = "upi" => q = app[a].qty
    BY <2>2 DEF Permitted
  <2>4. QED
    BY <2>2, <2>3
<1>5. CASE FindPendingNew(h)
  <2> DEFINE r == handler[h].req
  <2>1. handler[h].pc = "loaded" /\ handler[h] # IdleHandler
    BY <1>5 DEF FindPendingNew, IdleHandler
  <2>2. r \in Request /\ handler[h] \in HandlerState
    BY <1>2, <2>1 DEF HandlerState
  <2>3. PICK n \in {0} \cup DOMAIN ops :
          FoundNew(r.id, n) /\ handler' = [handler EXCEPT ![h].pc = "ready", ![h].req.pend = n]
    BY <1>5 DEF FindPendingNew
  <2>4. handler'[h].req = [r EXCEPT !.pend = n]
    BY <1>2, <2>2, <2>3 DEF HandlerState
  <2>5. /\ handler'[h].req.id = r.id /\ handler'[h].req.pend = n
        /\ handler'[h].req.kind = r.kind /\ handler'[h].req.next = r.next
    BY <2>2, <2>4 DEF Request
  <2>6. n # 0 => n \in DOMAIN ops /\ ops[n].app = r.id /\ ops[n].action = "new"
    BY <2>3 DEF FoundNew, PendingNew
  <2>7. UNCHANGED <<app, ops>>
    BY <1>5 DEF FindPendingNew
  <2>8. r.kind = "upi" => r.next = app[r.id].qty
    BY <2>1 DEF RequestsFit
  <2>9. QED
    BY <2>5, <2>6, <2>7, <2>8
<1>6. QED
  BY <1>1, <1>3, <1>4, <1>5, HandlerChange

\* The placed bids stay in the book, and their applications keep their route.
LEMMA PlacedStep ==
    ASSUME IInv, PlacedHeld, [Next]_vars
    PROVE  PlacedHeld'
<1>1. SUFFICES ASSUME NEW n \in DOMAIN Placed
               PROVE  n \in DOMAIN bids' /\ bids'[n].app = Placed[n] /\ app'[Placed[n]].routed
  BY DEF PlacedHeld
<1>2. n \in DOMAIN bids /\ bids[n].app = Placed[n] /\ app[Placed[n]].routed
  BY DEF PlacedHeld
<1>3. Placed[n] \in App /\ Exists(Placed[n]) /\ Grows
  BY <1>2, QtyTypes, StepGrows DEF IInv, RowsExist
<1>4. QED
  BY <1>2, <1>3 DEF Grows, BidsGrow, RowsGrow

-----------------------------------------------------------------------------
\* What a step adds to the queue of an application comes last in it.
LEMMA QueueGrows ==
    ASSUME TypeOK, NEW a \in App
    PROVE  /\ Kept(a) => Revisions(a)' = Revisions(a) /\ Withdrawals(a)' = Withdrawals(a)
           /\ Revised(a) => /\ Revisions(a)' = Revisions(a) \cup {Len(ops) + 1}
                            /\ Withdrawals(a)' = Withdrawals(a)
           /\ Withdrawn(a) => /\ Withdrawals(a)' = Withdrawals(a) \cup {Len(ops) + 1}
                              /\ Revisions(a)' = Revisions(a)
           /\ \A p \in Poster : Settled(a, p) => /\ Revisions(a)' = Revisions(a)
                                                 /\ Withdrawals(a)' = Withdrawals(a)
           /\ Len(ops) + 1 \in Nat /\ \A i \in Of(a) : i \in Nat /\ i < Len(ops) + 1
<1>1. Len(ops) + 1 \in Nat /\ \A i \in Of(a) : i \in Nat /\ i < Len(ops) + 1
  BY LenProperties DEF TypeOK, Of
<1>2. Kept(a) => Revisions(a)' = Revisions(a) /\ Withdrawals(a)' = Withdrawals(a)
  BY DEF Kept, SameOps, Revisions, Withdrawals
<1>3. Revised(a) => /\ Revisions(a)' = Revisions(a) \cup {Len(ops) + 1}
                    /\ Withdrawals(a)' = Withdrawals(a)
  BY DEF Revised, Added, SameOps, Revisions, Withdrawals
<1>4. Withdrawn(a) => /\ Withdrawals(a)' = Withdrawals(a) \cup {Len(ops) + 1}
                      /\ Revisions(a)' = Revisions(a)
  BY DEF Withdrawn, Added, SameOps, Revisions, Withdrawals
<1>5. ASSUME NEW p \in Poster, Settled(a, p)
      PROVE  Revisions(a)' = Revisions(a) /\ Withdrawals(a)' = Withdrawals(a)
  BY <1>5 DEF Settled, Revisions, Withdrawals
<1>6. QED
  BY <1>1, <1>2, <1>3, <1>4, <1>5

\* A request's last step keeps the queue of an application in step with its row.
LEMMA QueueStep ==
    ASSUME TypeOK, NEW a \in App, QueueFits(a), Kept(a) \/ Revised(a) \/ Withdrawn(a)
    PROVE  QueueFits(a)'
<1> DEFINE N == Len(ops) + 1
<1>1. N \in Nat /\ \A i \in Of(a) : i \in Nat /\ i < N
  BY QueueGrows
<1>2. CASE Kept(a)
  <2>1. Revisions(a)' = Revisions(a) /\ Withdrawals(a)' = Withdrawals(a)
    BY <1>2, QueueGrows
  <2>2. Revisions(a) \subseteq Of(a)
    BY DEF Revisions
  <2>3. QED
    BY <1>2, <2>1, <2>2 DEF Kept, SameOps, QueueFits
<1>3. CASE Revised(a) \/ Withdrawn(a)
  <2>1. /\ SameOps(a) /\ Of(a)' = Of(a) \cup {N} /\ ops'[N].state = "pending"
    BY <1>3 DEF Revised, Withdrawn, Added
  <2>2. ASSUME NEW i \in Of(a)', NEW j \in Of(a)', i < j, ops'[j].state = "posted"
        PROVE  ops'[i].state = "posted"
    <3>1. j # N /\ j \in Of(a)
      BY <2>1, <2>2
    <3>2. i # N /\ i \in Of(a)
      BY <1>1, <2>1, <2>2, <3>1
    <3>3. QED
      BY <2>1, <2>2, <3>1, <3>2 DEF SameOps, QueueFits
  <2>3. ASSUME NEW i \in Revisions(a)', \A j \in Revisions(a)' : j <= i
        PROVE  ops'[i].qty = app'[a].qty
    <3>1. CASE Revised(a)
      <4>1. Revisions(a)' = Revisions(a) \cup {N} /\ Revisions(a) \subseteq Of(a)
        BY <3>1, QueueGrows DEF Revisions
      <4>2. i = N
        BY <1>1, <2>3, <4>1
      <4>3. QED
        BY <3>1, <4>2 DEF Revised
    <3>2. CASE Withdrawn(a)
      <4>1. Revisions(a)' = Revisions(a) /\ Revisions(a) \subseteq Of(a)
        BY <3>2, QueueGrows DEF Revisions
      <4>2. QED
        BY <2>1, <2>3, <3>2, <4>1 DEF SameOps, Withdrawn, QueueFits
    <3>3. QED
      BY <1>3, <3>1, <3>2
  <2>4. app'[a].status = "cancelled" <=> Withdrawals(a)' # {}
    BY <1>3, QueueGrows DEF Revised, Withdrawn, QueueFits
  <2>5. QED
    BY <2>2, <2>3, <2>4 DEF QueueFits
<1>4. QED
  BY <1>2, <1>3

\* While the book and the answers stand, a request's last step keeps the bid in
\* step with the queue: what it adds is pending.
LEMMA BidKept ==
    ASSUME TypeOK, NEW n, NEW a \in App, BidFits(n, a), UNCHANGED bids,
           Kept(a) \/ Revised(a) \/ Withdrawn(a),
           \A p \in Poster : poster'[p].pc = "answered" /\ poster'[p].res.ok => poster'[p] = poster[p]
    PROVE  BidFits(n, a)'
<1> DEFINE N == Len(ops) + 1
<1>1. \A i \in Of(a) : ops'[i] = ops[i]
  BY DEF Kept, Revised, Withdrawn, Added, SameOps
<1>2. Revisions(a) \subseteq Of(a) /\ Withdrawals(a) \subseteq Of(a)
  BY DEF Revisions, Withdrawals
<1>3. ASSUME \A i \in Revisions(a)' : ops'[i].state = "posted", bids'[n].live
      PROVE  bids'[n].qty = app'[a].qty
  <2>1. ~Revised(a)
    BY <1>3, QueueGrows DEF Revised, Added
  <2>2. Revisions(a)' = Revisions(a) /\ app'[a].qty = app[a].qty
    BY <2>1, QueueGrows DEF Kept, Withdrawn
  <2>3. QED
    BY <1>1, <1>2, <1>3, <2>2 DEF BidFits
<1>4. ~bids'[n].live => Withdrawals(a)' # {}
  BY QueueGrows DEF BidFits
<1>5. ASSUME NEW i \in Withdrawals(a)', ops'[i].state = "posted"
      PROVE  ~bids'[n].live
  <2>1. i \in Withdrawals(a)
    BY <1>5, QueueGrows DEF Withdrawn, Added
  <2>2. QED
    BY <1>1, <1>2, <1>5, <2>1 DEF BidFits
<1>6. \A p \in Poster, action \in Action :
         Done(p, a, action)' => Done(p, a, action) /\ poster'[p].cur = poster[p].cur
  BY DEF Done
<1>7. QED
  BY <1>3, <1>4, <1>5, <1>6 DEF BidFits, Action

\* The answer that is written is for the oldest operation still pending, so the
\* queue is posted in its order, and it is what the exchange did.
LEMMA SettledFits ==
    ASSUME Apart, IInv, LettersTrue, CurFirst, NEW p \in Poster, NEW n, NEW a \in App, Settled(a, p),
           app[a].routed, Clean(a), QueueFits(a), BidFits(n, a)
    PROVE  QueueFits(a)' /\ BidFits(n, a)'
<1> DEFINE l == poster[p].cur
           c == l.op
<1>1. TypeOK /\ poster[p].pc = "answered" /\ l \in Letters(p) /\ UNCHANGED bids
  BY DEF IInv, Settled, SaveAnswer, Letters, IdlePoster
<1>2. c \in Of(a) /\ l.app = a /\ poster[p].res.ok
  BY DEF Settled
<1>3. /\ l.action = ops[c].action /\ l.action \in {"modify", "cancel"}
      /\ l.qty = ops[c].qty /\ ops[c].state = "pending"
  <2>1. l.action = ops[c].action /\ ops[c].action # "new"
    BY <1>1, <1>2 DEF LettersTrue, LetterTrue, Clean
  <2>2. ops[c].action \in Action
    BY <1>1, <1>2, OpTyped DEF Of, Op
  <2>3. QED
    BY <1>1, <2>1, <2>2 DEF LettersTrue, LetterTrue, Action
<1>4. \A i \in Of(a) : i \in Nat
  BY <1>1, QueueGrows
<1>5. ASSUME NEW i \in Of(a), i < c PROVE ops[i].state = "posted"
  <2>1. ops[i] \in Op /\ ops[i].state # "failed"
    BY <1>1, OpTyped DEF Of, Clean
  <2>2. CASE ops[i].state = "pending"
    <3>1. i \in Due
      BY <2>2 DEF Due, Of, IInv, RowsExist
    <3>2. c <= i
      BY <1>1, <3>1 DEF CurFirst
    <3>3. QED
      BY <1>2, <1>4, <1>5, <3>2
  <2>3. QED
    BY <2>1, <2>2 DEF Op
<1>6. ASSUME NEW i \in Of(a), c < i PROVE ops[i].state # "posted"
  BY <1>2, <1>3, <1>6 DEF QueueFits
<1>7. /\ Of(a)' = Of(a) /\ app'[a].qty = app[a].qty /\ app'[a].status = app[a].status
      /\ \A i \in Of(a) : /\ ops'[i].qty = ops[i].qty
                          /\ ops'[i].state = IF i = c THEN "posted" ELSE ops[i].state
  BY DEF Settled
<1>8. /\ Revisions(a)' = Revisions(a) /\ Withdrawals(a)' = Withdrawals(a)
      /\ Revisions(a) \subseteq Of(a) /\ Withdrawals(a) \subseteq Of(a)
  BY <1>1, QueueGrows DEF Revisions, Withdrawals
<1>9. \A q \in Poster : poster'[q].pc # "answered"
  <2>1. poster \in [Poster -> PosterState \cup {IdlePoster}] /\ SaveAnswer(p)
    BY <1>1 DEF Settled, TypeOK
  <2>2. poster'[p] = IdlePoster \/ poster'[p].pc = "posting"
    BY <2>1 DEF SaveAnswer, RestOf
  <2>3. ASSUME NEW q \in Poster, q # p PROVE poster'[q] = IdlePoster
    BY <1>1, <2>1, <2>3 DEF SaveAnswer, RestOf, Apart, IdlePoster
  <2>4. QED
    BY <2>2, <2>3 DEF IdlePoster
<1> HIDE DEF c
<1>10. QueueFits(a)'
  <2>1. ASSUME NEW i \in Of(a), NEW j \in Of(a), i < j, ops'[j].state = "posted"
        PROVE  ops'[i].state = "posted"
    <3>1. CASE j = c
      BY <1>5, <1>7, <2>1, <3>1
    <3>2. CASE j # c
      BY <1>7, <2>1, <3>2 DEF QueueFits
    <3>3. QED
      BY <3>1, <3>2
  <2>2. \A i \in Revisions(a) : (\A j \in Revisions(a) : j <= i) => ops'[i].qty = app'[a].qty
    BY <1>7, <1>8 DEF QueueFits
  <2>3. app'[a].status = "cancelled" <=> Withdrawals(a) # {}
    BY <1>7 DEF QueueFits
  <2>4. QED
    BY <1>7, <1>8, <2>1, <2>2, <2>3 DEF QueueFits
<1>11. BidFits(n, a)'
  <2>1. l.action = "modify" /\ bids[n].live => bids[n].qty = l.qty
    BY <1>1, <1>2 DEF BidFits, Done
  <2>2. l.action = "cancel" => ~bids[n].live
    BY <1>1, <1>2 DEF BidFits, Done
  <2>3. ASSUME \A i \in Revisions(a) : ops'[i].state = "posted", bids[n].live
        PROVE  bids[n].qty = app[a].qty
    <3>1. l.action = "modify" /\ c \in Revisions(a)
      BY <1>2, <1>3, <2>2, <2>3 DEF Revisions, c
    <3>2. ASSUME NEW i \in Revisions(a) PROVE i <= c
      <4>1. i \in Of(a) /\ i \in Nat /\ c \in Nat
        BY <1>4, <1>8, <3>1
      <4>2. CASE c < i
        BY <1>6, <1>7, <2>3, <4>1, <4>2
      <4>3. QED
        BY <4>1, <4>2
    <3>3. ops[c].qty = app[a].qty
      BY <3>1, <3>2 DEF QueueFits
    <3>4. QED
      BY <1>3, <2>1, <2>3, <3>1, <3>3
  <2>4. ASSUME NEW i \in Withdrawals(a), ops'[i].state = "posted" PROVE ~bids[n].live
    <3>1. CASE i = c
      BY <1>3, <2>2, <3>1 DEF Withdrawals, c
    <3>2. CASE i # c
      BY <1>7, <1>8, <2>4, <3>2 DEF BidFits
    <3>3. QED
      BY <3>1, <3>2
  <2>5. ~bids[n].live => Withdrawals(a) # {}
    BY DEF BidFits
  <2>6. \A m \in DOMAIN bids : bids[m].app = a => m = n
    BY DEF BidFits
  <2>7. QED
    BY <1>1, <1>7, <1>8, <1>9, <2>3, <2>4, <2>5, <2>6 DEF BidFits, Done
<1>12. QED
  BY <1>10, <1>11

\* What an accepted call does to the book, seen from the one bid of an application.
LEMMA CallFor ==
    ASSUME IInv, NEW p \in Poster, poster[p].pc = "posting", NEW l \in poster[p].batch, Takes(l),
           NEW n \in DOMAIN bids, NEW a \in App, bids[n].app = a, l.app = a => l.action # "new",
           \A m \in DOMAIN bids : bids[m].app = a => m = n
    PROVE  /\ \A m \in DOMAIN bids' : bids'[m].app = a => m = n
           /\ l.app # a => bids'[n] = bids[n]
           /\ l.app = a /\ l.action = "modify" => bids'[n].qty = l.qty /\ bids'[n].live = bids[n].live
           /\ l.app = a /\ l.action = "cancel" => ~bids'[n].live
<1>1. TypeOK /\ l \in Letter /\ LetterAgrees(l) /\ bids \in Seq(Bid)
  BY BatchAgrees DEF IInv, TypeOK
<1>2. \A m \in DOMAIN bids : bids[m] \in Bid
  BY <1>1, BidTyped
<1>3. CASE l.action = "new"
  <2> DEFINE bid == [app |-> l.app, qty |-> l.qty, live |-> TRUE]
  <2>1. bid \in Bid /\ bids' = Append(bids, bid) /\ bid.app # a
    BY <1>1, <1>3 DEF Takes, Letter, Bid
  <2> HIDE DEF bid
  <2>2. /\ DOMAIN bids' = DOMAIN bids \cup {Len(bids) + 1}
        /\ \A j \in DOMAIN bids : bids'[j] = bids[j]
        /\ bids'[Len(bids) + 1] = bid
    BY <1>1, <2>1, AppendSeq
  <2>3. QED
    BY <1>3, <2>1, <2>2
<1>4. CASE l.action # "new"
  <2> DEFINE k == l.row.appNo
  <2>1. k \in DOMAIN bids /\ bids[k].app = l.app
    BY <1>1, <1>4 DEF Takes, Buildable, LetterAgrees
  <2> HIDE DEF k
  <2>2. l.app = a => k = n
    BY <2>1
  <2>3. CASE l.action = "modify" /\ bids' = [bids EXCEPT ![k].qty = l.qty]
    BY <1>2, <2>1, <2>2, <2>3 DEF Bid
  <2>4. CASE l.action = "cancel" /\ bids' = [bids EXCEPT ![k].live = FALSE]
    BY <1>2, <2>1, <2>2, <2>4 DEF Bid
  <2>5. QED
    BY <1>4, <2>3, <2>4 DEF Takes, k
<1>5. QED
  BY <1>3, <1>4

\* A call the exchange takes changes the bid of its own application, to what the
\* poster is told and has yet to write.
LEMMA CalledFits ==
    ASSUME Apart, IInv, LettersTrue, NEW p \in Poster, poster[p].pc = "posting",
           NEW l \in poster[p].batch, Takes(l), UNCHANGED <<app, ops>>,
           NEW res, Answered(p, l, res),
           NEW n \in DOMAIN bids, NEW a \in App, bids[n].app = a, Clean(a),
           QueueFits(a), BidFits(n, a)
    PROVE  QueueFits(a)' /\ BidFits(n, a)'
<1>1. l \in Letters(p) /\ l \in Letter /\ LetterAgrees(l)
  BY BatchAgrees DEF Letters, IdlePoster
<1>2. l.app = a => /\ l.op \in Of(a) /\ ops[l.op].action = l.action /\ l.action \in {"modify", "cancel"}
                   /\ ops[l.op].state = "pending"
  BY <1>1 DEF LettersTrue, LetterTrue, LetterAgrees, Clean, Of, Letter, Action
<1>3. /\ \A m \in DOMAIN bids' : bids'[m].app = a => m = n
      /\ l.app # a => bids'[n] = bids[n]
      /\ l.app = a /\ l.action = "modify" => bids'[n].qty = l.qty /\ bids'[n].live = bids[n].live
      /\ l.app = a /\ l.action = "cancel" => ~bids'[n].live
  BY <1>2, CallFor DEF BidFits
<1>4. Of(a)' = Of(a) /\ Revisions(a)' = Revisions(a) /\ Withdrawals(a)' = Withdrawals(a)
  BY DEF Of, Revisions, Withdrawals
<1>5. QueueFits(a)'
  BY <1>4 DEF QueueFits
<1>6. (\A i \in Revisions(a) : ops[i].state = "posted") /\ bids'[n].live => bids'[n].qty = app[a].qty
  BY <1>2, <1>3 DEF BidFits, Revisions
<1>7. ~bids'[n].live => Withdrawals(a) # {}
  BY <1>2, <1>3 DEF BidFits, Withdrawals
<1>8. \A i \in Withdrawals(a) : ops[i].state = "posted" => ~bids'[n].live
  BY <1>2, <1>3 DEF BidFits
<1>9. \A q \in Poster : /\ Done(q, a, "modify")' /\ bids'[n].live => bids'[n].qty = poster'[q].cur.qty
                        /\ Done(q, a, "cancel")' => ~bids'[n].live
  <2>1. poster \in [Poster -> PosterState \cup {IdlePoster}]
    BY DEF IInv, TypeOK
  <2>2. poster'[p].cur = l
    BY <2>1 DEF Answered
  <2>3. ASSUME NEW q \in Poster, q # p PROVE poster'[q].pc # "answered"
    BY <2>1, <2>3 DEF Answered, Apart, IdlePoster
  <2>4. QED
    BY <1>3, <2>2, <2>3 DEF Done
<1>10. BidFits(n, a)'
  BY <1>3, <1>4, <1>6, <1>7, <1>8, <1>9 DEF BidFits
<1>11. QED
  BY <1>5, <1>10

\* Every step keeps each placed bid in step with the queue and the row.
LEMMA AllFitStep ==
    ASSUME Apart, IInv, FitInv, [Next]_vars
    PROVE  AllFit'
<1>1. SUFFICES ASSUME NEW n \in DOMAIN Placed, NEW a, a = Placed[n], Clean(a)'
               PROVE  QueueFits(a)' /\ BidFits(n, a)'
  BY DEF AllFit
<1>2. n \in DOMAIN bids /\ bids[n].app = a /\ app[a].routed /\ TypeOK
  BY <1>1 DEF FitInv, PlacedHeld, IInv
<1>3. a \in App /\ Exists(a)
  BY <1>2, QtyTypes DEF IInv, RowsExist
<1>4. Clean(a) => QueueFits(a) /\ BidFits(n, a)
  BY <1>1 DEF FitInv, AllFit
<1>5. CASE \E p \in Poster : CallAccepted(p)
  <2>1. PICK p \in Poster : CallAccepted(p)
    BY <1>5
  <2>2. PICK l, res : l \in poster[p].batch /\ Takes(l) /\ Answered(p, l, res)
    BY <2>1 DEF CallAccepted
  <2>3. poster[p].pc = "posting" /\ UNCHANGED <<app, ops>>
    BY <2>1 DEF CallAccepted
  <2>4. Clean(a)
    BY <1>1, <2>3 DEF Clean, Of
  <2>5. QED
    BY <1>2, <1>3, <1>4, <2>2, <2>3, <2>4, CalledFits DEF FitInv
<1>6. CASE ~\E p \in Poster : CallAccepted(p)
  <2>1. UNCHANGED bids
    BY <1>6, BookChange
  <2>2. ASSUME NEW p \in Poster, poster'[p].pc = "answered", poster'[p].res.ok
        PROVE  poster'[p] = poster[p]
    <3>1. SUFFICES ASSUME poster'[p] # poster[p] PROVE FALSE
      OBVIOUS
    <3>2. PICK l, res :
            /\ poster'[p] = [pc |-> "answered", batch |-> poster[p].batch \ {l}, cur |-> l, res |-> res]
            /\ ~res.ok
      BY <1>6, <2>2, <3>1, AnsweredFrom
    <3>3. QED
      BY <2>2, <3>2
  <2>3. Clean(a) /\ (Kept(a) \/ Revised(a) \/ Withdrawn(a) \/ \E p \in Poster : Settled(a, p))
    <3>1. CASE UNCHANGED <<app, ops>>
      BY <1>1, <3>1 DEF Clean, Kept, SameOps, Of
    <3>2. ASSUME NEW h \in Handler, Commit(h) PROVE Clean(a) /\ (Kept(a) \/ Revised(a) \/ Withdrawn(a))
      <4>1. Kept(a) \/ Revised(a) \/ Withdrawn(a)
        BY <1>1, <1>3, <3>2, CommitFor DEF FitInv
      <4>2. Clean(a)
        BY <1>1, <4>1 DEF Clean, Kept, Revised, Withdrawn, Added, SameOps
      <4>3. QED
        BY <4>1, <4>2
    <3>3. ASSUME NEW p \in Poster, SaveAnswer(p) PROVE Clean(a) /\ (Kept(a) \/ Settled(a, p))
      BY <1>1, <1>3, <3>3, SaveFor DEF FitInv
    <3>4. QED
      BY <3>1, <3>2, <3>3, QueueChange
  <2>4. CASE Kept(a) \/ Revised(a) \/ Withdrawn(a)
    BY <1>2, <1>3, <1>4, <2>1, <2>2, <2>3, <2>4, QueueStep, BidKept
  <2>5. CASE \E p \in Poster : Settled(a, p)
    BY <1>2, <1>3, <1>4, <2>3, <2>5, SettledFits DEF FitInv
  <2>6. QED
    BY <2>3, <2>4, <2>5
<1>7. QED
  BY <1>5, <1>6

\* At the start nothing is queued and every placed bid is as its row says.
LEMMA InitFit == PlacedOnce /\ Init => FitInv
<1> SUFFICES ASSUME PlacedOnce, Init PROVE FitInv
  OBVIOUS
<1>1. \A p \in Poster : Letters(p) = {} /\ poster[p].pc # "answered"
  BY DEF Init, Letters, IdlePoster
<1>2. LettersTrue /\ OneLetterEach /\ CurFirst /\ RequestsFit
  BY <1>1 DEF Init, LettersTrue, OneLetterEach, CurFirst, RequestsFit
<1>3. ASSUME NEW n \in DOMAIN Placed
      PROVE  /\ n \in DOMAIN bids /\ bids[n].app = Placed[n] /\ bids[n].qty = 1 /\ bids[n].live
             /\ app[Placed[n]].routed /\ app[Placed[n]].qty = 1 /\ app[Placed[n]].status # "cancelled"
  <2>1. Placed[n] \in App /\ IsPlaced(Placed[n])
    BY RowsAssumption, LenProperties, ElementOfSeq DEF IsPlaced
  <2>2. QED
    BY <2>1 DEF Init, FirstRow
<1>4. \A m \in DOMAIN bids : m \in DOMAIN Placed /\ bids[m].app = Placed[m]
  BY DEF Init
<1>5. \A a : Of(a) = {} /\ Revisions(a) = {} /\ Withdrawals(a) = {}
  BY DEF Init, Of, Revisions, Withdrawals
<1>6. AllFit
  BY <1>1, <1>3, <1>4, <1>5 DEF AllFit, QueueFits, BidFits, Done, PlacedOnce
<1>7. PlacedHeld
  BY <1>3 DEF PlacedHeld
<1>8. QED
  BY <1>2, <1>6, <1>7 DEF FitInv

\* Once everything queued for an application was posted, the exchange holds what
\* the database says, as long as two requests about one bid never overlap and
\* postPending never overlaps with itself.
THEOREM ApartDescribes ==
    PlacedOnce => (ApartSpec => []DatabaseDescribesExchange)
<1> DEFINE Inv == Apart /\ IInv /\ InTurn /\ FitInv
<1> SUFFICES ASSUME PlacedOnce PROVE ApartSpec => []DatabaseDescribesExchange
  OBVIOUS
<1>1. Init => Inv
  BY InitIInv, InitInTurn, InitFit, InitApart
<1>2. Inv /\ [Next /\ Apart']_vars => Inv'
  <2> SUFFICES ASSUME Inv, [Next /\ Apart']_vars PROVE Inv'
    OBVIOUS
  <2>0. [Next]_vars /\ Apart'
    BY ApartKept
  <2>1. IInv' /\ InTurn'
    BY <2>0, StepIInv, InTurnStep
  <2>2. FitInv'
    BY <2>0, PlacedStep, LettersTrueStep, OneLetterStep, CurFirstStep, RequestsFitStep, AllFitStep DEF FitInv
  <2>3. QED
    BY <2>0, <2>1, <2>2
<1>3. Inv => DatabaseDescribesExchange
  <2> SUFFICES ASSUME Inv, NEW n \in DOMAIN Placed, NEW a, a = Placed[n],
                      \A i \in DOMAIN ops : ops[i].app = a => ops[i].state = "posted" /\ ops[i].action # "new"
               PROVE  /\ bids[n].live => bids[n].qty = app[a].qty
                      /\ bids[n].live <=> app[a].status # "cancelled"
    BY DEF DatabaseDescribesExchange
  <2>1. Clean(a) /\ \A i \in Of(a) : ops[i].state = "posted"
    BY DEF Clean, Of
  <2>2. QueueFits(a) /\ BidFits(n, a)
    BY <2>1 DEF FitInv, AllFit
  <2>3. Revisions(a) \subseteq Of(a) /\ Withdrawals(a) \subseteq Of(a)
    BY DEF Revisions, Withdrawals
  <2>4. ~bids[n].live <=> Withdrawals(a) # {}
    BY <2>1, <2>2, <2>3 DEF BidFits
  <2>5. QED
    BY <2>1, <2>2, <2>3, <2>4 DEF QueueFits, BidFits
<1> HIDE DEF Inv
<1>4. QED
  BY <1>1, <1>2, <1>3, PTL DEF ApartSpec

=============================================================================
