--------------------- MODULE ApplicationLifecycleProofs ---------------------
(***************************************************************************)
(* Proofs about ApplicationLifecycle, for any applications, requests and   *)
(* bounds.  A callback may be late or repeated and a refresh may write     *)
(* what it fetched long ago, so what makes a shown block real is not the   *)
(* state of the exchange now but its history: IInv says that everything    *)
(* on its way to a row, a statement, the exchange's record and a fetched   *)
(* patch, was stated once, and what was stated is never taken back.        *)
(***************************************************************************)
EXTENDS ApplicationLifecycle, SequenceTheorems, TLAPS

\* The exchange's record shows a block only after it stated one.
RecordWasSaid == \A a \in App : record[a].pay = "100" => BlockWasSaid(a)

\* So does a patch that a refresh has fetched and not written yet.
FetchedWasSaid ==
    \A h \in Handler, a \in App :
        /\ handler[h].kind = "refresh" /\ handler[h].app = a
        /\ handler[h].patch.status = "upi_blocked"
        => BlockWasSaid(a)

IInv ==
    /\ TypeOK
    /\ RecordWasSaid
    /\ FetchedWasSaid
    /\ BlockShownIsReal

-----------------------------------------------------------------------------
(* Operators.                                                              *)

\* The constants that bound the model are naturals.
LEMMA Bounds == Amount \in Nat /\ MaxUpi \in Nat /\ LastDay \in Nat
BY BoundsAssumption

\* Only the code of an accepted mandate is mapped to a block.
LEMMA MapUpi ==
    ASSUME NEW c
    PROVE  /\ MapUpiStatus(c) \in Status
           /\ MapUpiStatus(c) = "upi_blocked" <=> c = "100"
BY DEF MapUpiStatus, Status, Rejection

\* The depository's verdict never says that funds are blocked.
LEMMA MapDp ==
    ASSUME NEW f
    PROVE  MapDpStatus(f) \in Status /\ MapDpStatus(f) # "upi_blocked"
BY DEF MapDpStatus, Status

\* The sentence of a code is one the column may hold.
LEMMA LabelTyped == ASSUME NEW c PROVE UpiStatusLabel(c) \in Text
BY DEF UpiStatusLabel, Text

\* The values that leave a column alone are values of the column.
LEMMA Blanks == NoAmount \in Money /\ NoText \in Text /\ Never \in Stamp /\ "" \in Reason
BY DEF Money, Text, Stamp, Reason

\* Nothing and the whole amount are sums a payment statement may name.
LEMMA WholeAmounts == 0 \in Money /\ Amount \in Money
BY Bounds DEF Money

\* A verdict of the depository becomes a patch that touches status and reason only.
LEMMA VerdictTyped ==
    ASSUME NEW f, NEW why \in Reason
    PROVE  [status |-> MapDpStatus(f), amount |-> NoAmount, reason |-> why,
            text |-> NoText, textAt |-> Never] \in Patch
<1>1. MapDpStatus(f) \in Status
    BY MapDp
<1>2. QED
    BY <1>1, Blanks DEF Patch

\* A write of a status sets it and leaves the number and the refund alone.
LEMMA UpdateTyped ==
    ASSUME NEW r \in Row, NEW p \in Patch
    PROVE  /\ UpdateStatus(r, p) \in Row
           /\ UpdateStatus(r, p).status = p.status
           /\ UpdateStatus(r, p).number = r.number
           /\ UpdateStatus(r, p).refund = r.refund
BY DEF UpdateStatus, Row, Patch, OrElse

\* A callback writes a block only for the statement of an accepted mandate.
LEMMA CallbackTyped ==
    ASSUME TypeOK, NEW st \in Statement
    PROVE  /\ CallbackPatch(st) \in Patch
           /\ CallbackPatch(st).status = "upi_blocked" => st.kind = "pay" /\ st.code = "100"
<1>1. CASE st.kind = "dp"
  <2>1. CallbackPatch(st) = 
          [status |-> MapDpStatus(st.code), amount |-> NoAmount, reason |-> st.reason,
           text |-> NoText, textAt |-> Never]
    BY <1>1 DEF CallbackPatch
  <2>2. st.reason \in Reason
    BY DEF Statement, Reason
  <2>3. CallbackPatch(st) \in Patch
    BY <2>1, <2>2, VerdictTyped
  <2>4. CallbackPatch(st).status # "upi_blocked"
    BY <2>1, MapDp
  <2>5. QED
    BY <2>3, <2>4
<1>2. CASE st.kind # "dp"
  <2>1. st.kind = "pay" /\ st.amount \in Money /\ st.reason \in {"", "bank"}
    BY <1>2 DEF Statement
  <2>2. SentenceOf(st) \in Text
    BY <2>1, LabelTyped DEF SentenceOf, Text
  <2>3. now \in Stamp
    BY DEF TypeOK, Stamp
  <2>4. QED
    BY <1>2, <2>1, <2>2, <2>3, MapUpi DEF CallbackPatch, Patch, Reason
<1>3. QED
    BY <1>1, <1>2

\* A fetched patch shows a block only if the exchange's record does.
LEMMA FetchedTyped ==
    ASSUME TypeOK, NEW a \in App
    PROVE  /\ FetchedPatch(a) \in Patch
           /\ FetchedPatch(a).status = "upi_blocked" => record[a].pay = "100"
<1>1. record[a] \in Record /\ now \in Stamp
    BY DEF TypeOK, Stamp
<1>2. CASE record[a].pay # "none"
  <2>1. FetchedPatch(a) =
          [status |-> MapUpiStatus(record[a].pay), amount |-> record[a].amount,
           reason |-> "record", text |-> UpiStatusLabel(record[a].pay), textAt |-> now]
    BY <1>2 DEF FetchedPatch
  <2>2. QED
    BY <1>1, <2>1, MapUpi, LabelTyped DEF Patch, Record, Reason
<1>3. CASE record[a].pay = "none"
  <2>1. FetchedPatch(a) = 
          [status |-> MapDpStatus(record[a].dp), amount |-> NoAmount, reason |-> "record",
           text |-> NoText, textAt |-> Never]
    BY <1>3 DEF FetchedPatch
  <2>2. QED
    BY <2>1, MapDp, Blanks DEF Patch, Reason
<1>4. QED
    BY <1>2, <1>3

-----------------------------------------------------------------------------
(* The invariant holds at the start, and every step keeps it.              *)

\* An idle request is a request.
LEMMA IdleTyped == Idle \in HandlerState /\ Idle.kind = "idle"
<1>1. NoRow \in Row
    BY Blanks DEF NoRow, Row, Status
<1>2. NoPatch \in Patch
    BY Blanks DEF NoPatch, Patch, Status
<1>3. (CHOOSE a \in App : TRUE) \in App
    BY AppAssumption
<1>4. QED
    BY <1>1, <1>2, <1>3 DEF Idle, HandlerState, Kind

\* The rows the state starts with: nothing is blocked.
LEMMA FirstRowTyped ==
    ASSUME NEW a \in App
    PROVE  /\ FirstRow(a) \in Row
           /\ FirstRow(a).status # "upi_blocked"
BY Blanks DEF FirstRow, NoRow, Row, Status

\* Nothing was stated and nothing is under way at the start.
LEMMA InitIInv == Init => IInv
<1> SUFFICES ASSUME Init PROVE IInv
    OBVIOUS
<1>1. TypeOK
  <2>1. record \in [App -> Record]
    BY Blanks DEF Init, Record
  <2>2. row \in [App -> Row] /\ handler \in [Handler -> HandlerState]
    BY FirstRowTyped, IdleTyped DEF Init
  <2>3. QED
    BY <2>1, <2>2, Bounds DEF Init, TypeOK
<1>2. RecordWasSaid
    BY DEF Init, RecordWasSaid
<1>3. FetchedWasSaid
    BY IdleTyped DEF Init, FetchedWasSaid
<1>4. BlockShownIsReal
    BY FirstRowTyped DEF Init, BlockShownIsReal
<1>5. QED
    BY <1>1, <1>2, <1>3, <1>4 DEF IInv

\* What a step has to respect: no statement is taken back, a block is recorded
\* or shown only once it was stated, and a request in progress keeps what it read.
LEMMA Respects ==
    ASSUME IInv, TypeOK',
           \A a \in App : BlockWasSaid(a) => BlockWasSaid(a)',
           \A a \in App : record'[a].pay = "100" => record[a].pay = "100" \/ BlockWasSaid(a)',
           \A h \in Handler :
              \/ handler'[h].kind = "idle"
              \/ /\ handler'[h].kind = handler[h].kind
                 /\ handler'[h].app = handler[h].app
                 /\ handler'[h].patch = handler[h].patch,
           \A a \in App :
              row'[a].status = "upi_blocked" => row[a].status = "upi_blocked" \/ BlockWasSaid(a)
    PROVE  IInv'
<1>1. RecordWasSaid'
    BY DEF IInv, RecordWasSaid
<1>2. FetchedWasSaid'
    BY DEF IInv, FetchedWasSaid
<1>3. BlockShownIsReal'
    BY DEF IInv, BlockShownIsReal
<1>4. QED
    BY <1>1, <1>2, <1>3 DEF IInv

-----------------------------------------------------------------------------
(* The steps of the exchange.                                              *)

\* One more statement takes none back.
LEMMA SaidGrows ==
    ASSUME TypeOK, NEW a \in App, NEW st \in Statement,
           said' = [said EXCEPT ![a] = Append(@, st)]
    PROVE  /\ said' \in [App -> Seq(Statement)]
           /\ \A b \in App : BlockWasSaid(b) => BlockWasSaid(b)'
           /\ st.kind = "pay" /\ st.code = "100" => BlockWasSaid(a)'
<1>1. said[a] \in Seq(Statement)
    BY DEF TypeOK
<1>2. /\ Append(said[a], st) \in Seq(Statement)
      /\ DOMAIN Append(said[a], st) = 1 .. Len(said[a]) + 1
      /\ \A i \in 1 .. Len(said[a]) : Append(said[a], st)[i] = said[a][i]
      /\ Append(said[a], st)[Len(said[a]) + 1] = st
    BY <1>1, AppendProperties
<1>3. said' \in [App -> Seq(Statement)]
    BY <1>2 DEF TypeOK
<1>4. said'[a] = Append(said[a], st) /\ \A b \in App : b # a => said'[b] = said[b]
    BY DEF TypeOK
<1>5. \A b \in App : BlockWasSaid(b) => BlockWasSaid(b)'
    BY <1>1, <1>2, <1>4, LenProperties DEF BlockWasSaid
<1>6. st.kind = "pay" /\ st.code = "100" => BlockWasSaid(a)'
    BY <1>1, <1>2, <1>4, LenProperties DEF BlockWasSaid
<1>7. QED
    BY <1>3, <1>5, <1>6

\* The UPI ID of a bid that is just being taken is one the profile had.
LEMMA OldUpi ==
    ASSUME IInv, NEW a \in App
    PROVE  (IF row[a].number THEN {bidUpi[a]} ELSE 0 .. upi) \subseteq 0 .. MaxUpi
<1>1. bidUpi[a] \in 0 .. MaxUpi /\ upi \in 0 .. MaxUpi
    BY DEF IInv, TypeOK
<1>2. 0 .. upi \subseteq 0 .. MaxUpi
    BY <1>1, Bounds
<1>3. QED
    BY <1>1, <1>2

\* The depository's verdict leaves the payment alone.
LEMMA StateDpStep ==
    ASSUME IInv, NEW a \in App, StateDp(a)
    PROVE  IInv'
<1>1. PICK f \in DpFlag, why \in {"", "depository"} :
         /\ (\E u \in 0 .. MaxUpi : bidUpi' = [bidUpi EXCEPT ![a] = u]) \/ UNCHANGED bidUpi
         /\ record' = [record EXCEPT ![a].dp = f]
         /\ State(a, [kind |-> "dp", code |-> f, amount |-> NoAmount, reason |-> why])
         /\ UNCHANGED restated
    BY OldUpi DEF StateDp
<1> DEFINE st == [kind |-> "dp", code |-> f, amount |-> NoAmount, reason |-> why]
<1>2. st \in Statement
    BY DEF Statement
<1>3. said' = [said EXCEPT ![a] = Append(@, st)] /\ UNCHANGED <<row, handler, upi, missed, mailed, now>>
    BY <1>1 DEF State
<1> HIDE DEF st
<1>4. TypeOK
    BY DEF IInv
<1>5. said' \in [App -> Seq(Statement)] /\ \A b \in App : BlockWasSaid(b) => BlockWasSaid(b)'
    BY <1>2, <1>3, <1>4, SaidGrows
<1>6. record' \in [App -> Record] /\ \A b \in App : record'[b].pay = record[b].pay
    BY <1>1, <1>4 DEF TypeOK, Record
<1>7. bidUpi' \in [App -> 0 .. MaxUpi]
    BY <1>1, <1>4 DEF TypeOK
<1>8. TypeOK'
    BY <1>1, <1>3, <1>4, <1>5, <1>6, <1>7 DEF TypeOK
<1>9. QED
    BY <1>3, <1>5, <1>6, <1>8, Respects

\* A payment statement is made and recorded in one step.
LEMMA StatePayStep ==
    ASSUME IInv, NEW a \in App, StatePay(a)
    PROVE  IInv'
<1>1. PICK c \in Code, amount \in {NoAmount, 0, Amount}, why \in {"", "bank"} :
         /\ record' = [record EXCEPT ![a] = [@ EXCEPT !.pay = c, !.amount = amount]]
         /\ State(a, [kind |-> "pay", code |-> c, amount |-> amount, reason |-> why])
         /\ restated' = restated \ {a} \/ restated' = restated
         /\ bidUpi' = [bidUpi EXCEPT ![a] = upi] \/ bidUpi' = bidUpi
    BY DEF StatePay
<1> DEFINE st == [kind |-> "pay", code |-> c, amount |-> amount, reason |-> why]
<1>2. amount \in Money
  <2>1. NoAmount \in Money
    BY Blanks
  <2>2. amount = NoAmount \/ amount = 0 \/ amount = Amount
    OBVIOUS
  <2>3. QED
    BY <2>1, <2>2, WholeAmounts
<1>3. st \in Statement
    BY <1>2 DEF Statement
<1>4. said' = [said EXCEPT ![a] = Append(@, st)] /\ UNCHANGED <<row, handler, upi, missed, mailed, now>>
    BY <1>1 DEF State
<1>5. st.kind = "pay" /\ st.code = c
    OBVIOUS
<1> HIDE DEF st
<1>6. TypeOK
    BY DEF IInv
<1>7. /\ said' \in [App -> Seq(Statement)]
      /\ \A b \in App : BlockWasSaid(b) => BlockWasSaid(b)'
      /\ c = "100" => BlockWasSaid(a)'
    BY <1>3, <1>4, <1>5, <1>6, SaidGrows
<1>8. /\ record' \in [App -> Record]
      /\ record'[a].pay = c
      /\ \A b \in App : b # a => record'[b] = record[b]
    BY <1>1, <1>2, <1>6 DEF TypeOK, Record
<1>9. bidUpi' \in [App -> 0 .. MaxUpi] /\ restated' \subseteq App
    BY <1>1, <1>6 DEF TypeOK
<1>10. TypeOK'
    BY <1>4, <1>6, <1>7, <1>8, <1>9 DEF TypeOK
<1>11. \A b \in App : record'[b].pay = "100" => record[b].pay = "100" \/ BlockWasSaid(b)'
    BY <1>7, <1>8
<1>12. QED
    BY <1>4, <1>7, <1>10, <1>11, Respects

-----------------------------------------------------------------------------
(* The steps that write a row.                                             *)

\* A row is replaced by one of its kind: what the step has to show of it.
LEMMA RowWritten ==
    ASSUME IInv, NEW a \in App, NEW r \in Row,
           row' = [row EXCEPT ![a] = r],
           UNCHANGED <<record, said, upi, bidUpi, restated, missed, mailed, now>>,
           handler' = handler \/ \E h \in Handler : handler' = [handler EXCEPT ![h] = Idle],
           r.status = "upi_blocked" => row[a].status = "upi_blocked" \/ BlockWasSaid(a)
    PROVE  IInv'
<1>1. TypeOK
    BY DEF IInv
<1>2. row' \in [App -> Row] /\ row'[a] = r /\ \A b \in App : b # a => row'[b] = row[b]
    BY <1>1 DEF TypeOK
<1>3. /\ handler' \in [Handler -> HandlerState]
      /\ \A h \in Handler : handler'[h] = Idle \/ handler'[h] = handler[h]
    BY <1>1, IdleTyped DEF TypeOK
<1>4. TypeOK'
    BY <1>1, <1>2, <1>3 DEF TypeOK
<1>5. \A b \in App : BlockWasSaid(b) => BlockWasSaid(b)'
    BY DEF BlockWasSaid
<1>6. \A h \in Handler :
         \/ handler'[h].kind = "idle"
         \/ /\ handler'[h].kind = handler[h].kind
            /\ handler'[h].app = handler[h].app
            /\ handler'[h].patch = handler[h].patch
    BY <1>3, IdleTyped
<1>7. QED
    BY <1>2, <1>4, <1>5, <1>6, Respects

\* A callback writes a block only when it carries the statement of one.
LEMMA DeliverStep ==
    ASSUME IInv, NEW a \in App, Deliver(a)
    PROVE  IInv'
<1>1. TypeOK
    BY DEF IInv
<1>2. PICK i \in DOMAIN said[a] :
         /\ row' = IF row[a].number
                     THEN [row EXCEPT ![a] = UpdateStatus(@, CallbackPatch(said[a][i]))]
                     ELSE row
         /\ UNCHANGED <<record, said, handler, upi, bidUpi, restated, missed, mailed, now>>
    BY DEF Deliver
<1>3. said[a] \in Seq(Statement) /\ row[a] \in Row
    BY <1>1 DEF TypeOK
<1>4. said[a][i] \in Statement
    BY <1>2, <1>3
<1> DEFINE p == CallbackPatch(said[a][i])
<1>5. p \in Patch
    BY <1>1, <1>4, CallbackTyped
<1>6. p.status = "upi_blocked" => BlockWasSaid(a)
    BY <1>1, <1>4, CallbackTyped DEF BlockWasSaid
<1> HIDE DEF p
<1>7. CASE row[a].number
  <2>1. row' = [row EXCEPT ![a] = UpdateStatus(row[a], p)]
    BY <1>1, <1>2, <1>7 DEF TypeOK, p
  <2>2. UpdateStatus(row[a], p) \in Row /\ UpdateStatus(row[a], p).status = p.status
    BY <1>3, <1>5, UpdateTyped
  <2>3. QED
    BY <1>2, <1>6, <2>1, <2>2, RowWritten
<1>8. CASE ~row[a].number
  <2>1. row' = [row EXCEPT ![a] = row[a]]
    BY <1>1, <1>2, <1>8 DEF TypeOK
  <2>2. QED
    BY <1>2, <1>3, <2>1, RowWritten
<1>9. QED
    BY <1>7, <1>8

\* Saving the number of a bid shows it as submitted.
LEMMA SaveNumberStep ==
    ASSUME IInv, NEW a \in App, SaveNumber(a)
    PROVE  IInv'
<1> DEFINE r == [row[a] EXCEPT !.number = TRUE, !.status = "submitted", !.reason = ""]
<1>1. row[a] \in Row
    BY DEF IInv, TypeOK
<1>2. r \in Row /\ r.status = "submitted"
    BY <1>1 DEF Row, Status, Reason
<1>3. row' = [row EXCEPT ![a] = r]
    BY DEF SaveNumber
<1> HIDE DEF r
<1>4. QED
    BY <1>2, <1>3, RowWritten DEF SaveNumber

\* A withdrawal promises the whole amount back.
LEMMA WithdrawStep ==
    ASSUME IInv, NEW h \in Handler, Withdraw(h)
    PROVE  IInv'
<1>1. TypeOK
    BY DEF IInv
<1>2. PICK a \in App : a = handler[h].app
    BY <1>1 DEF TypeOK, HandlerState
<1> DEFINE r == [row[a] EXCEPT !.status = "released",
                               !.refund = OrElse(handler[h].snap.blocked, Amount)]
<1>3. row[a] \in Row /\ handler[h].snap \in Row
    BY <1>1 DEF TypeOK, HandlerState
<1>4. OrElse(handler[h].snap.blocked, Amount) \in Money
    BY <1>3, Bounds DEF Row, OrElse, Money
<1>5. r \in Row /\ r.status = "released"
    BY <1>3, <1>4 DEF Row, Status
<1>6. row' = [row EXCEPT ![a] = r]
    BY <1>2 DEF Withdraw
<1>7. handler' = [handler EXCEPT ![h] = Idle]
    BY DEF Withdraw, Finish
<1> HIDE DEF r
<1>8. QED
    BY <1>5, <1>6, <1>7, RowWritten DEF Withdraw

\* A refund is a sum within the bid.
LEMMA RefundTyped ==
    ASSUME NEW r \in Row, NEW n \in 0 .. Amount
    PROVE  Refunded(r, n) \in 0 .. Amount
<1>1. OrElse(r.blocked, Amount) \in 0 .. Amount
    BY Bounds DEF Row, OrElse, Money
<1>2. QED
    BY <1>1, Bounds DEF Refunded

\* An allotment refunds what the shares do not cost.
LEMMA RecordAllotmentStep ==
    ASSUME IInv, NEW h \in Handler, RecordAllotment(h)
    PROVE  IInv'
<1>1. TypeOK
    BY DEF IInv
<1>2. PICK a \in App : a = handler[h].app
    BY <1>1 DEF TypeOK, HandlerState
<1>3. PICK n \in 0 .. Amount :
         row' = [row EXCEPT ![a] = [@ EXCEPT
                    !.status = IF n > 0 THEN "allotted" ELSE "not_allotted",
                    !.allotted = n,
                    !.refund = Refunded(handler[h].snap, n)]]
    BY <1>2 DEF RecordAllotment
<1> DEFINE r == [row[a] EXCEPT !.status = IF n > 0 THEN "allotted" ELSE "not_allotted",
                               !.allotted = n,
                               !.refund = Refunded(handler[h].snap, n)]
<1>4. row[a] \in Row /\ handler[h].snap \in Row
    BY <1>1 DEF TypeOK, HandlerState
<1>5. n \in Money /\ Refunded(handler[h].snap, n) \in Money
    BY <1>4, RefundTyped DEF Money
<1>6. r \in Row /\ r.status # "upi_blocked"
    BY <1>4, <1>5 DEF Row, Status
<1>7. row' = [row EXCEPT ![a] = r]
    BY <1>3
<1>8. handler' = [handler EXCEPT ![h] = Idle]
    BY DEF RecordAllotment, Finish
<1> HIDE DEF r
<1>9. QED
    BY <1>6, <1>7, <1>8, RowWritten DEF RecordAllotment

\* A refresh writes what it fetched, however long ago: that was stated too.
LEMMA RefreshStep ==
    ASSUME IInv, NEW h \in Handler, Refresh(h)
    PROVE  IInv'
<1>1. TypeOK
    BY DEF IInv
<1>2. PICK a \in App : a = handler[h].app
    BY <1>1 DEF TypeOK, HandlerState
<1>3. row[a] \in Row /\ handler[h].patch \in Patch
    BY <1>1 DEF TypeOK, HandlerState
<1> DEFINE r == UpdateStatus(row[a], handler[h].patch)
<1>4. r \in Row /\ r.status = handler[h].patch.status
    BY <1>3, UpdateTyped
<1>5. row' = [row EXCEPT ![a] = r]
    BY <1>1, <1>2 DEF Refresh, TypeOK
<1>6. r.status = "upi_blocked" => BlockWasSaid(a)
    BY <1>2, <1>4 DEF IInv, FetchedWasSaid, Refresh, At
<1>7. handler' = [handler EXCEPT ![h] = Idle]
    BY DEF Refresh, Finish
<1> HIDE DEF r
<1>8. QED
    BY <1>4, <1>5, <1>6, <1>7, RowWritten DEF Refresh

\* Remembering that a mail went out leaves the rest of the row alone.
LEMMA RecordMailStep ==
    ASSUME IInv, NEW h \in Handler, RecordMail(h)
    PROVE  IInv'
<1>1. TypeOK
    BY DEF IInv
<1>2. PICK a \in App : a = handler[h].app
    BY <1>1 DEF TypeOK, HandlerState
<1> DEFINE r == [row[a] EXCEPT !.asked = now]
<1>3. row[a] \in Row /\ now \in Stamp
    BY <1>1 DEF TypeOK, Stamp
<1>4. r \in Row /\ r.status = row[a].status
    BY <1>3 DEF Row
<1>5. row' = [row EXCEPT ![a] = r]
    BY <1>2 DEF RecordMail
<1>6. handler' = [handler EXCEPT ![h] = Idle]
    BY DEF RecordMail, Finish
<1> HIDE DEF r
<1>7. QED
    BY <1>4, <1>5, <1>6, RowWritten DEF RecordMail

-----------------------------------------------------------------------------
(* The steps that write no row.                                            *)

\* A request is replaced by one that keeps its kind, application and patch.
LEMMA HandlerMoved ==
    ASSUME IInv, NEW h \in Handler, NEW g \in HandlerState,
           handler' = [handler EXCEPT ![h] = g],
           \/ g.kind = "idle"
           \/ g.kind = handler[h].kind /\ g.app = handler[h].app /\ g.patch = handler[h].patch,
           UNCHANGED <<record, said, row, bidUpi, now>>,
           upi' \in 0 .. MaxUpi,
           restated' \subseteq App /\ missed' \subseteq App,
           mailed' \in [App -> Seq(0 .. LastDay)]
    PROVE  IInv'
<1>1. TypeOK
    BY DEF IInv
<1>2. /\ handler' \in [Handler -> HandlerState]
      /\ handler'[h] = g
      /\ \A k \in Handler : k # h => handler'[k] = handler[k]
    BY <1>1 DEF TypeOK
<1>3. TypeOK'
    BY <1>1, <1>2 DEF TypeOK
<1>4. \A b \in App : BlockWasSaid(b) => BlockWasSaid(b)'
    BY DEF BlockWasSaid
<1>5. \A k \in Handler :
         \/ handler'[k].kind = "idle"
         \/ /\ handler'[k].kind = handler[k].kind
            /\ handler'[k].app = handler[k].app
            /\ handler'[k].patch = handler[k].patch
    BY <1>2
<1>6. QED
    BY <1>3, <1>4, <1>5, Respects

\* The steps of changeUpi and of the unblock mail, and a request that ends.
LEMMA HandlerStep ==
    ASSUME IInv, NEW h \in Handler,
           SetUpi(h) \/ FindSiblings(h) \/ QueueUpiChange(h) \/ UpiChanged(h) \/ SendMail(h) \/ Abandon(h)
    PROVE  IInv'
<1>1. TypeOK
    BY DEF IInv
<1>2. /\ handler[h] \in HandlerState
      /\ upi \in 0 .. MaxUpi /\ restated \subseteq App /\ missed \subseteq App
      /\ mailed \in [App -> Seq(0 .. LastDay)]
    BY <1>1 DEF TypeOK
<1>3. CASE SetUpi(h)
  <2> DEFINE g == [handler[h] EXCEPT !.phase = "saved"]
  <2>1. g \in HandlerState /\ g.kind = handler[h].kind /\ g.app = handler[h].app /\ g.patch = handler[h].patch
    BY <1>2 DEF HandlerState
  <2>2. handler' = [handler EXCEPT ![h] = g]
    BY <1>3 DEF SetUpi, Advance
  <2>3. upi' \in 0 .. MaxUpi
    BY <1>2, <1>3, Bounds DEF SetUpi
  <2> HIDE DEF g
  <2>4. QED
    BY <1>2, <1>3, <2>1, <2>2, <2>3, HandlerMoved DEF SetUpi
<1>4. CASE FindSiblings(h)
  <2> DEFINE g == [handler[h] EXCEPT !.phase = "restating", !.left = {a \in App : Restatable(a)}]
  <2>1. {a \in App : Restatable(a)} \in SUBSET App /\ missed' \subseteq App
    BY <1>2, <1>4 DEF FindSiblings
  <2>2. g \in HandlerState /\ g.kind = handler[h].kind /\ g.app = handler[h].app /\ g.patch = handler[h].patch
    BY <1>2, <2>1 DEF HandlerState
  <2>3. handler' = [handler EXCEPT ![h] = g]
    BY <1>4 DEF FindSiblings
  <2> HIDE DEF g
  <2>4. QED
    BY <1>2, <1>4, <2>1, <2>2, <2>3, HandlerMoved DEF FindSiblings
<1>5. CASE QueueUpiChange(h)
  <2>1. PICK a \in handler[h].left :
           /\ handler' = [handler EXCEPT ![h].left = @ \ {a}]
           /\ restated' = restated \cup {a} \/ restated' = restated
           /\ missed' = missed \cup {a} \/ missed' = missed \ {a} \/ missed' = missed
    BY <1>5 DEF QueueUpiChange
  <2> DEFINE g == [handler[h] EXCEPT !.left = @ \ {a}]
  <2>2. handler[h].left \in SUBSET App
    BY <1>2 DEF HandlerState
  <2>3. restated' \subseteq App /\ missed' \subseteq App
    BY <1>2, <2>1, <2>2
  <2>4. g \in HandlerState /\ g.kind = handler[h].kind /\ g.app = handler[h].app /\ g.patch = handler[h].patch
    BY <1>2, <2>2 DEF HandlerState
  <2>5. handler' = [handler EXCEPT ![h] = g]
    BY <2>1
  <2> HIDE DEF g
  <2>6. QED
    BY <1>2, <1>5, <2>3, <2>4, <2>5, HandlerMoved DEF QueueUpiChange
<1>6. CASE UpiChanged(h)
    BY <1>2, <1>6, IdleTyped, HandlerMoved DEF UpiChanged, Finish
<1>7. CASE SendMail(h)
  <2>1. PICK a \in App : a = handler[h].app
    BY <1>2 DEF HandlerState
  <2> DEFINE g == [handler[h] EXCEPT !.phase = "sent"]
  <2>2. g \in HandlerState /\ g.kind = handler[h].kind /\ g.app = handler[h].app /\ g.patch = handler[h].patch
    BY <1>2 DEF HandlerState
  <2>3. handler' = [handler EXCEPT ![h] = g]
    BY <1>7 DEF SendMail, Advance
  <2>4. mailed' \in [App -> Seq(0 .. LastDay)]
    <3>1. mailed[a] \in Seq(0 .. LastDay) /\ now \in 0 .. LastDay
      BY <1>1 DEF TypeOK
    <3>2. Append(mailed[a], now) \in Seq(0 .. LastDay)
      BY <3>1, AppendProperties
    <3>3. mailed' = [mailed EXCEPT ![a] = Append(@, now)]
      BY <1>7, <2>1 DEF SendMail
    <3>4. QED
      BY <1>2, <3>2, <3>3
  <2> HIDE DEF g
  <2>5. QED
    BY <1>2, <1>7, <2>2, <2>3, <2>4, HandlerMoved DEF SendMail
<1>8. CASE Abandon(h)
  <2>1. Unreached(h) \subseteq App
    BY <1>2 DEF Unreached, HandlerState
  <2>2. QED
    BY <1>2, <1>8, <2>1, IdleTyped, HandlerMoved DEF Abandon, Finish
<1>9. QED
    BY <1>3, <1>4, <1>5, <1>6, <1>7, <1>8

\* A request starts: a fetched block is one the exchange has on record.
LEMMA ReadStep ==
    ASSUME IInv, NEW h \in Handler, NEW kind \in Request, NEW a \in App, Read(h, kind, a)
    PROVE  IInv'
<1> DEFINE g == [kind |-> kind, phase |-> "read", app |-> a, snap |-> row[a],
                 patch |-> IF kind = "refresh" THEN FetchedPatch(a) ELSE NoPatch, left |-> {}]
<1>1. TypeOK
    BY DEF IInv
<1>2. handler' = [handler EXCEPT ![h] = g]
    BY DEF Read
<1>3. kind \in Kind
    BY RequestAssumption DEF Kind
<1>4. NoPatch \in Patch /\ FetchedPatch(a) \in Patch
    BY <1>1, FetchedTyped, Blanks DEF NoPatch, Patch, Status
<1>5. row[a] \in Row
    BY <1>1 DEF TypeOK
<1>6. g \in HandlerState
    BY <1>3, <1>4, <1>5 DEF HandlerState
<1>7. /\ g.kind = kind /\ g.app = a
      /\ kind = "refresh" /\ g.patch.status = "upi_blocked" => BlockWasSaid(a)
    BY <1>1, FetchedTyped DEF IInv, RecordWasSaid
<1> HIDE DEF g
<1>8. /\ handler' \in [Handler -> HandlerState]
      /\ handler'[h] = g
      /\ \A k \in Handler : k # h => handler'[k] = handler[k]
    BY <1>1, <1>2, <1>6 DEF TypeOK
<1>9. UNCHANGED <<record, said, row, upi, bidUpi, restated, missed, mailed, now>>
    BY DEF Read
<1>10. TypeOK'
    BY <1>1, <1>8, <1>9 DEF TypeOK
<1>11. \A b \in App : BlockWasSaid(b)' <=> BlockWasSaid(b)
    BY <1>9 DEF BlockWasSaid
<1>12. RecordWasSaid' /\ BlockShownIsReal'
    BY <1>9, <1>11 DEF IInv, RecordWasSaid, BlockShownIsReal
<1>13. FetchedWasSaid'
    BY <1>7, <1>8, <1>11 DEF IInv, FetchedWasSaid
<1>14. QED
    BY <1>10, <1>12, <1>13 DEF IInv

\* The clock moves only while no request is running.
LEMMA TickStep ==
    ASSUME IInv, Tick
    PROVE  IInv'
<1>1. TypeOK
    BY DEF IInv
<1>2. /\ now' = now + 1 /\ now' \in 0 .. LastDay /\ now \in Nat
      /\ \A h \in Handler : handler[h].kind = "idle"
      /\ UNCHANGED <<record, said, row, handler, upi, bidUpi, restated, missed, mailed>>
    BY <1>1, Bounds DEF Tick, TypeOK
<1>3. TypeOK'
    BY <1>1, <1>2 DEF TypeOK
<1>4. \A b \in App : BlockWasSaid(b)' <=> BlockWasSaid(b)
    BY <1>2 DEF BlockWasSaid
<1>5. RecordWasSaid' /\ BlockShownIsReal'
    BY <1>2, <1>4 DEF IInv, RecordWasSaid, BlockShownIsReal
<1>6. FetchedWasSaid'
    BY <1>2 DEF FetchedWasSaid
<1>7. QED
    BY <1>3, <1>5, <1>6 DEF IInv

-----------------------------------------------------------------------------
(* The theorems.                                                           *)

\* Every step keeps the invariant.
LEMMA StepIInv == IInv /\ [Next]_vars => IInv'
<1> SUFFICES ASSUME IInv, [Next]_vars PROVE IInv'
    OBVIOUS
<1>1. CASE \E a \in App : StateDp(a) \/ StatePay(a) \/ Deliver(a) \/ SaveNumber(a)
    BY <1>1, StateDpStep, StatePayStep, DeliverStep, SaveNumberStep
<1>2. CASE \E h \in Handler : Serve(h)
  <2> SUFFICES ASSUME NEW h \in Handler, Serve(h) PROVE IInv'
    BY <1>2
  <2>1. CASE \E k \in Request, a \in App : Read(h, k, a)
    BY <2>1, ReadStep
  <2>2. CASE Withdraw(h) \/ RecordAllotment(h) \/ Refresh(h) \/ RecordMail(h)
    BY <2>2, WithdrawStep, RecordAllotmentStep, RefreshStep, RecordMailStep
  <2>3. CASE SetUpi(h) \/ FindSiblings(h) \/ QueueUpiChange(h) \/ UpiChanged(h) \/ SendMail(h) \/ Abandon(h)
    BY <2>3, HandlerStep
  <2>4. QED
    BY <2>1, <2>2, <2>3 DEF Serve
<1>3. CASE Tick
    BY <1>3, TickStep
<1>4. CASE UNCHANGED vars
  <2>1. UNCHANGED <<record, said, row, handler, upi, bidUpi, restated, missed, mailed, now>>
    BY <1>4 DEF vars
  <2>2. TypeOK'
    BY <2>1 DEF IInv, TypeOK
  <2>3. \A b \in App : BlockWasSaid(b)' <=> BlockWasSaid(b)
    BY <2>1 DEF BlockWasSaid
  <2>4. RecordWasSaid' /\ FetchedWasSaid' /\ BlockShownIsReal'
    BY <2>1, <2>3 DEF IInv, RecordWasSaid, FetchedWasSaid, BlockShownIsReal
  <2>5. QED
    BY <2>2, <2>4 DEF IInv
<1>5. QED
    BY <1>1, <1>2, <1>3, <1>4 DEF Next

\* IInv holds in every reachable state, whatever is late, repeated or lost.
THEOREM Invariance == Spec => []IInv
BY InitIInv, StepIInv, PTL DEF Spec

\* Every column keeps its type through push, pull, withdrawal, allotment and unblock.
THEOREM TypeCorrect == Spec => []TypeOK
<1>1. IInv => TypeOK
    BY DEF IInv
<1>2. QED
    BY <1>1, Invariance, PTL

\* No late, repeated or stale statement shows an investor a block that the
\* exchange never stated (updateStatus, of the push and of the refresh).
THEOREM BlockReal == Spec => []BlockShownIsReal
<1>1. IInv => BlockShownIsReal
    BY DEF IInv
<1>2. QED
    BY <1>1, Invariance, PTL

-----------------------------------------------------------------------------
(* What the row tells the investor, and what the bank is asked for, was    *)
(* stated.  The reason is the same as for a block: every sentence, failure *)
(* and sum on its way to a row comes from the history, which only grows.   *)

PaySaid(a, c) == \E i \in DOMAIN said[a] : said[a][i].kind = "pay" /\ said[a][i].code = c
SentenceSaid(a, t) ==
    \E i \in DOMAIN said[a] : said[a][i].kind = "pay" /\ t \in {said[a][i].code, said[a][i].reason}
FailureSaid(a) == \E i \in DOMAIN said[a] : said[a][i].code \in {"F"} \cup Rejection

\* A sentence, a failure and a sum that were all stated.
Backed(a, text, failed, amount) ==
    /\ text # NoText => SentenceSaid(a, text)
    /\ failed => FailureSaid(a)
    /\ amount > 0 => BlockWasSaid(a)

Failure == {"rejected", "dp_failed"}
RowBacked(a) == Backed(a, row[a].text, row[a].reason # "", row[a].blocked)
PatchBacked(a, p) == Backed(a, p.text, p.status \in Failure, p.amount)

\* A sum above nothing is only stated of an accepted mandate.
SumsSaid == \A a \in App : \A i \in DOMAIN said[a] :
    said[a][i].amount > 0 => said[a][i].kind = "pay" /\ said[a][i].code = "100"

\* What the exchange has on record it stated.
RecordBacked(a) ==
    /\ record[a].pay # "none" => PaySaid(a, record[a].pay)
    /\ record[a].dp = "F" => FailureSaid(a)
    /\ record[a].amount > 0 => BlockWasSaid(a)

\* A request that is about to mail the bank has found a block, and it is late.
RequestBacked(h) ==
    /\ handler[h].kind = "refresh" => PatchBacked(handler[h].app, handler[h].patch)
    /\ handler[h].kind = "requestUnblock" => BlockWasSaid(handler[h].app) /\ now > AllotmentDay

HInv ==
    /\ SumsSaid
    /\ \A a \in App : RecordBacked(a) /\ RowBacked(a)
    /\ \A h \in Handler : RequestBacked(h)
    /\ UnblockOnlyOfBlocked

Remembered == \A a \in App : \A i \in DOMAIN said[a] : i \in DOMAIN said'[a] /\ said'[a][i] = said[a][i]

\* An amount left out, and none, are not above nothing.
LEMMA NoSum == ~(NoAmount > 0) /\ ~(0 > 0)
BY DEF NoAmount

\* What was stated stays stated.
LEMMA BackedStays ==
    ASSUME Remembered, NEW a \in App
    PROVE  /\ BlockWasSaid(a) => BlockWasSaid(a)'
           /\ FailureSaid(a) => FailureSaid(a)'
           /\ \A t : SentenceSaid(a, t) => SentenceSaid(a, t)'
           /\ \A c : PaySaid(a, c) => PaySaid(a, c)'
<1>1. BlockWasSaid(a) => BlockWasSaid(a)'
    BY DEF Remembered, BlockWasSaid
<1>2. FailureSaid(a) => FailureSaid(a)'
    BY DEF Remembered, FailureSaid
<1>3. \A t : SentenceSaid(a, t) => SentenceSaid(a, t)'
    BY DEF Remembered, SentenceSaid
<1>4. \A c : PaySaid(a, c) => PaySaid(a, c)'
    BY DEF Remembered, PaySaid
<1>5. QED
    BY <1>1, <1>2, <1>3, <1>4

\* What a patch carries is what a status write puts into the row.
LEMMA UpdateBacked ==
    ASSUME NEW a \in App, NEW r \in Row, NEW p \in Patch,
           Backed(a, r.text, r.reason # "", r.blocked), PatchBacked(a, p)
    PROVE  LET u == UpdateStatus(r, p) IN Backed(a, u.text, u.reason # "", u.blocked)
<1> DEFINE u == UpdateStatus(r, p)
<1>1. u.text \in {r.text, p.text} /\ (u.text # r.text => p.text # NoText)
    BY DEF UpdateStatus, Row
<1>2. u.reason # "" => r.reason # "" \/ p.status \in Failure
    BY DEF UpdateStatus, Row, Failure
<1>3. u.blocked \in {r.blocked, p.amount}
    BY DEF UpdateStatus, Row, OrElse
<1> HIDE DEF u
<1>4. /\ r.text # NoText => SentenceSaid(a, r.text)
      /\ r.reason # "" => FailureSaid(a)
      /\ r.blocked > 0 => BlockWasSaid(a)
    BY DEF Backed
<1>5. /\ p.text # NoText => SentenceSaid(a, p.text)
      /\ p.status \in Failure => FailureSaid(a)
      /\ p.amount > 0 => BlockWasSaid(a)
    BY DEF Backed, PatchBacked
<1>6. CASE u.text = r.text
    BY <1>2, <1>3, <1>4, <1>5, <1>6 DEF Backed, u
<1>7. CASE u.text = p.text
    BY <1>2, <1>3, <1>4, <1>5, <1>7 DEF Backed, u
<1>8. QED
    BY <1>1, <1>6, <1>7

\* A failure shown comes from a code that is one.
LEMMA FailureCodes ==
    ASSUME NEW c
    PROVE  /\ MapUpiStatus(c) \in Failure => c \in Rejection
           /\ MapDpStatus(c) \in Failure => c = "F"
BY DEF MapUpiStatus, MapDpStatus, Failure, Rejection

\* A callback carries what its statement says.
LEMMA CallbackBacked ==
    ASSUME TypeOK, SumsSaid, NEW a \in App, NEW i \in DOMAIN said[a]
    PROVE  PatchBacked(a, CallbackPatch(said[a][i]))
<1> DEFINE st == said[a][i]
<1>1. said[a] \in Seq(Statement) /\ i \in 1 .. Len(said[a])
    BY DEF TypeOK
<1>2. st \in Statement
    BY <1>1
<1>3. st.amount > 0 => st.kind = "pay" /\ st.code = "100"
    BY DEF SumsSaid
<1>4. CASE st.kind = "dp"
  <2>1. CallbackPatch(st) =
          [status |-> MapDpStatus(st.code), amount |-> NoAmount, reason |-> st.reason,
           text |-> NoText, textAt |-> Never]
    BY <1>4 DEF CallbackPatch
  <2>2. MapDpStatus(st.code) \in Failure => FailureSaid(a)
    BY FailureCodes DEF FailureSaid
  <2>3. ~(NoAmount > 0)
    BY DEF NoAmount
  <2>4. QED
    BY <2>1, <2>2, <2>3 DEF PatchBacked, Backed
<1>5. CASE st.kind # "dp"
  <2>1. st.kind = "pay"
    BY <1>2, <1>5 DEF Statement
  <2>2. CallbackPatch(st) =
          [status |-> MapUpiStatus(st.code), amount |-> st.amount, reason |-> st.reason,
           text |-> SentenceOf(st), textAt |-> now]
    BY <1>5 DEF CallbackPatch
  <2>3. MapUpiStatus(st.code) \in Failure => FailureSaid(a)
    BY FailureCodes DEF FailureSaid
  <2>4. SentenceOf(st) # NoText => SentenceSaid(a, SentenceOf(st))
    BY <2>1 DEF SentenceOf, UpiStatusLabel, SentenceSaid
  <2>5. st.amount > 0 => BlockWasSaid(a)
    BY <1>3 DEF BlockWasSaid
  <2>6. QED
    BY <2>2, <2>3, <2>4, <2>5 DEF PatchBacked, Backed
<1>6. QED
    BY <1>4, <1>5

\* So does a refresh of what the exchange has on record.
LEMMA FetchedBacked ==
    ASSUME NEW a \in App, RecordBacked(a)
    PROVE  PatchBacked(a, FetchedPatch(a))
<1>1. CASE record[a].pay # "none"
  <2>1. FetchedPatch(a) =
          [status |-> MapUpiStatus(record[a].pay), amount |-> record[a].amount,
           reason |-> "record", text |-> UpiStatusLabel(record[a].pay), textAt |-> now]
    BY <1>1 DEF FetchedPatch
  <2>2. MapUpiStatus(record[a].pay) \in Failure => FailureSaid(a)
    BY <1>1, FailureCodes DEF RecordBacked, PaySaid, FailureSaid
  <2>3. UpiStatusLabel(record[a].pay) # NoText => SentenceSaid(a, UpiStatusLabel(record[a].pay))
    BY <1>1 DEF RecordBacked, PaySaid, UpiStatusLabel, SentenceSaid
  <2>4. QED
    BY <2>1, <2>2, <2>3 DEF RecordBacked, PatchBacked, Backed
<1>2. CASE record[a].pay = "none"
  <2>1. FetchedPatch(a) =
          [status |-> MapDpStatus(record[a].dp), amount |-> NoAmount, reason |-> "record",
           text |-> NoText, textAt |-> Never]
    BY <1>2 DEF FetchedPatch
  <2>2. MapDpStatus(record[a].dp) \in Failure => FailureSaid(a)
    BY FailureCodes DEF RecordBacked
  <2>3. ~(NoAmount > 0)
    BY DEF NoAmount
  <2>4. QED
    BY <2>1, <2>2, <2>3 DEF PatchBacked, Backed
<1>3. QED
    BY <1>1, <1>2

\* Nothing was stated, shown or mailed at the start.
LEMMA InitHInv == Init => HInv
<1> SUFFICES ASSUME Init PROVE HInv
    OBVIOUS
<1>1. SumsSaid /\ UnblockOnlyOfBlocked
    BY DEF Init, SumsSaid, UnblockOnlyOfBlocked
<1>2. \A a \in App : RecordBacked(a)
    BY DEF Init, RecordBacked, NoAmount
<1>3. \A a \in App : FirstRow(a).text = NoText /\ FirstRow(a).reason = "" /\ FirstRow(a).blocked = NoAmount
    BY DEF FirstRow, NoRow
<1>4. \A a \in App : RowBacked(a)
  <2>1. \A a \in App : row[a] = FirstRow(a)
    BY DEF Init
  <2>2. ~(NoAmount > 0)
    BY DEF NoAmount
  <2>3. QED
    BY <1>3, <2>1, <2>2 DEF RowBacked, Backed
<1>5. \A h \in Handler : RequestBacked(h)
    BY IdleTyped DEF Init, RequestBacked
<1>6. QED
    BY <1>1, <1>2, <1>4, <1>5 DEF HInv

\* A step that states nothing keeps HInv when each row it writes is backed and
\* each request ends or keeps what it fetched.
LEMMA QuietKeeps ==
    ASSUME IInv, HInv, UNCHANGED <<record, said, mailed, now>>,
           \A a \in App : Backed(a, row'[a].text, row'[a].reason # "", row'[a].blocked),
           \A h \in Handler :
              \/ handler'[h].kind = "idle"
              \/ /\ handler'[h].kind = handler[h].kind
                 /\ handler'[h].app = handler[h].app
                 /\ handler'[h].patch = handler[h].patch
    PROVE  HInv'
<1>1. \A a \in App : /\ BlockWasSaid(a)' <=> BlockWasSaid(a)
                     /\ FailureSaid(a)' <=> FailureSaid(a)
                     /\ \A t : SentenceSaid(a, t)' <=> SentenceSaid(a, t)
                     /\ \A c : PaySaid(a, c)' <=> PaySaid(a, c)
    BY DEF BlockWasSaid, FailureSaid, SentenceSaid, PaySaid
<1>2. \A h \in Handler : handler[h].app \in App
    BY DEF IInv, TypeOK, HandlerState
<1>3. SumsSaid' /\ UnblockOnlyOfBlocked'
    BY <1>1 DEF HInv, SumsSaid, UnblockOnlyOfBlocked
<1>4. \A a \in App : RecordBacked(a)'
    BY <1>1 DEF HInv, RecordBacked
<1>5. \A a \in App : RowBacked(a)'
    BY <1>1 DEF RowBacked, Backed
<1>6. ASSUME NEW h \in Handler PROVE RequestBacked(h)'
  <2>1. RequestBacked(h)
    BY DEF HInv
  <2>2. CASE handler'[h].kind = "idle"
    BY <2>2 DEF RequestBacked
  <2>3. CASE handler'[h].kind = handler[h].kind /\ handler'[h].app = handler[h].app /\ handler'[h].patch = handler[h].patch
    BY <1>1, <1>2, <2>1, <2>3 DEF RequestBacked, PatchBacked, Backed
  <2>4. QED
    BY <2>2, <2>3
<1>7. QED
    BY <1>3, <1>4, <1>5, <1>6 DEF HInv

\* One row is replaced by a backed one, and its request is over.
LEMMA RowKeeps ==
    ASSUME IInv, HInv, NEW a \in App, NEW r,
           row' = [row EXCEPT ![a] = r], Backed(a, r.text, r.reason # "", r.blocked),
           UNCHANGED <<record, said, mailed, now>>,
           handler' = handler \/ \E h \in Handler : handler' = [handler EXCEPT ![h] = Idle]
    PROVE  HInv'
<1>1. row \in [App -> Row] /\ handler \in [Handler -> HandlerState]
    BY DEF IInv, TypeOK
<1>2. row'[a] = r /\ \A b \in App : b # a => row'[b] = row[b]
    BY <1>1
<1>3. \A b \in App : Backed(b, row[b].text, row[b].reason # "", row[b].blocked)
    BY DEF HInv, RowBacked
<1>4. \A b \in App : Backed(b, row'[b].text, row'[b].reason # "", row'[b].blocked)
    BY <1>2, <1>3
<1>5. \A h \in Handler : handler'[h] = Idle \/ handler'[h] = handler[h]
    BY <1>1
<1>6. QED
    BY <1>4, <1>5, IdleTyped, QuietKeeps

\* One more statement, which names no sum but of an accepted mandate, and what
\* the exchange has on record afterwards.
LEMMA StateKeeps ==
    ASSUME IInv, HInv, NEW a \in App, NEW st \in Statement,
           said' = [said EXCEPT ![a] = Append(@, st)],
           st.amount > 0 => st.kind = "pay" /\ st.code = "100",
           UNCHANGED <<row, handler, mailed, now>>,
           \A b \in App : b # a => record'[b] = record[b],
           \/ st.kind = "pay" /\ record'[a].pay = st.code /\ record'[a].amount = st.amount /\ record'[a].dp = record[a].dp
           \/ st.kind = "dp" /\ record'[a].dp = st.code /\ record'[a].pay = record[a].pay /\ record'[a].amount = record[a].amount
    PROVE  HInv'
<1>1. said \in [App -> Seq(Statement)] /\ said[a] \in Seq(Statement)
    BY DEF IInv, TypeOK
<1>2. /\ DOMAIN Append(said[a], st) = 1 .. Len(said[a]) + 1 /\ DOMAIN said[a] = 1 .. Len(said[a])
      /\ Len(said[a]) \in Nat
      /\ \A i \in 1 .. Len(said[a]) : Append(said[a], st)[i] = said[a][i]
      /\ Append(said[a], st)[Len(said[a]) + 1] = st
    BY <1>1, AppendProperties, LenProperties
<1>3. said'[a] = Append(said[a], st) /\ \A b \in App : b # a => said'[b] = said[b]
    BY <1>1
<1>4. /\ \A i \in DOMAIN said'[a] : said'[a][i] = st \/ (i \in DOMAIN said[a] /\ said'[a][i] = said[a][i])
      /\ \E i \in DOMAIN said'[a] : said'[a][i] = st
    BY <1>2, <1>3
<1>5. Remembered
    BY <1>2, <1>3 DEF Remembered
<1>6. SumsSaid'
    BY <1>3, <1>4 DEF HInv, SumsSaid
<1>7. ASSUME NEW b \in App PROVE RecordBacked(b)'
  <2>1. RecordBacked(b)
    BY DEF HInv
  <2>2. CASE b # a
    BY <1>5, <2>1, <2>2, BackedStays DEF RecordBacked
  <2>3. CASE b = a /\ st.kind = "pay"
    <3>1. PaySaid(a, st.code)'
      BY <1>4, <2>3 DEF PaySaid
    <3>2. st.amount > 0 => BlockWasSaid(a)'
      BY <1>4, <2>3 DEF BlockWasSaid
    <3>3. record'[a].pay = st.code /\ record'[a].amount = st.amount /\ record'[a].dp = record[a].dp
      BY <2>3
    <3>4. QED
      BY <1>5, <2>1, <2>3, <3>1, <3>2, <3>3, BackedStays DEF RecordBacked
  <2>4. CASE b = a /\ st.kind = "dp"
    <3>1. st.code = "F" => FailureSaid(a)'
      BY <1>4, <2>4 DEF FailureSaid
    <3>2. record'[a].dp = st.code /\ record'[a].pay = record[a].pay /\ record'[a].amount = record[a].amount
      BY <2>4
    <3>3. QED
      BY <1>5, <2>1, <2>4, <3>1, <3>2, BackedStays DEF RecordBacked
  <2>5. QED
    BY <2>2, <2>3, <2>4
<1>8. ASSUME NEW b \in App PROVE RowBacked(b)'
  <2>1. RowBacked(b)
    BY DEF HInv
  <2>2. QED
    BY <1>5, <2>1, BackedStays DEF RowBacked, Backed
<1>9. ASSUME NEW h \in Handler PROVE RequestBacked(h)'
  <2>1. RequestBacked(h) /\ handler[h].app \in App
    BY DEF HInv, IInv, TypeOK, HandlerState
  <2>2. QED
    BY <1>5, <2>1, BackedStays DEF RequestBacked, PatchBacked, Backed
<1>10. UnblockOnlyOfBlocked'
    BY <1>5, BackedStays DEF HInv, UnblockOnlyOfBlocked
<1>11. QED
    BY <1>6, <1>7, <1>8, <1>9, <1>10 DEF HInv

\* A sum of the depository's is none; one of the bank's is above nothing only
\* with an accepted mandate.
LEMMA ExchangeKeeps ==
    ASSUME IInv, HInv, NEW a \in App, StateDp(a) \/ StatePay(a)
    PROVE  HInv'
<1>1. record \in [App -> Record]
    BY DEF IInv, TypeOK
<1>2. CASE StateDp(a)
  <2>1. PICK f \in DpFlag, why \in {"", "depository"} :
           /\ record' = [record EXCEPT ![a].dp = f]
           /\ State(a, [kind |-> "dp", code |-> f, amount |-> NoAmount, reason |-> why])
    BY <1>2 DEF StateDp
  <2> DEFINE st == [kind |-> "dp", code |-> f, amount |-> NoAmount, reason |-> why]
  <2>2. st \in Statement /\ st.kind = "dp" /\ st.code = f /\ st.amount = NoAmount
    BY DEF Statement
  <2>3. said' = [said EXCEPT ![a] = Append(@, st)] /\ UNCHANGED <<row, handler, mailed, now>>
    BY <2>1 DEF State
  <2>4. /\ record'[a].dp = f /\ record'[a].pay = record[a].pay /\ record'[a].amount = record[a].amount
        /\ \A b \in App : b # a => record'[b] = record[b]
    BY <1>1, <2>1 DEF Record
  <2> HIDE DEF st
  <2>5. QED
    BY <2>2, <2>3, <2>4, NoSum, StateKeeps
<1>3. CASE StatePay(a)
  <2>1. PICK c \in Code, amount \in {NoAmount, 0, Amount}, why \in {"", "bank"} :
           /\ amount = Amount <=> c = "100"
           /\ record' = [record EXCEPT ![a] = [@ EXCEPT !.pay = c, !.amount = amount]]
           /\ State(a, [kind |-> "pay", code |-> c, amount |-> amount, reason |-> why])
    BY <1>3 DEF StatePay
  <2> DEFINE st == [kind |-> "pay", code |-> c, amount |-> amount, reason |-> why]
  <2>2. amount \in Money
    <3>1. NoAmount \in Money
      BY Blanks
    <3>2. QED
      BY <3>1, WholeAmounts
  <2>3. st \in Statement /\ st.kind = "pay" /\ st.code = c /\ st.amount = amount
    BY <2>2 DEF Statement
  <2>4. amount > 0 => c = "100"
    <3>1. amount = NoAmount \/ amount = 0 \/ amount = Amount
      OBVIOUS
    <3>2. QED
      BY <2>1, <3>1, NoSum
  <2>5. said' = [said EXCEPT ![a] = Append(@, st)] /\ UNCHANGED <<row, handler, mailed, now>>
    BY <2>1 DEF State
  <2>6. /\ record'[a].pay = c /\ record'[a].amount = amount /\ record'[a].dp = record[a].dp
        /\ \A b \in App : b # a => record'[b] = record[b]
    BY <1>1, <2>1 DEF Record
  <2> HIDE DEF st
  <2>7. QED
    BY <2>3, <2>4, <2>5, <2>6, StateKeeps
<1>4. QED
    BY <1>2, <1>3

\* The writes of a status, and those that leave sentence, reason and sum alone.
LEMMA WriteKeeps ==
    ASSUME IInv, HInv, NEW a \in App, Deliver(a) \/ SaveNumber(a)
    PROVE  HInv'
<1>1. TypeOK /\ row[a] \in Row /\ SumsSaid
    BY DEF IInv, HInv, TypeOK
<1>2. Backed(a, row[a].text, row[a].reason # "", row[a].blocked)
    BY DEF HInv, RowBacked
<1>3. CASE Deliver(a)
  <2>1. PICK i \in DOMAIN said[a] :
           /\ row' = IF row[a].number
                       THEN [row EXCEPT ![a] = UpdateStatus(@, CallbackPatch(said[a][i]))]
                       ELSE row
           /\ UNCHANGED <<record, said, handler, upi, bidUpi, restated, missed, mailed, now>>
    BY <1>3 DEF Deliver
  <2>2. i \in DOMAIN said[a]
    BY <2>1
  <2> DEFINE p == CallbackPatch(said[a][i])
  <2>3. said[a][i] \in Statement
    BY <1>1, <2>2 DEF TypeOK
  <2>4. p \in Patch /\ PatchBacked(a, p)
    BY <1>1, <2>2, <2>3, CallbackTyped, CallbackBacked
  <2> DEFINE u == UpdateStatus(row[a], p)
  <2> HIDE DEF p
  <2>5. Backed(a, u.text, u.reason # "", u.blocked)
    BY <1>1, <1>2, <2>4, UpdateBacked
  <2>6. row' = [row EXCEPT ![a] = u] \/ row' = [row EXCEPT ![a] = row[a]]
    BY <1>1, <2>1 DEF TypeOK, p
  <2> HIDE DEF u
  <2>7. QED
    BY <1>2, <2>1, <2>5, <2>6, RowKeeps
<1>4. CASE SaveNumber(a)
  <2> DEFINE r == [row[a] EXCEPT !.number = TRUE, !.status = "submitted", !.reason = ""]
  <2>1. row' = [row EXCEPT ![a] = r] /\ UNCHANGED <<record, said, handler, mailed, now>>
    BY <1>4 DEF SaveNumber
  <2>2. r.text = row[a].text /\ r.reason = "" /\ r.blocked = row[a].blocked
    BY <1>1 DEF Row
  <2> HIDE DEF r
  <2>3. Backed(a, r.text, r.reason # "", r.blocked)
    BY <1>2, <2>2 DEF Backed
  <2>4. QED
    BY <2>1, <2>3, RowKeeps
<1>5. QED
    BY <1>3, <1>4

\* The requests that end by writing the row.
LEMMA RequestKeeps ==
    ASSUME IInv, HInv, NEW h \in Handler,
           Withdraw(h) \/ RecordAllotment(h) \/ Refresh(h) \/ RecordMail(h)
    PROVE  HInv'
<1>1. TypeOK
    BY DEF IInv
<1>2. PICK a \in App : a = handler[h].app
    BY <1>1 DEF TypeOK, HandlerState
<1>3. row[a] \in Row /\ handler[h].patch \in Patch
    BY <1>1 DEF TypeOK, HandlerState
<1>4. Backed(a, row[a].text, row[a].reason # "", row[a].blocked)
    BY DEF HInv, RowBacked
<1>5. UNCHANGED <<record, said, mailed, now>> /\ handler' = [handler EXCEPT ![h] = Idle]
    BY DEF Withdraw, RecordAllotment, Refresh, RecordMail, Finish
<1>6. ASSUME NEW r, row' = [row EXCEPT ![a] = r],
             r.text = row[a].text, r.reason = row[a].reason, r.blocked = row[a].blocked
      PROVE  HInv'
  <2>1. Backed(a, r.text, r.reason # "", r.blocked)
    BY <1>4, <1>6
  <2>2. QED
    BY <1>5, <1>6, <2>1, RowKeeps
<1>7. CASE Withdraw(h)
  <2> DEFINE r == [row[a] EXCEPT !.status = "released",
                                 !.refund = OrElse(handler[h].snap.blocked, Amount)]
  <2>1. row' = [row EXCEPT ![a] = r]
    BY <1>2, <1>7 DEF Withdraw
  <2>2. r.text = row[a].text /\ r.reason = row[a].reason /\ r.blocked = row[a].blocked
    BY <1>3 DEF Row
  <2> HIDE DEF r
  <2>3. QED
    BY <1>6, <2>1, <2>2
<1>8. CASE RecordAllotment(h)
  <2>1. PICK n \in 0 .. Amount :
           row' = [row EXCEPT ![a] = [@ EXCEPT
                      !.status = IF n > 0 THEN "allotted" ELSE "not_allotted",
                      !.allotted = n,
                      !.refund = Refunded(handler[h].snap, n)]]
    BY <1>2, <1>8 DEF RecordAllotment
  <2> DEFINE r == [row[a] EXCEPT !.status = IF n > 0 THEN "allotted" ELSE "not_allotted",
                                 !.allotted = n,
                                 !.refund = Refunded(handler[h].snap, n)]
  <2>2. row' = [row EXCEPT ![a] = r]
    BY <2>1
  <2>3. r.text = row[a].text /\ r.reason = row[a].reason /\ r.blocked = row[a].blocked
    BY <1>3 DEF Row
  <2> HIDE DEF r
  <2>4. QED
    BY <1>6, <2>2, <2>3
<1>9. CASE Refresh(h)
  <2>1. PatchBacked(a, handler[h].patch)
    BY <1>2, <1>9 DEF HInv, RequestBacked, Refresh, At
  <2> DEFINE u == UpdateStatus(row[a], handler[h].patch)
  <2>2. row' = [row EXCEPT ![a] = u]
    BY <1>1, <1>2, <1>9 DEF Refresh, TypeOK
  <2>3. Backed(a, u.text, u.reason # "", u.blocked)
    BY <1>3, <1>4, <2>1, UpdateBacked
  <2> HIDE DEF u
  <2>4. QED
    BY <1>5, <2>2, <2>3, RowKeeps
<1>10. CASE RecordMail(h)
  <2> DEFINE r == [row[a] EXCEPT !.asked = now]
  <2>1. row' = [row EXCEPT ![a] = r]
    BY <1>2, <1>10 DEF RecordMail
  <2>2. r.text = row[a].text /\ r.reason = row[a].reason /\ r.blocked = row[a].blocked
    BY <1>3 DEF Row
  <2> HIDE DEF r
  <2>3. QED
    BY <1>6, <2>1, <2>2
<1>11. QED
    BY <1>7, <1>8, <1>9, <1>10

\* The steps of a request that write no row and mail nobody.
LEMMA MoveKeeps ==
    ASSUME IInv, HInv, NEW h \in Handler,
           SetUpi(h) \/ FindSiblings(h) \/ QueueUpiChange(h) \/ UpiChanged(h) \/ Abandon(h)
    PROVE  HInv'
<1>1. handler[h] \in HandlerState /\ handler \in [Handler -> HandlerState]
    BY DEF IInv, TypeOK
<1>2. UNCHANGED <<record, said, row, mailed, now>>
    BY DEF SetUpi, FindSiblings, QueueUpiChange, UpiChanged, Abandon
<1>3. \A a \in App : Backed(a, row'[a].text, row'[a].reason # "", row'[a].blocked)
    BY <1>2 DEF HInv, RowBacked
<1>4. ASSUME NEW g, handler' = [handler EXCEPT ![h] = g],
             \/ g.kind = "idle"
             \/ g.kind = handler[h].kind /\ g.app = handler[h].app /\ g.patch = handler[h].patch
      PROVE  HInv'
  <2>1. handler'[h] = g /\ \A k \in Handler : k # h => handler'[k] = handler[k]
    BY <1>1, <1>4
  <2>2. QED
    BY <1>2, <1>3, <1>4, <2>1, QuietKeeps
<1>5. CASE SetUpi(h)
  <2> DEFINE g == [handler[h] EXCEPT !.phase = "saved"]
  <2>1. g.kind = handler[h].kind /\ g.app = handler[h].app /\ g.patch = handler[h].patch
    BY <1>1 DEF HandlerState
  <2>2. handler' = [handler EXCEPT ![h] = g]
    BY <1>5 DEF SetUpi, Advance
  <2> HIDE DEF g
  <2>3. QED
    BY <1>4, <2>1, <2>2
<1>6. CASE FindSiblings(h)
  <2> DEFINE g == [handler[h] EXCEPT !.phase = "restating", !.left = {a \in App : Restatable(a)}]
  <2>1. g.kind = handler[h].kind /\ g.app = handler[h].app /\ g.patch = handler[h].patch
    BY <1>1 DEF HandlerState
  <2>2. handler' = [handler EXCEPT ![h] = g]
    BY <1>6 DEF FindSiblings
  <2> HIDE DEF g
  <2>3. QED
    BY <1>4, <2>1, <2>2
<1>7. CASE QueueUpiChange(h)
  <2>1. PICK b \in handler[h].left : handler' = [handler EXCEPT ![h].left = @ \ {b}]
    BY <1>7 DEF QueueUpiChange
  <2> DEFINE g == [handler[h] EXCEPT !.left = @ \ {b}]
  <2>2. g.kind = handler[h].kind /\ g.app = handler[h].app /\ g.patch = handler[h].patch
    BY <1>1 DEF HandlerState
  <2>3. handler' = [handler EXCEPT ![h] = g]
    BY <2>1
  <2> HIDE DEF g
  <2>4. QED
    BY <1>4, <2>2, <2>3
<1>8. CASE UpiChanged(h) \/ Abandon(h)
    BY <1>4, <1>8, IdleTyped DEF UpiChanged, Abandon, Finish
<1>9. QED
    BY <1>5, <1>6, <1>7, <1>8

\* The mail goes out in the same day as the check that allowed it.
LEMMA SendMailKeeps ==
    ASSUME IInv, HInv, NEW h \in Handler, SendMail(h)
    PROVE  HInv'
<1>1. handler \in [Handler -> HandlerState] /\ handler[h] \in HandlerState /\ mailed \in [App -> Seq(0 .. LastDay)]
    BY DEF IInv, TypeOK
<1>2. PICK a \in App : a = handler[h].app
    BY <1>1 DEF HandlerState
<1>3. BlockWasSaid(a) /\ now > AllotmentDay
    BY <1>2 DEF SendMail, At, HInv, RequestBacked
<1>4. UNCHANGED <<record, said, row, now>>
    BY DEF SendMail
<1>5. mailed' = [mailed EXCEPT ![a] = Append(@, now)]
    BY <1>2 DEF SendMail
<1>6. mailed[a] \in Seq(0 .. LastDay)
    BY <1>1
<1>7. /\ mailed'[a] = Append(mailed[a], now) /\ Len(mailed[a]) \in Nat
      /\ DOMAIN Append(mailed[a], now) = 1 .. Len(mailed[a]) + 1 /\ DOMAIN mailed[a] = 1 .. Len(mailed[a])
      /\ \A i \in 1 .. Len(mailed[a]) : Append(mailed[a], now)[i] = mailed[a][i]
      /\ Append(mailed[a], now)[Len(mailed[a]) + 1] = now
    BY <1>1, <1>5, <1>6, AppendProperties, LenProperties
<1>8. \A b \in App : BlockWasSaid(b)' <=> BlockWasSaid(b)
    BY <1>4 DEF BlockWasSaid
<1>9. UnblockOnlyOfBlocked'
  <2> SUFFICES ASSUME NEW b \in App, mailed'[b] # <<>>
               PROVE  BlockWasSaid(b)' /\ \A i \in DOMAIN mailed'[b] : mailed'[b][i] > AllotmentDay
    BY DEF UnblockOnlyOfBlocked
  <2>1. CASE b # a
    BY <1>1, <1>5, <1>8, <2>1 DEF HInv, UnblockOnlyOfBlocked
  <2>2. CASE b = a
    <3>1. \A i \in DOMAIN mailed[a] : mailed[a][i] > AllotmentDay
      <4>1. CASE mailed[a] = <<>>
        BY <1>6, <4>1, EmptySeq
      <4>2. CASE mailed[a] # <<>>
        BY <4>2 DEF HInv, UnblockOnlyOfBlocked
      <4>3. QED
        BY <4>1, <4>2
    <3>2. QED
      BY <1>3, <1>7, <1>8, <2>2, <3>1
  <2>3. QED
    BY <2>1, <2>2
<1>10. handler'[h].kind = handler[h].kind /\ handler'[h].app = handler[h].app /\ handler'[h].patch = handler[h].patch
  <2> DEFINE g == [handler[h] EXCEPT !.phase = "sent"]
  <2>1. g.kind = handler[h].kind /\ g.app = handler[h].app /\ g.patch = handler[h].patch
    BY <1>1 DEF HandlerState
  <2>2. handler' = [handler EXCEPT ![h] = g]
    BY DEF SendMail, Advance
  <2> HIDE DEF g
  <2>3. QED
    BY <1>1, <2>1, <2>2
<1>11. \A k \in Handler : k # h => handler'[k] = handler[k]
    BY <1>1 DEF SendMail, Advance
<1>12. ASSUME NEW b \in App PROVE (RecordBacked(b) /\ RowBacked(b))'
  <2>1. /\ FailureSaid(b)' <=> FailureSaid(b)
        /\ \A t : SentenceSaid(b, t)' <=> SentenceSaid(b, t)
        /\ \A c : PaySaid(b, c)' <=> PaySaid(b, c)
    BY <1>4 DEF FailureSaid, SentenceSaid, PaySaid
  <2>2. QED
    BY <1>4, <1>8, <2>1 DEF HInv, RecordBacked, RowBacked, Backed
<1>13. ASSUME NEW k \in Handler PROVE RequestBacked(k)'
  <2>1. handler[k].app \in App /\ RequestBacked(k)
    BY <1>1 DEF HandlerState, HInv
  <2>2. /\ BlockWasSaid(handler[k].app)' = BlockWasSaid(handler[k].app)'
        /\ \A b \in App : FailureSaid(b)' <=> FailureSaid(b)
        /\ \A b \in App : \A t : SentenceSaid(b, t)' <=> SentenceSaid(b, t)
    BY <1>4 DEF FailureSaid, SentenceSaid
  <2>3. handler'[k].kind = handler[k].kind /\ handler'[k].app = handler[k].app /\ handler'[k].patch = handler[k].patch
    BY <1>10, <1>11
  <2>4. QED
    BY <1>4, <1>8, <2>1, <2>2, <2>3 DEF RequestBacked, PatchBacked, Backed
<1>14. SumsSaid'
    BY <1>4 DEF HInv, SumsSaid
<1>15. QED
    BY <1>9, <1>12, <1>13, <1>14 DEF HInv

\* A request that starts has fetched what is on record, or has found a block
\* in the row and the allotment a day ago.
LEMMA ReadKeeps ==
    ASSUME IInv, HInv, NEW h \in Handler, NEW kind \in Request, NEW a \in App, Read(h, kind, a)
    PROVE  HInv'
<1> DEFINE g == [kind |-> kind, phase |-> "read", app |-> a, snap |-> row[a],
                 patch |-> IF kind = "refresh" THEN FetchedPatch(a) ELSE NoPatch, left |-> {}]
<1>1. handler \in [Handler -> HandlerState] /\ row[a] \in Row /\ now \in Nat /\ AllotmentDay \in Nat
    BY BoundsAssumption DEF IInv, TypeOK
<1>2. handler' = [handler EXCEPT ![h] = g] /\ Allowed(kind, a) /\ UNCHANGED <<record, said, row, mailed, now>>
    BY DEF Read
<1>3. kind = "refresh" => PatchBacked(a, g.patch)
    BY FetchedBacked DEF HInv
<1>4. kind = "requestUnblock" => BlockWasSaid(a) /\ now > AllotmentDay
  <2> SUFFICES ASSUME kind = "requestUnblock" PROVE BlockWasSaid(a) /\ now > AllotmentDay
    OBVIOUS
  <2>1. OrElse(row[a].blocked, 0) > 0 /\ now >= AllotmentDay + 1
    BY <1>2 DEF Allowed, MayRequestUnblock
  <2>2. row[a].blocked > 0
    BY <2>1, NoSum DEF OrElse
  <2>3. BlockWasSaid(a)
    BY <2>2 DEF HInv, RowBacked, Backed
  <2>4. QED
    BY <1>1, <2>1, <2>3
<1>5. g.kind = kind /\ g.app = a
    OBVIOUS
<1> HIDE DEF g
<1>6. handler'[h] = g /\ \A k \in Handler : k # h => handler'[k] = handler[k]
    BY <1>1, <1>2
<1>7. Remembered
    BY <1>2 DEF Remembered
<1>8. ASSUME NEW b \in App PROVE (RecordBacked(b) /\ RowBacked(b))'
    BY <1>2, <1>7, BackedStays DEF HInv, RecordBacked, RowBacked, Backed
<1>9. ASSUME NEW k \in Handler PROVE RequestBacked(k)'
  <2>1. CASE k = h
    BY <1>2, <1>3, <1>4, <1>5, <1>6, <1>7, <2>1, BackedStays DEF RequestBacked, PatchBacked, Backed
  <2>2. CASE k # h
    <3>1. handler[k].app \in App /\ RequestBacked(k)
      BY <1>1 DEF HandlerState, HInv
    <3>2. QED
      BY <1>2, <1>6, <1>7, <2>2, <3>1, BackedStays DEF RequestBacked, PatchBacked, Backed
  <2>3. QED
    BY <2>1, <2>2
<1>10. SumsSaid' /\ UnblockOnlyOfBlocked'
    BY <1>2, <1>7, BackedStays DEF HInv, SumsSaid, UnblockOnlyOfBlocked
<1>11. QED
    BY <1>8, <1>9, <1>10 DEF HInv

\* The clock moves only while no request is running.
LEMMA TickKeeps ==
    ASSUME IInv, HInv, Tick
    PROVE  HInv'
<1>1. /\ \A h \in Handler : handler'[h].kind = "idle"
      /\ UNCHANGED <<record, said, row, mailed>>
    BY DEF Tick
<1>2. Remembered
    BY <1>1 DEF Remembered
<1>3. ASSUME NEW b \in App PROVE (RecordBacked(b) /\ RowBacked(b))'
    BY <1>1, <1>2, BackedStays DEF HInv, RecordBacked, RowBacked, Backed
<1>4. \A h \in Handler : RequestBacked(h)'
    BY <1>1 DEF RequestBacked
<1>5. SumsSaid' /\ UnblockOnlyOfBlocked'
    BY <1>1, <1>2, BackedStays DEF HInv, SumsSaid, UnblockOnlyOfBlocked
<1>6. QED
    BY <1>3, <1>4, <1>5 DEF HInv

\* Every step keeps HInv.
LEMMA StepHInv == IInv /\ HInv /\ [Next]_vars => HInv'
<1> SUFFICES ASSUME IInv, HInv, [Next]_vars PROVE HInv'
    OBVIOUS
<1>1. CASE \E a \in App : StateDp(a) \/ StatePay(a) \/ Deliver(a) \/ SaveNumber(a)
    BY <1>1, ExchangeKeeps, WriteKeeps
<1>2. CASE \E h \in Handler : Serve(h)
  <2> SUFFICES ASSUME NEW h \in Handler, Serve(h) PROVE HInv'
    BY <1>2
  <2>1. CASE \E k \in Request, a \in App : Read(h, k, a)
    BY <2>1, ReadKeeps
  <2>2. CASE Withdraw(h) \/ RecordAllotment(h) \/ Refresh(h) \/ RecordMail(h)
    BY <2>2, RequestKeeps
  <2>3. CASE SetUpi(h) \/ FindSiblings(h) \/ QueueUpiChange(h) \/ UpiChanged(h) \/ Abandon(h)
    BY <2>3, MoveKeeps
  <2>4. CASE SendMail(h)
    BY <2>4, SendMailKeeps
  <2>5. QED
    BY <2>1, <2>2, <2>3, <2>4 DEF Serve
<1>3. CASE Tick
    BY <1>3, TickKeeps
<1>4. CASE UNCHANGED vars
  <2>1. UNCHANGED <<record, said, row, handler, mailed, now>>
    BY <1>4 DEF vars
  <2>2. \A a \in App : Backed(a, row'[a].text, row'[a].reason # "", row'[a].blocked)
    BY <2>1 DEF HInv, RowBacked
  <2>3. QED
    BY <2>1, <2>2, QuietKeeps
<1>5. QED
    BY <1>1, <1>2, <1>3, <1>4 DEF Next

\* What was stated backs every row and every request, in every reachable state.
LEMMA History == Spec => []HInv
BY InitHInv, StepHInv, Invariance, PTL DEF Spec

\* The sentences and reasons an investor reads were given by the exchange or the
\* sponsor bank (updateStatus keeps some longer than it should, but makes up none).
THEOREM SentencesReal == Spec => []SentencesWereSaid
<1>1. HInv => SentencesWereSaid
    BY DEF HInv, RowBacked, Backed, SentenceSaid, FailureSaid, SentencesWereSaid
<1>2. QED
    BY <1>1, History, PTL

\* requestUnblock mails the bank only about a block that was stated, and only
\* after the day it had, whatever else wrote the row in between.
THEOREM BankAskedOfBlocked == Spec => []UnblockOnlyOfBlocked
<1>1. HInv => UnblockOnlyOfBlocked
    BY DEF HInv
<1>2. QED
    BY <1>1, History, PTL
-----------------------------------------------------------------------------
(* A change of the UPI ID goes by the status in the row, and that status   *)
(* lags: it may be an old one delivered late.  What saves the change is    *)
(* that a bid the exchange still holds open has never been stated to be    *)
(* over, so nothing on its way to the row, however late, can close it.     *)

\* A verdict that ends a bid, and one that stays so: the depository refused it,
\* or the mandate was accepted (and perhaps released since).
Ends(st) == (st.kind = "dp" /\ st.code = "F") \/ (st.kind = "pay" /\ st.code \in {"100", "110"})
Over(a) == record[a].dp = "F" \/ record[a].pay \in {"100", "110"}

Open == {"submitted", "dp_verified", "mandate_pending", "rejected"}

StatedOver == \A a \in App : \A i \in DOMAIN said[a] : Ends(said[a][i]) => Over(a)
FetchedOver ==
    \A h \in Handler :
        handler[h].kind = "refresh" => handler[h].patch.status \in Open \/ Over(handler[h].app)
ShownOver ==
    \A a \in App : row[a].number => row[a].status \in Open \/ Over(a) \/ row[a].refund # NoAmount

\* An undecided bid a change has not passed over: reached already, or still to be.
UpiReaches ==
    \A a \in App :
       IF row[a].number
         THEN row[a].refund # NoAmount \/ Over(a) \/ bidUpi[a] = upi \/ a \in restated \cup missed
              \/ \E h \in Handler : a \in Unreached(h)
         ELSE upi = 0 \/ a \in missed \/ \E h \in Handler : At(h, "changeUpi", "saved")

UInv ==
    /\ StatedOver
    /\ FetchedOver
    /\ ShownOver
    /\ UpiReaches
    /\ \A a \in App : bidUpi[a] \in 0 .. upi

\* What may hold of a bid without a number, and of one a change has to reach.
Saved == \E h \in Handler : At(h, "changeUpi", "saved")
Reached(a) == a \in restated \cup missed \/ \E h \in Handler : a \in Unreached(h)

\* Only a verdict that ends a bid is mapped to a status that closes it.
LEMMA OpenStatus ==
    ASSUME NEW c
    PROVE  /\ MapDpStatus(c) \in Open \/ c = "F"
           /\ MapUpiStatus(c) \in Open \/ c \in {"100", "110"}
BY DEF MapDpStatus, MapUpiStatus, Open

\* So a callback closes a bid only with such a verdict.
LEMMA CallbackOpen ==
    ASSUME NEW st \in Statement
    PROVE  CallbackPatch(st).status \in Open \/ Ends(st)
<1>1. CASE st.kind = "dp"
  <2>1. CallbackPatch(st).status = MapDpStatus(st.code)
    BY <1>1 DEF CallbackPatch
  <2>2. QED
    BY <1>1, <2>1, OpenStatus DEF Ends
<1>2. CASE st.kind # "dp"
  <2>1. st.kind = "pay" /\ CallbackPatch(st).status = MapUpiStatus(st.code)
    BY <1>2 DEF CallbackPatch, Statement
  <2>2. QED
    BY <2>1, OpenStatus DEF Ends
<1>3. QED
    BY <1>1, <1>2

\* And a fetched record only if it holds one.
LEMMA FetchedOpen ==
    ASSUME NEW a \in App
    PROVE  FetchedPatch(a).status \in Open \/ Over(a)
<1>1. CASE record[a].pay # "none"
  <2>1. FetchedPatch(a).status = MapUpiStatus(record[a].pay)
    BY <1>1 DEF FetchedPatch
  <2>2. QED
    BY <2>1, OpenStatus DEF Over
<1>2. CASE record[a].pay = "none"
  <2>1. FetchedPatch(a).status = MapDpStatus(record[a].dp)
    BY <1>2 DEF FetchedPatch
  <2>2. QED
    BY <2>1, OpenStatus DEF Over
<1>3. QED
    BY <1>1, <1>2

\* A bid in one of these states may have its UPI ID changed, and is looked for.
LEMMA OpenMayChange ==
    ASSUME NEW a \in App, row[a].number, row[a].status \in Open
    PROVE  Restatable(a) /\ MayChangeUpi(row[a].status, row[a].number).needsExchange
BY DEF Restatable, MayChangeUpi, Open, Decided, Blocked

\* Nothing is stated, queued or changed at the start.
LEMMA InitUInv == Init => UInv
<1> SUFFICES ASSUME Init PROVE UInv
    OBVIOUS
<1>1. StatedOver
    BY DEF Init, StatedOver
<1>2. FetchedOver
    BY IdleTyped DEF Init, FetchedOver
<1>3. \A a \in App : FirstRow(a).number => FirstRow(a).status = "submitted"
    BY DEF FirstRow, NoRow
<1>4. ShownOver
    BY <1>3 DEF Init, ShownOver, Open
<1>5. upi = 0 /\ \A a \in App : bidUpi[a] = 0
    BY DEF Init
<1>6. UpiReaches
    BY <1>5 DEF UpiReaches
<1>7. QED
    BY <1>1, <1>2, <1>4, <1>5, <1>6 DEF UInv

\* A row is replaced: it stays numbered and refunded if it was, and is open,
\* unless the bid is over.
LEMMA RowReaches ==
    ASSUME IInv, UInv, NEW a \in App, NEW r,
           row' = [row EXCEPT ![a] = r],
           UNCHANGED <<record, said, upi, bidUpi, restated, missed>>,
           \/ handler' = handler
           \/ \E h \in Handler : handler[h].kind # "changeUpi" /\ handler' = [handler EXCEPT ![h] = Idle],
           r.number \in BOOLEAN,
           row[a].number => r.number,
           row[a].refund # NoAmount => r.refund # NoAmount,
           r.number => r.status \in Open \/ Over(a) \/ r.refund # NoAmount
    PROVE  UInv'
<1>1. row \in [App -> Row] /\ handler \in [Handler -> HandlerState]
    BY DEF IInv, TypeOK
<1>2. row'[a] = r /\ \A b \in App : b # a => row'[b] = row[b]
    BY <1>1
<1>3. \A b \in App : Over(b)' <=> Over(b)
    BY DEF Over
<1>4. \A h \in Handler : handler'[h] = handler[h] \/ (handler'[h] = Idle /\ handler[h].kind # "changeUpi")
    BY <1>1
<1>5. StatedOver'
    BY <1>3 DEF UInv, StatedOver
<1>6. FetchedOver'
  <2>1. \A h \in Handler : handler[h].app \in App
    BY <1>1 DEF HandlerState
  <2>2. QED
    BY <1>3, <1>4, <2>1, IdleTyped DEF UInv, FetchedOver
<1>7. ShownOver'
    BY <1>2, <1>3 DEF UInv, ShownOver
<1>8. \A h \in Handler : At(h, "changeUpi", "saved") => At(h, "changeUpi", "saved")'
    BY <1>4 DEF At
<1>9. \A h \in Handler, b \in App : b \in Unreached(h) => b \in Unreached(h)'
    BY <1>4 DEF Unreached, At
<1>10. ASSUME NEW h \in Handler, NEW b \in App, At(h, "changeUpi", "saved") PROVE b \in Unreached(h)'
    BY <1>8, <1>10 DEF Unreached
<1>11. UpiReaches'
  <2> SUFFICES ASSUME NEW b \in App
               PROVE  IF row'[b].number
                        THEN row'[b].refund # NoAmount \/ Over(b)' \/ bidUpi'[b] = upi' \/ Reached(b)'
                        ELSE upi' = 0 \/ b \in missed' \/ Saved'
    BY DEF UpiReaches, Reached, Saved
  <2>1. CASE row[b].number
    <3>1. row[b].refund # NoAmount \/ Over(b) \/ bidUpi[b] = upi \/ Reached(b)
      BY <2>1 DEF UInv, UpiReaches, Reached
    <3>2. Reached(b) => Reached(b)'
      BY <1>9 DEF Reached
    <3>3. row'[b].number /\ (row[b].refund # NoAmount => row'[b].refund # NoAmount)
      BY <1>2, <2>1
    <3>4. QED
      BY <1>3, <3>1, <3>2, <3>3
  <2>2. CASE ~row[b].number
    <3>1. upi = 0 \/ b \in missed \/ Saved
      BY <2>2 DEF UInv, UpiReaches, Saved
    <3>2. upi = 0 => bidUpi[b] = upi
      BY DEF UInv
    <3>3. Saved => Saved' /\ Reached(b)'
      BY <1>8, <1>10 DEF Saved, Reached
    <3>4. b \in missed => Reached(b)'
      BY DEF Reached
    <3>5. QED
      BY <3>1, <3>2, <3>3, <3>4
  <2>3. QED
    BY <2>1, <2>2
<1>12. QED
    BY <1>5, <1>6, <1>7, <1>11 DEF UInv

\* The writers of a row: a statement or a fetched record closes a bid only if it
\* is over, a withdrawal and an allotment leave a refund behind.
LEMMA WriteReaches ==
    ASSUME IInv, UInv, NEW a \in App, Deliver(a) \/ SaveNumber(a)
    PROVE  UInv'
<1>1. row \in [App -> Row] /\ row[a] \in Row /\ said[a] \in Seq(Statement) /\ TypeOK
    BY DEF IInv, TypeOK
<1>2. row[a].number => row[a].status \in Open \/ Over(a) \/ row[a].refund # NoAmount
    BY DEF UInv, ShownOver
<1>3. CASE Deliver(a)
  <2>1. PICK i \in DOMAIN said[a] :
           /\ row' = IF row[a].number
                       THEN [row EXCEPT ![a] = UpdateStatus(@, CallbackPatch(said[a][i]))]
                       ELSE row
           /\ UNCHANGED <<record, said, handler, upi, bidUpi, restated, missed, mailed, now>>
    BY <1>3 DEF Deliver
  <2>2. said[a][i] \in Statement
    BY <1>1, <2>1
  <2> DEFINE p == CallbackPatch(said[a][i])
  <2>3. p \in Patch
    BY <1>1, <2>2, CallbackTyped
  <2>4. p.status \in Open \/ Over(a)
    BY <2>1, <2>2, CallbackOpen DEF UInv, StatedOver
  <2> DEFINE u == UpdateStatus(row[a], p)
  <2> HIDE DEF p
  <2>5. u \in Row /\ u.status = p.status /\ u.number = row[a].number /\ u.refund = row[a].refund
    BY <1>1, <2>3, UpdateTyped
  <2>6. u.number \in BOOLEAN /\ row[a].number \in BOOLEAN
    BY <1>1, <2>5 DEF Row
  <2>7. row' = [row EXCEPT ![a] = u] \/ row' = [row EXCEPT ![a] = row[a]]
    BY <1>1, <2>1 DEF p
  <2> HIDE DEF u
  <2>8. QED
    BY <1>2, <2>1, <2>4, <2>5, <2>6, <2>7, RowReaches
<1>4. CASE SaveNumber(a)
  <2> DEFINE r == [row[a] EXCEPT !.number = TRUE, !.status = "submitted", !.reason = ""]
  <2>1. row' = [row EXCEPT ![a] = r] /\ UNCHANGED <<record, said, handler, upi, bidUpi, restated, missed>>
    BY <1>4 DEF SaveNumber
  <2>2. r.number = TRUE /\ r.status \in Open /\ r.refund = row[a].refund
    BY <1>1 DEF Row, Open
  <2> HIDE DEF r
  <2>3. QED
    BY <2>1, <2>2, RowReaches
<1>5. QED
    BY <1>3, <1>4

\* The requests that end by writing the row.
LEMMA RequestReaches ==
    ASSUME IInv, UInv, NEW h \in Handler,
           Withdraw(h) \/ RecordAllotment(h) \/ Refresh(h) \/ RecordMail(h)
    PROVE  UInv'
<1>1. TypeOK
    BY DEF IInv
<1>2. PICK a \in App : a = handler[h].app
    BY <1>1 DEF TypeOK, HandlerState
<1>3. /\ row \in [App -> Row] /\ row[a] \in Row /\ row[a].number \in BOOLEAN
      /\ handler[h].patch \in Patch /\ handler[h].snap \in Row
    BY <1>1 DEF TypeOK, HandlerState, Row
<1>4. row[a].number => row[a].status \in Open \/ Over(a) \/ row[a].refund # NoAmount
    BY DEF UInv, ShownOver
<1>5. /\ UNCHANGED <<record, said, upi, bidUpi, restated, missed>>
      /\ handler' = [handler EXCEPT ![h] = Idle] /\ handler[h].kind # "changeUpi"
    BY DEF Withdraw, RecordAllotment, Refresh, RecordMail, Finish, At
<1>6. ASSUME NEW r, row' = [row EXCEPT ![a] = r], r.number = row[a].number,
             row[a].refund # NoAmount => r.refund # NoAmount,
             r.number => r.status \in Open \/ Over(a) \/ r.refund # NoAmount
      PROVE  UInv'
    BY <1>3, <1>5, <1>6, RowReaches
<1>7. CASE Withdraw(h)
  <2> DEFINE r == [row[a] EXCEPT !.status = "released",
                                 !.refund = OrElse(handler[h].snap.blocked, Amount)]
  <2>1. row' = [row EXCEPT ![a] = r]
    BY <1>2, <1>7 DEF Withdraw
  <2>2. OrElse(handler[h].snap.blocked, Amount) # NoAmount
    BY Bounds DEF OrElse, NoAmount
  <2>3. r.number = row[a].number /\ r.refund # NoAmount
    BY <1>3, <2>2 DEF Row
  <2> HIDE DEF r
  <2>4. QED
    BY <1>6, <2>1, <2>3
<1>8. CASE RecordAllotment(h)
  <2>1. PICK n \in 0 .. Amount :
           row' = [row EXCEPT ![a] = [@ EXCEPT
                      !.status = IF n > 0 THEN "allotted" ELSE "not_allotted",
                      !.allotted = n,
                      !.refund = Refunded(handler[h].snap, n)]]
    BY <1>2, <1>8 DEF RecordAllotment
  <2> DEFINE r == [row[a] EXCEPT !.status = IF n > 0 THEN "allotted" ELSE "not_allotted",
                                 !.allotted = n,
                                 !.refund = Refunded(handler[h].snap, n)]
  <2>2. row' = [row EXCEPT ![a] = r]
    BY <2>1
  <2>3. Refunded(handler[h].snap, n) # NoAmount
    <3>1. Refunded(handler[h].snap, n) \in 0 .. Amount
      BY <1>3, RefundTyped
    <3>2. QED
      BY <3>1, Bounds DEF NoAmount
  <2>4. r.number = row[a].number /\ r.refund # NoAmount
    BY <1>3, <2>3 DEF Row
  <2> HIDE DEF r
  <2>5. QED
    BY <1>6, <2>2, <2>4
<1>9. CASE Refresh(h)
  <2>1. handler[h].patch.status \in Open \/ Over(a)
    BY <1>2, <1>9 DEF UInv, FetchedOver, Refresh, At
  <2> DEFINE u == UpdateStatus(row[a], handler[h].patch)
  <2>2. row' = [row EXCEPT ![a] = u]
    BY <1>1, <1>2, <1>9 DEF Refresh, TypeOK
  <2>3. u.status = handler[h].patch.status /\ u.number = row[a].number /\ u.refund = row[a].refund
    BY <1>3, UpdateTyped
  <2> HIDE DEF u
  <2>4. QED
    BY <1>6, <2>1, <2>2, <2>3
<1>10. CASE RecordMail(h)
  <2> DEFINE r == [row[a] EXCEPT !.asked = now]
  <2>1. row' = [row EXCEPT ![a] = r]
    BY <1>2, <1>10 DEF RecordMail
  <2>2. r.number = row[a].number /\ r.status = row[a].status /\ r.refund = row[a].refund
    BY <1>3 DEF Row
  <2> HIDE DEF r
  <2>3. QED
    BY <1>4, <1>6, <2>1, <2>2
<1>11. QED
    BY <1>7, <1>8, <1>9, <1>10

\* What the exchange has stated to be over stays so, and the modify it takes
\* names the UPI ID the profile holds at that moment.
LEMMA ExchangeReaches ==
    ASSUME IInv, UInv, NEW a \in App, StateDp(a) \/ StatePay(a)
    PROVE  UInv'
<1>1. /\ record \in [App -> Record] /\ said \in [App -> Seq(Statement)] /\ said[a] \in Seq(Statement)
      /\ bidUpi \in [App -> 0 .. MaxUpi] /\ upi \in Nat
    BY Bounds DEF IInv, TypeOK
<1>2. PICK st \in Statement :
         /\ said' = [said EXCEPT ![a] = Append(@, st)]
         /\ UNCHANGED <<row, handler, upi, missed>>
         /\ \A b \in App : b # a => record'[b] = record[b]
         /\ Over(a) => Over(a)'
         /\ Ends(st) => Over(a)'
         /\ restated' = restated \/ (restated' = restated \ {a} /\ bidUpi'[a] = upi)
         /\ \A b \in App : b # a => bidUpi'[b] = bidUpi[b]
         /\ bidUpi'[a] \in 0 .. upi
         /\ row[a].number => bidUpi'[a] \in {bidUpi[a], upi}
  <2>1. bidUpi[a] \in 0 .. upi /\ upi \in 0 .. upi
    BY <1>1 DEF UInv
  <2>2. CASE StateDp(a)
    <3>1. PICK f \in DpFlag, why \in {"", "depository"} :
             /\ \/ /\ record[a].dp = "none" /\ f = "P"
                   /\ \E u \in IF row[a].number THEN {bidUpi[a]} ELSE 0 .. upi :
                         bidUpi' = [bidUpi EXCEPT ![a] = u]
                \/ record[a].dp = "P" /\ f \in {"S", "F"} /\ UNCHANGED bidUpi
             /\ record' = [record EXCEPT ![a].dp = f]
             /\ State(a, [kind |-> "dp", code |-> f, amount |-> NoAmount, reason |-> why])
             /\ UNCHANGED restated
      BY <2>2 DEF StateDp
    <3> DEFINE st == [kind |-> "dp", code |-> f, amount |-> NoAmount, reason |-> why]
    <3>2. st \in Statement /\ st.kind = "dp" /\ st.code = f
      BY DEF Statement
    <3>3. said' = [said EXCEPT ![a] = Append(@, st)] /\ UNCHANGED <<row, handler, upi, missed>>
      BY <3>1 DEF State
    <3> HIDE DEF st
    <3>4. /\ record'[a].dp = f /\ record'[a].pay = record[a].pay
          /\ \A b \in App : b # a => record'[b] = record[b]
      BY <1>1, <3>1 DEF Record
    <3>5. Over(a) => Over(a)'
      BY <3>1, <3>4 DEF Over
    <3>6. Ends(st) => Over(a)'
      BY <3>2, <3>4 DEF Ends, Over
    <3>7. /\ bidUpi'[a] \in 0 .. upi
          /\ row[a].number => bidUpi'[a] = bidUpi[a]
          /\ \A b \in App : b # a => bidUpi'[b] = bidUpi[b]
      BY <1>1, <2>1, <3>1
    <3>8. QED
      BY <3>1, <3>2, <3>3, <3>4, <3>5, <3>6, <3>7
  <2>3. CASE StatePay(a)
    <3>1. PICK c \in Code, amount \in {NoAmount, 0, Amount}, why \in {"", "bank"} :
             /\ FollowsPay(a, c)
             /\ record' = [record EXCEPT ![a] = [@ EXCEPT !.pay = c, !.amount = amount]]
             /\ State(a, [kind |-> "pay", code |-> c, amount |-> amount, reason |-> why])
             /\ IF record[a].pay \in Rejection
                  THEN restated' = restated \ {a} /\ bidUpi' = [bidUpi EXCEPT ![a] = upi]
                  ELSE UNCHANGED <<restated, bidUpi>>
      BY <2>3 DEF StatePay
    <3> DEFINE st == [kind |-> "pay", code |-> c, amount |-> amount, reason |-> why]
    <3>2. amount \in Money
      <4>1. NoAmount \in Money
        BY Blanks
      <4>2. QED
        BY <4>1, WholeAmounts
    <3>3. st \in Statement /\ st.kind = "pay" /\ st.code = c
      BY <3>2 DEF Statement
    <3>4. said' = [said EXCEPT ![a] = Append(@, st)] /\ UNCHANGED <<row, handler, upi, missed>>
      BY <3>1 DEF State
    <3> HIDE DEF st
    <3>5. /\ record'[a].pay = c /\ record'[a].dp = record[a].dp
          /\ \A b \in App : b # a => record'[b] = record[b]
      BY <1>1, <3>1 DEF Record
    <3>6. record[a].pay \in {"100", "110"} => c \in {"100", "110"}
      BY <3>1 DEF FollowsPay, Rejection
    <3>7. Over(a) => Over(a)'
      BY <3>5, <3>6 DEF Over
    <3>8. Ends(st) => Over(a)'
      BY <3>3, <3>5 DEF Ends, Over
    <3>9. /\ restated' = restated \/ (restated' = restated \ {a} /\ bidUpi'[a] = upi)
          /\ bidUpi'[a] \in {bidUpi[a], upi}
          /\ \A b \in App : b # a => bidUpi'[b] = bidUpi[b]
      BY <1>1, <3>1
    <3>10. QED
      BY <2>1, <3>3, <3>4, <3>5, <3>7, <3>8, <3>9
  <2>4. QED
    BY <2>2, <2>3
<1>3. /\ said'[a] = Append(said[a], st) /\ \A b \in App : b # a => said'[b] = said[b]
      /\ DOMAIN Append(said[a], st) = 1 .. Len(said[a]) + 1 /\ DOMAIN said[a] = 1 .. Len(said[a])
      /\ Len(said[a]) \in Nat
      /\ \A i \in 1 .. Len(said[a]) : Append(said[a], st)[i] = said[a][i]
      /\ Append(said[a], st)[Len(said[a]) + 1] = st
    BY <1>1, <1>2, AppendProperties, LenProperties
<1>4. \A i \in DOMAIN said'[a] : said'[a][i] = st \/ (i \in DOMAIN said[a] /\ said'[a][i] = said[a][i])
    BY <1>3
<1>5. \A b \in App : Over(b) => Over(b)'
    BY <1>2 DEF Over
<1>6. StatedOver'
    BY <1>2, <1>3, <1>4, <1>5 DEF UInv, StatedOver
<1>7. FetchedOver' /\ ShownOver'
  <2>1. \A h \in Handler : handler[h].app \in App
    BY DEF IInv, TypeOK, HandlerState
  <2>2. QED
    BY <1>2, <1>5, <2>1 DEF UInv, FetchedOver, ShownOver
<1>8. \A h \in Handler : Unreached(h)' = Unreached(h) /\ (At(h, "changeUpi", "saved") <=> At(h, "changeUpi", "saved")')
    BY <1>2 DEF Unreached, At
<1>9. ASSUME NEW b \in App
      PROVE  IF row'[b].number
               THEN row'[b].refund # NoAmount \/ Over(b)' \/ bidUpi'[b] = upi' \/ Reached(b)'
               ELSE upi' = 0 \/ b \in missed' \/ Saved'
  <2>1. IF row[b].number
          THEN row[b].refund # NoAmount \/ Over(b) \/ bidUpi[b] = upi \/ Reached(b)
          ELSE upi = 0 \/ b \in missed \/ Saved
    BY DEF UInv, UpiReaches, Reached, Saved
  <2>2. Saved => Saved'
    BY <1>8 DEF Saved
  <2>3. Reached(b) => Reached(b)' \/ bidUpi'[b] = upi
    BY <1>2, <1>8 DEF Reached
  <2>4. row[b].number /\ bidUpi[b] = upi => bidUpi'[b] = upi
    BY <1>2
  <2>5. QED
    BY <1>2, <1>5, <2>1, <2>2, <2>3, <2>4
<1>10. UpiReaches'
    BY <1>9 DEF UpiReaches, Reached, Saved
<1>11. \A b \in App : bidUpi'[b] \in 0 .. upi'
    BY <1>2 DEF UInv
<1>12. QED
    BY <1>6, <1>7, <1>10, <1>11 DEF UInv

\* A step that touches no row and no statement only has to show that a refresh
\* keeps what it fetched and that every bid is still to be reached.
LEMMA QuietReaches ==
    ASSUME IInv, UInv, UNCHANGED <<record, said, row, bidUpi>>,
           upi' \in Nat, upi <= upi',
           \A h \in Handler :
              handler'[h].kind = "refresh" =>
                 \/ handler'[h].patch.status \in Open \/ Over(handler'[h].app)
                 \/ handler'[h] = handler[h],
           \A a \in App :
              IF row[a].number
                THEN row[a].refund # NoAmount \/ Over(a) \/ bidUpi[a] = upi' \/ Reached(a)'
                ELSE upi' = 0 \/ a \in missed' \/ Saved'
    PROVE  UInv'
<1>1. \A a \in App : Over(a)' <=> Over(a)
    BY DEF Over
<1>2. StatedOver' /\ ShownOver'
    BY <1>1 DEF UInv, StatedOver, ShownOver
<1>3. FetchedOver'
    BY DEF UInv, FetchedOver, Over
<1>4. UpiReaches'
    BY <1>1 DEF UpiReaches, Reached, Saved
<1>5. \A a \in App : bidUpi'[a] \in 0 .. upi'
  <2>1. upi \in Nat
    BY DEF IInv, TypeOK
  <2>2. QED
    BY <2>1 DEF UInv
<1>6. QED
    BY <1>2, <1>3, <1>4, <1>5 DEF UInv

\* One request moves on, and no other: what still has to be reached stays so when
\* that request keeps what it had to reach or has passed it over.
LEMMA MoveReaches ==
    ASSUME IInv, UInv, NEW h \in Handler, NEW g,
           handler' = [handler EXCEPT ![h] = g],
           UNCHANGED <<record, said, row, upi, bidUpi>>,
           g.kind = "refresh" => g.patch.status \in Open \/ Over(g.app),
           \A a \in App : a \in restated \cup missed => a \in restated' \cup missed',
           \A a \in App : ~row[a].number => (a \in missed => a \in missed'),
           At(h, "changeUpi", "saved") => \A a \in App : ~row[a].number => a \in missed',
           \A a \in App :
              a \in Unreached(h) /\ row[a].number =>
                 \/ row[a].refund # NoAmount \/ Over(a)
                 \/ a \in restated' \cup missed'
                 \/ a \in Unreached(h)'
    PROVE  UInv'
<1>1. handler \in [Handler -> HandlerState] /\ upi \in Nat
    BY DEF IInv, TypeOK
<1>2. handler'[h] = g /\ \A k \in Handler : k # h => handler'[k] = handler[k]
    BY <1>1
<1>3. \A k \in Handler : k # h => Unreached(k)' = Unreached(k) /\ (At(k, "changeUpi", "saved") => At(k, "changeUpi", "saved")')
    BY <1>2 DEF Unreached, At
<1>4. ASSUME NEW a \in App
      PROVE  IF row[a].number
               THEN row[a].refund # NoAmount \/ Over(a) \/ bidUpi[a] = upi' \/ Reached(a)'
               ELSE upi' = 0 \/ a \in missed' \/ Saved'
  <2>1. IF row[a].number
          THEN row[a].refund # NoAmount \/ Over(a) \/ bidUpi[a] = upi \/ Reached(a)
          ELSE upi = 0 \/ a \in missed \/ Saved
    BY DEF UInv, UpiReaches, Reached, Saved
  <2>2. row[a].number /\ Reached(a) => row[a].refund # NoAmount \/ Over(a) \/ Reached(a)'
    BY <1>3 DEF Reached
  <2>3. ~row[a].number /\ Saved => a \in missed' \/ Saved'
    BY <1>3 DEF Saved
  <2>4. QED
    BY <2>1, <2>2, <2>3
<1>5. \A k \in Handler :
         handler'[k].kind = "refresh" =>
            \/ handler'[k].patch.status \in Open \/ Over(handler'[k].app)
            \/ handler'[k] = handler[k]
    BY <1>2
<1>6. QED
    BY <1>1, <1>4, <1>5, QuietReaches

\* A change of the UPI ID has every bid to reach, finds those that have a number,
\* and queues or skips each: a bid the exchange holds open is open in its row.
LEMMA ChangeReaches ==
    ASSUME IInv, UInv, NEW h \in Handler,
           SetUpi(h) \/ FindSiblings(h) \/ QueueUpiChange(h) \/ UpiChanged(h) \/ Abandon(h)
    PROVE  UInv'
<1>1. handler \in [Handler -> HandlerState] /\ handler[h] \in HandlerState /\ upi \in Nat
    BY DEF IInv, TypeOK
<1>2. \A a \in App :
         row[a].number => row[a].status \in Open \/ Over(a) \/ row[a].refund # NoAmount
    BY DEF UInv, ShownOver
<1>3. CASE SetUpi(h)
  <2> DEFINE g == [handler[h] EXCEPT !.phase = "saved"]
  <2>1. g.kind = "changeUpi" /\ g.phase = "saved"
    BY <1>1, <1>3 DEF HandlerState, SetUpi, At
  <2>2. handler' = [handler EXCEPT ![h] = g]
    BY <1>3 DEF SetUpi, Advance
  <2> HIDE DEF g
  <2>3. At(h, "changeUpi", "saved")' /\ \A k \in Handler : k # h => handler'[k] = handler[k]
    BY <1>1, <2>1, <2>2 DEF At
  <2>4. \A a \in App : a \in Unreached(h)'
    BY <2>3 DEF Unreached
  <2>5. UNCHANGED <<record, said, row, bidUpi>> /\ upi' \in Nat /\ upi <= upi'
    BY <1>1, <1>3 DEF SetUpi
  <2>6. \A a \in App : Reached(a)' /\ Saved'
    BY <2>3, <2>4 DEF Reached, Saved
  <2>7. handler'[h].kind # "refresh"
    BY <2>3 DEF At
  <2>8. QED
    BY <2>3, <2>5, <2>6, <2>7, QuietReaches
<1>4. CASE FindSiblings(h)
  <2> DEFINE g == [handler[h] EXCEPT !.phase = "restating", !.left = {a \in App : Restatable(a)}]
  <2>1. g.kind = "changeUpi" /\ g.phase = "restating" /\ g.left = {a \in App : Restatable(a)}
    BY <1>1, <1>4 DEF HandlerState, FindSiblings, At
  <2>2. handler' = [handler EXCEPT ![h] = g]
    BY <1>4 DEF FindSiblings
  <2> HIDE DEF g
  <2>3. handler'[h] = g
    BY <1>1, <2>2
  <2>4. Unreached(h)' = {a \in App : Restatable(a)}
    BY <2>1, <2>3 DEF Unreached, At
  <2>5. /\ UNCHANGED <<record, said, row, upi, bidUpi, restated>>
        /\ missed' = missed \cup {a \in App : ~row[a].number}
    BY <1>4 DEF FindSiblings
  <2>6. \A a \in App : row[a].number => row[a].refund # NoAmount \/ Over(a) \/ a \in Unreached(h)'
    BY <1>2, <2>4, OpenMayChange
  <2>7. QED
    BY <2>1, <2>2, <2>5, <2>6, MoveReaches
<1>5. CASE QueueUpiChange(h)
  <2>1. PICK b \in handler[h].left :
           /\ handler' = [handler EXCEPT ![h].left = @ \ {b}]
           /\ IF MayChangeUpi(row[b].status, row[b].number).needsExchange
                THEN \/ restated' = restated \cup {b} /\ missed' = missed \ {b}
                     \/ missed' = missed \cup {b} /\ UNCHANGED restated
                ELSE UNCHANGED <<restated, missed>>
    BY <1>5 DEF QueueUpiChange
  <2>2. At(h, "changeUpi", "restating") /\ UNCHANGED <<record, said, row, upi, bidUpi>>
    BY <1>5 DEF QueueUpiChange
  <2>3. b \in App
    BY <1>1, <2>1 DEF HandlerState
  <2> DEFINE g == [handler[h] EXCEPT !.left = @ \ {b}]
  <2>4. g.kind = "changeUpi" /\ g.phase = "restating" /\ g.left = handler[h].left \ {b}
    BY <1>1, <2>2 DEF HandlerState, At
  <2>5. handler' = [handler EXCEPT ![h] = g]
    BY <2>1
  <2> HIDE DEF g
  <2>6. handler'[h] = g
    BY <1>1, <2>5
  <2>7. Unreached(h) = handler[h].left /\ Unreached(h)' = handler[h].left \ {b}
    BY <2>2, <2>4, <2>6 DEF Unreached, At
  <2>8. MayChangeUpi(row[b].status, row[b].number).needsExchange => row[b].number
    BY DEF MayChangeUpi
  <2>9. row[b].number => row[b].refund # NoAmount \/ Over(b) \/ b \in restated' \cup missed'
    BY <1>2, <2>1, <2>3, OpenMayChange
  <2>10. \A a \in App : a \in restated \cup missed => a \in restated' \cup missed'
    BY <2>1
  <2>11. \A a \in App : ~row[a].number => (a \in missed => a \in missed')
    BY <2>1, <2>8
  <2>12. ~At(h, "changeUpi", "saved")
    BY <2>2 DEF At
  <2>13. \A a \in App : a \in Unreached(h) /\ row[a].number =>
             row[a].refund # NoAmount \/ Over(a) \/ a \in restated' \cup missed' \/ a \in Unreached(h)'
    BY <2>7, <2>9
  <2>14. QED
    BY <2>2, <2>4, <2>5, <2>10, <2>11, <2>12, <2>13, MoveReaches
<1>6. CASE UpiChanged(h)
  <2>1. Unreached(h) = {} /\ ~At(h, "changeUpi", "saved")
    BY <1>6 DEF UpiChanged, Unreached, At
  <2>2. handler' = [handler EXCEPT ![h] = Idle] /\ UNCHANGED <<record, said, row, upi, bidUpi, restated, missed>>
    BY <1>6 DEF UpiChanged, Finish
  <2>3. QED
    BY <2>1, <2>2, IdleTyped, MoveReaches
<1>7. CASE Abandon(h)
  <2>1. missed' = missed \cup Unreached(h) /\ UNCHANGED <<record, said, row, upi, bidUpi, restated>>
    BY <1>7 DEF Abandon
  <2>2. handler' = [handler EXCEPT ![h] = Idle]
    BY <1>7 DEF Abandon, Finish
  <2>3. At(h, "changeUpi", "saved") => Unreached(h) = App
    BY DEF Unreached
  <2>4. QED
    BY <2>1, <2>2, <2>3, IdleTyped, MoveReaches
<1>8. QED
    BY <1>3, <1>4, <1>5, <1>6, <1>7

\* The requests that start, the mail, the clock, and a step that does nothing.
LEMMA OtherReaches ==
    ASSUME IInv, UInv,
           \/ \E h \in Handler : SendMail(h) \/ \E k \in Request, a \in App : Read(h, k, a)
           \/ Tick
           \/ UNCHANGED vars
    PROVE  UInv'
<1>1. handler \in [Handler -> HandlerState] /\ upi \in Nat
    BY DEF IInv, TypeOK
<1>2. ASSUME NEW h \in Handler, NEW k \in Request, NEW a \in App, Read(h, k, a) PROVE UInv'
  <2> DEFINE g == [kind |-> k, phase |-> "read", app |-> a, snap |-> row[a],
                   patch |-> IF k = "refresh" THEN FetchedPatch(a) ELSE NoPatch, left |-> {}]
  <2>1. handler' = [handler EXCEPT ![h] = g] /\ UNCHANGED <<record, said, row, upi, bidUpi, restated, missed>>
    BY <1>2 DEF Read
  <2>2. g.kind = "refresh" => g.patch.status \in Open \/ Over(g.app)
    BY FetchedOpen
  <2>3. Unreached(h) = {} /\ ~At(h, "changeUpi", "saved")
    BY <1>2 DEF Read, Unreached, At
  <2> HIDE DEF g
  <2>4. QED
    BY <2>1, <2>2, <2>3, MoveReaches
<1>3. ASSUME NEW h \in Handler, SendMail(h) PROVE UInv'
  <2> DEFINE g == [handler[h] EXCEPT !.phase = "sent"]
  <2>1. handler[h].kind = "requestUnblock" /\ UNCHANGED <<record, said, row, upi, bidUpi, restated, missed>>
    BY <1>3 DEF SendMail, At
  <2>2. handler' = [handler EXCEPT ![h] = g]
    BY <1>3 DEF SendMail, Advance
  <2>3. g.kind # "refresh"
    BY <1>1, <2>1 DEF HandlerState
  <2>4. Unreached(h) = {} /\ ~At(h, "changeUpi", "saved")
    BY <2>1 DEF Unreached, At
  <2> HIDE DEF g
  <2>5. QED
    BY <2>1, <2>2, <2>3, <2>4, MoveReaches
<1>4. CASE Tick \/ UNCHANGED vars
  <2>1. UNCHANGED <<record, said, row, handler, upi, bidUpi, restated, missed>>
    BY <1>4 DEF Tick, vars
  <2>2. \A a \in App : Reached(a)' <=> Reached(a)
    BY <2>1 DEF Reached, Unreached, At
  <2>3. Saved' <=> Saved
    BY <2>1 DEF Saved, At
  <2>4. ASSUME NEW a \in App
        PROVE  IF row[a].number
                 THEN row[a].refund # NoAmount \/ Over(a) \/ bidUpi[a] = upi' \/ Reached(a)'
                 ELSE upi' = 0 \/ a \in missed' \/ Saved'
    BY <2>1, <2>2, <2>3 DEF UInv, UpiReaches, Reached, Saved
  <2>5. QED
    BY <1>1, <2>1, <2>4, QuietReaches
<1>5. QED
    BY <1>2, <1>3, <1>4

\* Every step keeps UInv.
LEMMA StepUInv == IInv /\ UInv /\ [Next]_vars => UInv'
<1> SUFFICES ASSUME IInv, UInv, [Next]_vars PROVE UInv'
    OBVIOUS
<1>1. CASE \E a \in App : StateDp(a) \/ StatePay(a) \/ Deliver(a) \/ SaveNumber(a)
    BY <1>1, ExchangeReaches, WriteReaches
<1>2. CASE \E h \in Handler : Serve(h)
    BY <1>2, RequestReaches, ChangeReaches, OtherReaches DEF Serve
<1>3. CASE Tick \/ UNCHANGED vars
    BY <1>3, OtherReaches
<1>4. QED
    BY <1>1, <1>2, <1>3 DEF Next

\* An undecided bid is not over, so every change it was not passed over by has
\* reached it, and what was queued names the UPI ID the profile holds.
LEMMA UInvReaches == IInv /\ UInv => OnlyMissedBidsKeepOldUpi
<1> SUFFICES ASSUME IInv, UInv, \A h \in Handler : handler[h].kind # "changeUpi",
                    NEW a \in App, Undecided(a)
             PROVE  bidUpi[a] = upi \/ a \in restated \cup missed
    BY DEF OnlyMissedBidsKeepOldUpi
<1>1. \A h \in Handler : Unreached(h) = {}
    BY DEF Unreached, At
<1>2. row[a].number /\ row[a].refund = NoAmount /\ ~Over(a)
    BY DEF Undecided, Over
<1>3. QED
    BY <1>1, <1>2 DEF UInv, UpiReaches

\* changeUpi (applications.service.ts:699-802): however late, repeated or stale the
\* statements its rows were written from, an undecided bid names the UPI ID of the
\* profile or has a modify queued that will, unless a change passed it over.
THEOREM UndecidedBidsRestated == Spec => []OnlyMissedBidsKeepOldUpi
BY InitUInv, StepUInv, UInvReaches, Invariance, PTL DEF Spec
=============================================================================
