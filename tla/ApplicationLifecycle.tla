------------------------ MODULE ApplicationLifecycle ------------------------
(***************************************************************************)
(* The life of an application once it is with the exchange.  The exchange  *)
(* states the depository's verdict and the progress of the UPI mandate; it *)
(* pushes each statement to us (rail-callback.service.ts), and an operator *)
(* may pull the latest one (bidding-refresh.service.ts).  Meanwhile the    *)
(* investor may withdraw, change the UPI ID or ask the sponsor bank for    *)
(* the money back, and an operator records the allotment                   *)
(* (applications.service.ts).  All of them write the same row, each after  *)
(* reading it on its own.                                                  *)
(*                                                                         *)
(* External are the exchange, the bank and the network.  A statement may   *)
(* be delivered late, twice, out of order or never; a callback the         *)
(* database cannot place is answered `failed` and changes nothing.  A      *)
(* request may die at any point.  One tick of the clock is the 24 hours of *)
(* both unblock rules; a request takes less, so the clock stands while one *)
(* is running.                                                             *)
(***************************************************************************)
EXTENDS BidRules, Sequences

CONSTANTS
    App,            \* applications, all of one applicant
    Handler,        \* requests being served at once
    Request,        \* the kinds of request that are made
    Category,       \* Category[a]: the category a was bid in
    Placed,         \* applications whose exchange number is saved from the start
    Code,           \* the UPI payment codes the exchange uses
    Amount,         \* what each application bids, and the bank blocks
    AllotmentDay,   \* the issue's allotment date
    MaxSaid,        \* bound: statements the exchange makes of one application
    MaxUpi,         \* bound: times the UPI ID is changed
    MaxMails,       \* bound: unblock mails sent for one application
    LastDay         \* bound: the clock

Kind == {"withdraw", "changeUpi", "requestUnblock", "recordAllotment", "refresh"}

ASSUME AppAssumption == App # {}
ASSUME RequestAssumption == Request \subseteq Kind
ASSUME CodeAssumption == "none" \notin Code
ASSUME BoundsAssumption == {Amount, AllotmentDay, MaxUpi, LastDay} \subseteq Nat

-----------------------------------------------------------------------------
(* rail-callback.dto.ts: what a code of the exchange means to us.          *)

Rejection == {"1", "11", "12", "13", "21", "22", "31"}
UpiPaymentStatus == {"0", "10", "100", "110"} \cup Rejection
DpFlag == {"P", "S", "F"}

MapUpiStatus_SponsorBankBlocks(c) ==
    IF c \in {"10", "100"} THEN "upi_blocked"
    ELSE IF c = "110" THEN "released"
    ELSE IF c \in Rejection THEN "rejected"
    ELSE "mandate_pending"
MapUpiStatus(c) ==
    IF c = "100" THEN "upi_blocked"
    ELSE IF c = "110" THEN "released"
    ELSE IF c \in Rejection THEN "rejected"
    ELSE "mandate_pending"

MapDpStatus_Raw(f) == f
MapDpStatus(f) == IF f = "S" THEN "dp_verified" ELSE IF f = "F" THEN "dp_failed" ELSE "submitted"

\* Every code has a sentence of its own, here the code itself; an unknown one has none.
NoText == "no text"
UpiStatusLabel(c) == IF c \in UpiPaymentStatus THEN c ELSE NoText

-----------------------------------------------------------------------------
NoAmount == -1
Never == -1
OrElse(x, y) == IF x # NoAmount THEN x ELSE y

Money == 0 .. Amount \cup {NoAmount}
Stamp == 0 .. LastDay \cup {Never}
Reason == {"", "depository", "bank", "record"}
Text == UpiPaymentStatus \cup {NoText, "bank"}
Status == {"draft", "submitted", "dp_verified", "dp_failed", "mandate_pending", "upi_blocked",
           "confirmed", "rejected", "released", "allotted", "not_allotted"}

\* What the exchange says of one application; reason is its free text.
Statement ==
    [kind: {"dp"}, code: DpFlag, amount: {NoAmount}, reason: {"", "depository"}]
    \cup [kind: {"pay"}, code: Code, amount: Money, reason: {"", "bank"}]

\* The exchange's own record of one application, which a refresh fetches.
Record == [dp: DpFlag \cup {"none"}, pay: Code \cup {"none"}, amount: Money]

\* The columns of an application these handlers read or write: number says that
\* applicationNumber and rail are set, blocked is amountBlocked, text and textAt
\* are upiStatusText and upiStatusAt, asked is unblockRequestedAt.
Row == [status: Status, number: BOOLEAN, blocked: Money, reason: Reason,
        text: Text, textAt: Stamp, allotted: Money, refund: Money, asked: Stamp]

NoRow == [status |-> "draft", number |-> FALSE, blocked |-> NoAmount, reason |-> "",
          text |-> NoText, textAt |-> Never, allotted |-> NoAmount, refund |-> NoAmount,
          asked |-> Never]

\* What a status write carries; NoAmount, NoText, "" and Never leave the column alone.
Patch == [status: Status, amount: Money, reason: Reason, text: Text, textAt: Stamp]
NoPatch == [status |-> "draft", amount |-> NoAmount, reason |-> "", text |-> NoText, textAt |-> Never]

HandlerState == [kind: Kind \cup {"idle"}, phase: {"read", "saved", "restating", "sent"},
                 app: App, snap: Row, patch: Patch, left: SUBSET App]

VARIABLES
    record,     \* record[a]: what the exchange holds of a now
    said,       \* said[a]: all the exchange ever stated of a, oldest first
    row,        \* the Application rows
    handler,    \* the requests being served
    upi,        \* which UPI ID the applicant's profile holds, counted from 0
    bidUpi,     \* bidUpi[a]: which UPI ID the exchange's bid for a names
    restated,   \* applications with a modify queued to restate the UPI ID
    missed,     \* applications a change of the UPI ID has passed over
    mailed,     \* mailed[a]: when unblock mails were sent for a, oldest first
    now

vars == <<record, said, row, handler, upi, bidUpi, restated, missed, mailed, now>>

Idle == [kind |-> "idle", phase |-> "read", app |-> CHOOSE a \in App : TRUE,
         snap |-> NoRow, patch |-> NoPatch, left |-> {}]

TypeOK ==
    /\ record \in [App -> Record]
    /\ said \in [App -> Seq(Statement)]
    /\ row \in [App -> Row]
    /\ handler \in [Handler -> HandlerState]
    /\ upi \in 0 .. MaxUpi
    /\ bidUpi \in [App -> 0 .. MaxUpi]
    /\ restated \subseteq App /\ missed \subseteq App
    /\ mailed \in [App -> Seq(0 .. LastDay)]
    /\ now \in 0 .. LastDay

\* A row queueRebid made and nobody posted yet, or one saveResult has left.
FirstRow(a) ==
    IF a \in Placed THEN [NoRow EXCEPT !.status = "submitted", !.number = TRUE] ELSE NoRow

Init ==
    /\ record = [a \in App |-> [dp |-> "none", pay |-> "none", amount |-> NoAmount]]
    /\ said = [a \in App |-> <<>>]
    /\ row = [a \in App |-> FirstRow(a)]
    /\ handler = [h \in Handler |-> Idle]
    /\ upi = 0
    /\ bidUpi = [a \in App |-> 0]
    /\ restated = {} /\ missed = {}
    /\ mailed = [a \in App |-> <<>>]
    /\ now = 0

-----------------------------------------------------------------------------
(* The exchange and the sponsor bank.                                      *)

BlockWasSaid(a) == \E i \in DOMAIN said[a] : said[a][i].kind = "pay" /\ said[a][i].code = "100"

State(a, st) ==
    /\ Len(said[a]) < MaxSaid
    /\ said' = [said EXCEPT ![a] = Append(@, st)]
    /\ UNCHANGED <<row, handler, upi, missed, mailed, now>>

\* The depository's verdict: pending when the exchange takes the bid, then one
\* answer.  The bid names the UPI ID of when it was written, which may be an old one.
StateDp(a) ==
    \E f \in DpFlag, why \in {"", "depository"} :
       /\ \/ /\ record[a].dp = "none" /\ f = "P"
             /\ \E u \in IF row[a].number THEN {bidUpi[a]} ELSE 0 .. upi :
                   bidUpi' = [bidUpi EXCEPT ![a] = u]
          \/ record[a].dp = "P" /\ f \in {"S", "F"} /\ UNCHANGED bidUpi
       /\ why # "" => f = "F"
       /\ record' = [record EXCEPT ![a].dp = f]
       /\ State(a, [kind |-> "dp", code |-> f, amount |-> NoAmount, reason |-> why])
       /\ UNCHANGED restated

\* The mandate goes out once the demat is verified, and again, with the UPI ID
\* of that moment, when the queued modify restates a bid that was rejected.  A
\* released mandate is over: mayChangeUpi calls such a bid "already decided".
FollowsPay(a, c) ==
    CASE record[a].pay = "none" -> record[a].dp = "S" /\ c = "0"
      [] record[a].pay = "0"    -> c \in {"1", "10"} \cup (Code \ UpiPaymentStatus)
      [] record[a].pay = "100"  -> c = "110"
      [] record[a].pay = "110"  -> FALSE
      [] record[a].pay \in Rejection -> a \in restated /\ c = "0"
      [] OTHER -> c \in {"100"} \cup (Rejection \ {"1"}) \cup (Code \ UpiPaymentStatus)

StatePay(a) ==
    \E c \in Code, amount \in {NoAmount, 0, Amount}, why \in {"", "bank"} :
       /\ FollowsPay(a, c)
       /\ amount = Amount <=> c = "100"
       /\ amount = 0 => c = "110"
       /\ why # "" => c \in Rejection
       /\ record' = [record EXCEPT ![a] = [@ EXCEPT !.pay = c, !.amount = amount]]
       /\ State(a, [kind |-> "pay", code |-> c, amount |-> amount, reason |-> why])
       /\ IF record[a].pay \in Rejection
            THEN restated' = restated \ {a} /\ bidUpi' = [bidUpi EXCEPT ![a] = upi]
            ELSE UNCHANGED <<restated, bidUpi>>

-----------------------------------------------------------------------------
(* The one way a status of the exchange is written, by push and by pull.   *)

UpdateStatus(r, p) ==
    [r EXCEPT !.status = p.status,
              !.blocked = OrElse(p.amount, @),
              !.text = IF p.text # NoText THEN p.text ELSE @,
              !.textAt = IF p.textAt # Never THEN p.textAt ELSE @,
              !.reason = IF p.status \in {"rejected", "dp_failed"} /\ p.reason # ""
                           THEN p.reason ELSE @]

SentenceOf(st) == IF st.reason # "" THEN st.reason ELSE UpiStatusLabel(st.code)

\* handleDpStatus and handlePayStatus: a DP call says nothing about the payment.
CallbackPatch_DpSentence(st) ==
    [status |-> IF st.kind = "dp" THEN MapDpStatus(st.code) ELSE MapUpiStatus(st.code),
     amount |-> st.amount, reason |-> st.reason,
     text |-> IF st.kind = "dp" THEN "bank" ELSE SentenceOf(st), textAt |-> now]
CallbackPatch(st) ==
    IF st.kind = "dp"
      THEN [status |-> MapDpStatus(st.code), amount |-> NoAmount, reason |-> st.reason,
            text |-> NoText, textAt |-> Never]
      ELSE [status |-> MapUpiStatus(st.code), amount |-> st.amount, reason |-> st.reason,
            text |-> SentenceOf(st), textAt |-> now]

\* A callback finds its row by symbol and application number or changes nothing.
Deliver(a) ==
    \E i \in DOMAIN said[a] :
       /\ row' = IF row[a].number
                   THEN [row EXCEPT ![a] = UpdateStatus(@, CallbackPatch(said[a][i]))]
                   ELSE row
       /\ UNCHANGED <<record, said, handler, upi, bidUpi, restated, missed, mailed, now>>

\* postOne's transaction after the exchange took the bid.
SaveNumber(a) ==
    /\ ~row[a].number /\ record[a].dp # "none"
    /\ row' = [row EXCEPT ![a] = [@ EXCEPT !.number = TRUE, !.status = "submitted", !.reason = ""]]
    /\ UNCHANGED <<record, said, handler, upi, bidUpi, restated, missed, mailed, now>>

-----------------------------------------------------------------------------
(* Requests.  Each reads the row and checks it in one step, and acts on    *)
(* what it read in later ones.                                             *)

Withdrawable == {"submitted", "mandate_pending", "upi_blocked", "dp_verified", "confirmed"}

\* What is still owed: blocked, less the shares' cost, less what was released.
Outstanding(r) == OrElse(r.blocked, 0) - OrElse(r.allotted, 0) - OrElse(r.refund, 0)

\* unblockRules.ts: the bank is late a tick after allotment, and one request per tick.
MayRequestUnblock_AssumesBlocked(r) ==
    /\ r.status # "rejected"
    /\ now >= AllotmentDay + 1
    /\ OrElse(r.blocked, Amount) - OrElse(r.allotted, 0) - OrElse(r.refund, 0) > 0
    /\ r.asked # Never => now >= r.asked + 1
MayRequestUnblock(r) ==
    /\ r.status # "rejected"
    /\ OrElse(r.blocked, 0) > 0
    /\ now >= AllotmentDay + 1
    /\ Outstanding(r) > 0
    /\ r.asked # Never => now >= r.asked + 1

\* The exchange's latest record of a, folded through the callback's own code.
FetchedPatch(a) ==
    IF record[a].pay # "none"
      THEN [status |-> MapUpiStatus(record[a].pay), amount |-> record[a].amount,
            reason |-> "record", text |-> UpiStatusLabel(record[a].pay), textAt |-> now]
      ELSE [status |-> MapDpStatus(record[a].dp), amount |-> NoAmount, reason |-> "record",
            text |-> NoText, textAt |-> Never]

\* The stored status of the issue, which withdraw goes by, is what an operator
\* left there: no job moves it with the dates, so it may be `open` on any day.
Allowed(kind, a) ==
    CASE kind = "withdraw" ->
           row[a].status \in Withdrawable /\ MayCancel(Category[a], row[a].number)
      [] kind = "changeUpi" -> MayChangeUpi(row[a].status, row[a].number).ok
      [] kind = "requestUnblock" -> MayRequestUnblock(row[a])
      [] kind = "recordAllotment" -> TRUE
      [] kind = "refresh" -> row[a].number /\ record[a].dp # "none"

Read(h, kind, a) ==
    /\ handler[h].kind = "idle"
    /\ Allowed(kind, a)
    /\ handler' = [handler EXCEPT ![h] =
                     [kind |-> kind, phase |-> "read", app |-> a, snap |-> row[a],
                      patch |-> IF kind = "refresh" THEN FetchedPatch(a) ELSE NoPatch,
                      left |-> {}]]
    /\ UNCHANGED <<record, said, row, upi, bidUpi, restated, missed, mailed, now>>

At(h, kind, phase) == handler[h].kind = kind /\ handler[h].phase = phase
Finish(h) == handler' = [handler EXCEPT ![h] = Idle]
Advance(h, phase) == handler' = [handler EXCEPT ![h].phase = phase]

Withdraw(h) ==
    LET a == handler[h].app
    IN  /\ At(h, "withdraw", "read")
        /\ row' = [row EXCEPT ![a] = [@ EXCEPT !.status = "released",
                                            !.refund = OrElse(handler[h].snap.blocked, Amount)]]
        /\ Finish(h)
        /\ UNCHANGED <<record, said, upi, bidUpi, restated, missed, mailed, now>>

Refunded(r, n) == IF OrElse(r.blocked, Amount) >= n THEN OrElse(r.blocked, Amount) - n ELSE 0

RecordAllotment(h) ==
    LET a == handler[h].app
    IN  /\ At(h, "recordAllotment", "read")
        /\ \E n \in 0 .. Amount :
              row' = [row EXCEPT ![a] = [@ EXCEPT
                         !.status = IF n > 0 THEN "allotted" ELSE "not_allotted",
                         !.allotted = n,
                         !.refund = Refunded(handler[h].snap, n)]]
        /\ Finish(h)
        /\ UNCHANGED <<record, said, upi, bidUpi, restated, missed, mailed, now>>

Refresh(h) ==
    LET a == handler[h].app
    IN  /\ At(h, "refresh", "read")
        /\ row' = [row EXCEPT ![a] = UpdateStatus(@, handler[h].patch)]
        /\ Finish(h)
        /\ UNCHANGED <<record, said, upi, bidUpi, restated, missed, mailed, now>>

\* changeUpi: the profile first, then a modify for every bid still being paid for.
SetUpi(h) ==
    /\ At(h, "changeUpi", "read") /\ upi < MaxUpi
    /\ upi' = upi + 1
    /\ Advance(h, "saved")
    /\ UNCHANGED <<record, said, row, bidUpi, restated, missed, mailed, now>>

Restatable_NotRejected(a) ==
    row[a].number /\ row[a].status \in {"submitted", "dp_verified", "mandate_pending"}
Restatable(a) ==
    row[a].number /\ row[a].status \in {"submitted", "dp_verified", "mandate_pending", "rejected"}

\* A bid without its number is not looked for, even if the exchange has it by now.
FindSiblings(h) ==
    /\ At(h, "changeUpi", "saved")
    /\ handler' = [handler EXCEPT ![h] = [@ EXCEPT !.phase = "restating",
                                               !.left = {a \in App : Restatable(a)}]]
    /\ missed' = missed \cup {a \in App : ~row[a].number}
    /\ UNCHANGED <<record, said, row, upi, bidUpi, restated, mailed, now>>

\* The bid is checked again as it is now.  Whatever fails, its load, its insert or
\* the check, is logged as `skipped`, and the request goes on and succeeds.
QueueUpiChange(h) ==
    /\ At(h, "changeUpi", "restating")
    /\ \E a \in handler[h].left :
          /\ handler' = [handler EXCEPT ![h].left = @ \ {a}]
          /\ IF MayChangeUpi(row[a].status, row[a].number).needsExchange
               THEN \/ restated' = restated \cup {a} /\ missed' = missed \ {a}
                    \/ missed' = missed \cup {a} /\ UNCHANGED restated
               ELSE UNCHANGED <<restated, missed>>
    /\ UNCHANGED <<record, said, row, upi, bidUpi, mailed, now>>

UpiChanged(h) ==
    /\ At(h, "changeUpi", "restating") /\ handler[h].left = {}
    /\ Finish(h)
    /\ UNCHANGED <<record, said, row, upi, bidUpi, restated, missed, mailed, now>>

\* requestUnblock: the mail goes out before the row remembers that it did.
SendMail(h) ==
    LET a == handler[h].app
    IN  /\ At(h, "requestUnblock", "read") /\ Len(mailed[a]) < MaxMails
        /\ mailed' = [mailed EXCEPT ![a] = Append(@, now)]
        /\ Advance(h, "sent")
        /\ UNCHANGED <<record, said, row, upi, bidUpi, restated, missed, now>>

RecordMail(h) ==
    LET a == handler[h].app
    IN  /\ At(h, "requestUnblock", "sent")
        /\ row' = [row EXCEPT ![a].asked = now]
        /\ Finish(h)
        /\ UNCHANGED <<record, said, upi, bidUpi, restated, missed, mailed, now>>

\* The bids a change of the UPI ID has still to reach.
Unreached(h) ==
    IF At(h, "changeUpi", "saved") THEN App
    ELSE IF At(h, "changeUpi", "restating") THEN handler[h].left ELSE {}

\* A request throws or dies at any point.
Abandon(h) ==
    /\ handler[h].kind # "idle"
    /\ missed' = missed \cup Unreached(h)
    /\ Finish(h)
    /\ UNCHANGED <<record, said, row, upi, bidUpi, restated, mailed, now>>

Tick ==
    /\ now < LastDay
    /\ \A h \in Handler : handler[h].kind = "idle"
    /\ now' = now + 1
    /\ UNCHANGED <<record, said, row, handler, upi, bidUpi, restated, missed, mailed>>

Serve(h) ==
    \/ \E k \in Request, a \in App : Read(h, k, a)
    \/ Withdraw(h)
    \/ RecordAllotment(h)
    \/ Refresh(h)
    \/ SetUpi(h)
    \/ FindSiblings(h)
    \/ QueueUpiChange(h)
    \/ UpiChanged(h)
    \/ SendMail(h)
    \/ RecordMail(h)
    \/ Abandon(h)

Next ==
    \/ \E a \in App : StateDp(a) \/ StatePay(a) \/ Deliver(a) \/ SaveNumber(a)
    \/ \E h \in Handler : Serve(h)
    \/ Tick

Spec == Init /\ [][Next]_vars

-----------------------------------------------------------------------------
(* What the handlers keep, whatever is late, repeated or stale.            *)

\* The investor is told that the funds are blocked only if the exchange said
\* the mandate was accepted: no late, repeated or stale statement makes it up.
BlockShownIsReal == \A a \in App : row[a].status = "upi_blocked" => BlockWasSaid(a)

\* The payment sentence in a row is one the exchange or the sponsor bank gave
\* for a payment of that application, and a rejection reason comes with one.
SentencesWereSaid ==
    \A a \in App :
       /\ row[a].text # NoText =>
            \E i \in DOMAIN said[a] :
               said[a][i].kind = "pay" /\ row[a].text \in {said[a][i].code, said[a][i].reason}
       /\ row[a].reason # "" =>
            \E i \in DOMAIN said[a] : said[a][i].code \in {"F"} \cup Rejection

\* The sponsor bank is only asked for money it said it had blocked, and only
\* when the money is late: an unknown amount is not taken for the whole bid.
UnblockOnlyOfBlocked ==
    \A a \in App : mailed[a] # <<>> =>
        BlockWasSaid(a) /\ \A i \in DOMAIN mailed[a] : mailed[a][i] > AllotmentDay

\* The exchange holds the bid, its mandate is open, and nobody withdrew it or
\* recorded its allotment.
Undecided(a) ==
    /\ row[a].number /\ row[a].refund = NoAmount
    /\ record[a].dp \in {"P", "S"} /\ record[a].pay \notin {"100", "110"}

\* "Every live bid of that applicant is restated" (changeUpi), as far as the code
\* keeps it: whatever statements came late or twice and whatever was withdrawn,
\* rejected, refreshed or changed again meanwhile, an undecided bid names the UPI ID
\* of the profile or has a modify queued that will, unless a change passed it over:
\* it had no number yet, its queueing failed and was skipped, or the request died.
OnlyMissedBidsKeepOldUpi ==
    (\A h \in Handler : handler[h].kind # "changeUpi")
    => \A a \in App : Undecided(a) => bidUpi[a] = upi \/ a \in restated \cup missed

-----------------------------------------------------------------------------
(* What the comments of the code promise and its steps do not keep.        *)

\* The scenario the unblock request exists for: the registrar allotted less
\* than was blocked, the bank has not released the rest, so there is something to ask.
StuckInvestorMayAsk ==
    \A a \in App :
        /\ row[a].status \in {"allotted", "not_allotted"} /\ record[a].pay = "100"
        /\ row[a].blocked = Amount /\ row[a].allotted < Amount
        => Outstanding(row[a]) > 0
=============================================================================
