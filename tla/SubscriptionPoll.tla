--------------------------- MODULE SubscriptionPoll ---------------------------
(***************************************************************************)
(* One open issue and everyone who writes its row: the subscription        *)
(* poller, which asks both exchanges and stores what they say              *)
(* (subscription.service.ts), and the people who save the admin form, flip *)
(* the operations switches (ipo.service.ts) or enter a grey-market premium *)
(* (gmp-entry.module.ts).                                                  *)
(*                                                                         *)
(* A refresh spans several awaits: it reads the row, waits for NSE, waits  *)
(* for BSE, may read the stored rows, writes in one transaction and        *)
(* remembers what it wrote.  The timer does not wait for the refresh of    *)
(* the tick before, and an administrator can refresh at any time: `Poller' *)
(* is the set of refreshes that may be under way at once.  An edit reads   *)
(* the row in one statement and writes it in another.                      *)
(*                                                                         *)
(* `extra' is a JSON column; of its keys the module has the one the form   *)
(* owns (book), the switches that form and operations share (gates), and   *)
(* the two the server owns (gmpLog, subLog).  When a refresh is due (the   *)
(* clock, the window, the calendar) is left open: it may start at any      *)
(* time.  External are the exchanges and PostgreSQL.                       *)
(***************************************************************************)
EXTENDS IssueFigures

CONSTANTS
    Poller,         \* refreshes of the issue that may be under way at once
    Form,           \* sessions of the admin form
    Ops,            \* sessions of the operations switches
    Gmp,            \* contributors of the grey-market premium
    MaxShares,      \* bound: the largest demand of a bucket on an exchange
    MaxMoves,       \* bound: changes of the exchanges' figures
    MaxGlitches,    \* bound: answers that fail or leave something out
    MaxFaults,      \* bound: failed statements, and restarts
    MaxEdits        \* bound: edits that are begun

ASSUME BoundAssumption ==
    /\ MaxShares \in Nat /\ MaxMoves \in Nat /\ MaxGlitches \in Nat /\ MaxFaults \in Nat /\ MaxEdits \in Nat
    /\ Form \cap Ops = {} /\ Form \cap Gmp = {} /\ Ops \cap Gmp = {}

-----------------------------------------------------------------------------
Editor == Form \cup Ops \cup Gmp
NoRows == [c \in {} |-> 0]

VARIABLES
    market,     \* what the exchanges hold: the demand of every bucket
    rows,       \* IpoSubscription of the issue: category to figure
    extra,      \* Ipo.extra
    lastSnapshot,   \* in memory: the rows of the last write, if any
    poll,       \* the refreshes
    edit,       \* the edits
    moves, glitches, faults, edits

vars == <<market, rows, extra, lastSnapshot, poll, edit, moves, glitches, faults, edits>>
bounds == <<moves, glitches, faults, edits>>

NoExtra == [book |-> 0, gates |-> 0, gmpLog |-> 0, subLog |-> NoRows]
Idle == [at |-> "idle", ex |-> NoExtra, answer |-> [e \in Exchange |-> NoAnswer], subs |-> NoRows]
AtRest == [at |-> "idle", entry |-> 0, page |-> NoExtra, prev |-> NoExtra]
Forgotten == [known |-> FALSE, subs |-> NoRows]

Init ==
    /\ market = [e \in Exchange |-> [b \in Bucket |-> 0]]
    /\ rows = NoRows
    /\ extra = NoExtra
    /\ lastSnapshot = Forgotten
    /\ poll = [p \in Poller |-> Idle]
    /\ edit = [w \in Editor |-> AtRest]
    /\ moves = 0 /\ glitches = 0 /\ faults = 0 /\ edits = 0

-----------------------------------------------------------------------------
(* The exchanges.                                                          *)

\* Demand grows as bids arrive, and an exchange may revise it down.
MarketMoves ==
    /\ moves < MaxMoves
    /\ \E e \in Exchange, b \in Bucket, n \in 0 .. MaxShares :
          /\ n # market[e][b]
          /\ market' = [market EXCEPT ![e] = [@ EXCEPT ![b] = n]]
    /\ moves' = moves + 1
    /\ UNCHANGED <<rows, extra, lastSnapshot, poll, edit, glitches, faults, edits>>

\* A full answer has every category; what an exchange leaves out is a glitch.
Full(e) == [demand |-> market[e], apps |-> e = "bse"]

\* An answer that leaves one bucket empty, or out, or has no rows at all.
Partial(e) ==
    {NoAnswer} \cup {[Full(e) EXCEPT !.demand = [@ EXCEPT ![b] = 0]] : b \in Bucket}
               \cup {[Full(e) EXCEPT !.demand = [c \in Bucket \ {b} |-> @[c]]] : b \in Bucket}

-----------------------------------------------------------------------------
(* A refresh.                                                              *)

Start(p) ==
    /\ poll[p].at = "idle"
    /\ poll' = [poll EXCEPT ![p] = [Idle EXCEPT !.at = "nse", !.ex = extra]]
    /\ UNCHANGED <<market, rows, extra, lastSnapshot, edit, bounds>>

\* getCatwise, then getDemandSchedule: a failed query is caught and leaves no rows.
Answers(e, answer) ==
    \/ answer = Full(e) /\ UNCHANGED glitches
    \/ /\ glitches < MaxGlitches
       /\ answer \in Partial(e)
       /\ glitches' = glitches + 1

AskNse(p) ==
    /\ poll[p].at = "nse"
    /\ \E answer \in {Full("nse")} \cup Partial("nse") :
          /\ Answers("nse", answer)
          /\ poll' = [poll EXCEPT ![p] = [@ EXCEPT !.at = "bse", !.answer = [poll[p].answer EXCEPT !["nse"] = answer]]]
    /\ UNCHANGED <<market, rows, extra, lastSnapshot, edit, moves, faults, edits>>

\* What becomes of a refresh whose rows are known: nothing to store, the
\* same as the last write (only the time of the check is stored), or a write.
Settle(ex, subs) ==
    IF subs = NoRows \/ (lastSnapshot.known /\ lastSnapshot.subs = subs) THEN Idle
    ELSE [Idle EXCEPT !.at = "write", !.ex = ex, !.subs = subs]

\* The rows are computed as soon as BSE has answered; the stored ones are
\* read only when one of them is empty.
AskBse(p) ==
    /\ poll[p].at = "bse"
    /\ \E answer \in {Full("bse")} \cup Partial("bse") :
          /\ Answers("bse", answer)
          /\ LET fresh == ComputeSubs([poll[p].answer EXCEPT !["bse"] = answer])
             IN  poll' = [poll EXCEPT ![p] =
                     IF NeedsStored(fresh) THEN [Idle EXCEPT !.at = "keep", !.ex = poll[p].ex, !.subs = fresh]
                     ELSE Settle(poll[p].ex, fresh)]
    /\ UNCHANGED <<market, rows, extra, lastSnapshot, edit, moves, faults, edits>>

KeepFigures(p) ==
    /\ poll[p].at = "keep"
    /\ poll' = [poll EXCEPT ![p] = Settle(poll[p].ex, KeepKnown(poll[p].subs, rows))]
    /\ UNCHANGED <<market, rows, extra, lastSnapshot, edit, bounds>>

\* One transaction: the rows are replaced, and the poller's own key is merged
\* into the column as it is then.
WholesaleMerge(p) == [poll[p].ex EXCEPT !.subLog = poll[p].subs]
Merge(p) == [extra EXCEPT !.subLog = poll[p].subs]

RememberedFirst(p) ==
    /\ poll[p].at = "write"
    /\ lastSnapshot' = [known |-> TRUE, subs |-> poll[p].subs]
    /\ \/ rows' = poll[p].subs /\ extra' = Merge(p) /\ UNCHANGED faults
       \/ faults < MaxFaults /\ faults' = faults + 1 /\ UNCHANGED <<rows, extra>>
    /\ poll' = [poll EXCEPT ![p] = Idle]
    /\ UNCHANGED <<market, edit, moves, glitches, edits>>
Write(p) ==
    /\ poll[p].at = "write"
    /\ rows' = poll[p].subs
    /\ extra' = Merge(p)
    /\ poll' = [poll EXCEPT ![p] = [@ EXCEPT !.at = "remember"]]
    /\ UNCHANGED <<market, lastSnapshot, edit, bounds>>

Remember(p) ==
    /\ poll[p].at = "remember"
    /\ lastSnapshot' = [known |-> TRUE, subs |-> poll[p].subs]
    /\ poll' = [poll EXCEPT ![p] = Idle]
    /\ UNCHANGED <<market, rows, extra, edit, bounds>>

\* A statement of the refresh fails: nothing is written and the refresh ends.
PollFails(p) ==
    /\ faults < MaxFaults
    /\ poll[p].at \in {"nse", "keep", "write"}
    /\ poll' = [poll EXCEPT ![p] = Idle]
    /\ faults' = faults + 1
    /\ UNCHANGED <<market, rows, extra, lastSnapshot, edit, moves, glitches, edits>>

-----------------------------------------------------------------------------
(* The people.                                                             *)

\* The page that the form is filled from.
OpenForm(w) ==
    /\ edit[w].at = "idle" /\ edits < MaxEdits
    /\ edit' = [edit EXCEPT ![w] = [AtRest EXCEPT !.at = "open", !.page = extra, !.entry = edits + 1]]
    /\ edits' = edits + 1
    /\ UNCHANGED <<market, rows, extra, lastSnapshot, poll, moves, glitches, faults>>

SubmitForm(w) ==
    /\ edit[w].at = "open"
    /\ edit' = [edit EXCEPT ![w] = [@ EXCEPT !.at = "read", !.prev = extra]]
    /\ UNCHANGED <<market, rows, extra, lastSnapshot, poll, bounds>>

ReadRow(w) ==
    /\ edit[w].at = "idle" /\ edits < MaxEdits
    /\ edit' = [edit EXCEPT ![w] = [AtRest EXCEPT !.at = "read", !.prev = extra, !.entry = edits + 1]]
    /\ edits' = edits + 1
    /\ UNCHANGED <<market, rows, extra, lastSnapshot, poll, moves, glitches, faults>>

\* ipo.update: the form's own keys as typed, the switches as the page showed
\* them, the server's keys as the row was read.
FormDropsServerKeys(x) == [book |-> x.entry, gates |-> x.page.gates]
FormExtra(x) == [x.page EXCEPT !.book = x.entry, !.gmpLog = x.prev.gmpLog, !.subLog = x.prev.subLog]

\* ipo.updateOps and gmp-entry's submit: the row as it was read, one key changed.
OpsExtra(x) == [x.prev EXCEPT !.gates = x.entry]
GmpExtra(x) == [x.prev EXCEPT !.gmpLog = x.entry]

Save(w, next) ==
    /\ edit[w].at = "read"
    /\ extra' = next
    /\ edit' = [edit EXCEPT ![w] = AtRest]
    /\ UNCHANGED <<market, rows, lastSnapshot, poll, bounds>>

SaveForm(w) == Save(w, FormExtra(edit[w]))
SaveOps(w) == Save(w, OpsExtra(edit[w]))
SubmitGmp(w) == Save(w, GmpExtra(edit[w]))

\* The process restarts: what it was doing and what it remembered is gone.
\* What an administrator has open in the browser stays open.
Restart ==
    /\ faults < MaxFaults
    /\ poll' = [p \in Poller |-> Idle]
    /\ edit' = [w \in Editor |-> IF edit[w].at = "read" THEN AtRest ELSE edit[w]]
    /\ lastSnapshot' = Forgotten
    /\ faults' = faults + 1
    /\ UNCHANGED <<market, rows, extra, moves, glitches, edits>>

-----------------------------------------------------------------------------
PollStep(p) == AskNse(p) \/ AskBse(p) \/ KeepFigures(p) \/ Write(p) \/ Remember(p)

Next ==
    \/ MarketMoves
    \/ \E p \in Poller : Start(p) \/ PollStep(p) \/ PollFails(p)
    \/ \E w \in Form : OpenForm(w) \/ SubmitForm(w) \/ SaveForm(w)
    \/ \E w \in Ops : ReadRow(w) \/ SaveOps(w)
    \/ \E w \in Gmp : ReadRow(w) \/ SubmitGmp(w)
    \/ Restart

Spec == Init /\ [][Next]_vars

\* The timer keeps ticking and a refresh that has begun goes on.
FairSpec == Spec /\ \A p \in Poller : WF_vars(Start(p)) /\ WF_vars(PollStep(p))

-----------------------------------------------------------------------------
IsRows(r) == DOMAIN r \subseteq Offered \cup {"total"} /\ \A c \in DOMAIN r : r[c] \in [nse : Nat, bse : Nat]

IsExtra(x) ==
    /\ DOMAIN x = {"book", "gates", "gmpLog", "subLog"}
    /\ x.book \in 0 .. MaxEdits /\ x.gates \in 0 .. MaxEdits /\ x.gmpLog \in 0 .. MaxEdits
    /\ IsRows(x.subLog)

TypeOK ==
    /\ market \in [Exchange -> [Bucket -> 0 .. MaxShares]]
    /\ IsRows(rows) /\ IsRows(lastSnapshot.subs) /\ lastSnapshot.known \in BOOLEAN
    /\ IsExtra(extra)
    /\ \A p \in Poller :
          /\ poll[p].at \in {"idle", "nse", "bse", "keep", "write", "remember"}
          /\ IsExtra(poll[p].ex) /\ IsRows(poll[p].subs)
          /\ poll[p].answer \in [Exchange -> Answer(MaxShares)]
    /\ \A w \in Editor :
          /\ edit[w].at \in {"idle", "open", "read"} /\ edit[w].entry \in 0 .. MaxEdits
          /\ IsExtra(edit[w].page) /\ IsExtra(edit[w].prev)

\* Between refreshes the poller's memory of the last write is what is stored:
\* were it anything else, the next answer that equals the memory would count
\* as "numbers unchanged" and the stored rows would stay wrong.
MemoryDescribesRows ==
    lastSnapshot.known /\ (\A p \in Poller : poll[p].at # "remember") => rows = lastSnapshot.subs

\* An empty reading never replaces a figure: whatever one exchange leaves out
\* or fails to answer, a stored demand does not become zero.
EmptyReadKeepsFigure ==
    [][\A c \in DOMAIN rows \cap DOMAIN rows' : Known(rows[c]) => Known(rows'[c])]_vars

\* What a person entered changes only when a person writes: a refresh that
\* read the row two network round trips ago does not put an old value back.
\* (Two people who save at once can.)
Entries == [book |-> extra.book, gates |-> extra.gates, gmpLog |-> extra.gmpLog]
RefreshLeavesEntries == [][(\E p \in Poller : poll'[p] # poll[p]) => Entries' = Entries]_vars

\* Once the exchanges' figures settle, and they answer, the stored rows become
\* what they say, in both directions: a revision downwards is stored too.
Stored(b) == b \in DOMAIN rows /\ rows[b] = [nse |-> market["nse"][b], bse |-> market["bse"][b]]
FiguresCatchUp ==
    <>[](\A b \in Offered : Known([nse |-> market["nse"][b], bse |-> market["bse"][b]]) => Stored(b))
=============================================================================
