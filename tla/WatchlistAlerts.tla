--------------------------- MODULE WatchlistAlerts ---------------------------
(***************************************************************************)
(* The alerts to those who watch an issue: it is open, it closes soon, the *)
(* allotment is today, it lists today (alerts.service.ts).  An hourly      *)
(* sweep, or one an operator starts, reads the issues once, goes through   *)
(* the watchers of each and sends every alert the notification history     *)
(* does not hold yet; a notification is recorded, handed to the devices    *)
(* and marked as sent (notifications.service.ts).                          *)
(*                                                                         *)
(* An issue counts as open when its stored status says so: an operator's   *)
(* save or an import writes that column, and no job moves it with the      *)
(* dates, so the status and the calendar go their own ways here.           *)
(*                                                                         *)
(* Every await of a sweep may fail, which ends the sweep, and the process  *)
(* may restart; meanwhile people watch and unwatch and the days pass.      *)
(***************************************************************************)
EXTENDS Naturals, Sequences

CONSTANTS
    User,
    Ipo,
    Sweeper,    \* sweeps that may run at once: the timer's and an operator's
    First,      \* where in its calendar each issue is when the model begins
    Marked,     \* the issues whose stored status is 'open' then
    Watchlist,  \* who watches what then
    MaxDays,    \* bound: how often an issue reaches its next stage
    MaxFaults,  \* bound: failed awaits and restarts
    MaxTurns    \* bound: how often someone watches, unwatches or saves a status

ASSUME BoundsAssumption == MaxDays \in Nat /\ MaxFaults \in Nat /\ MaxTurns \in Nat

-----------------------------------------------------------------------------
\* Where an issue is in its calendar: closing in the two days before it closes,
\* allotment and listing on the day itself.
Stage == {"before", "closing", "closed", "allotment", "listing", "listed"}
After == [before |-> "closing", closing |-> "closed", closed |-> "allotment",
          allotment |-> "listing", listing |-> "listed"]

Kind == {"ipo_open", "ipo_closing", "ipo_allotment", "ipo_listing"}

ASSUME PeopleAssumption == User # {} /\ Ipo # {}
ASSUME FirstAssumption == First \in [Ipo -> Stage] /\ Marked \subseteq Ipo /\ Watchlist \subseteq User \X Ipo

Alert == [user: User, kind: Kind, ipo: Ipo]

\* An issue as the sweep read it at its start.  `due` are the alerts of the
\* current issue and `kinds` those still to be looked at for the current watcher.
Seen == [ipo: Ipo, due: Seq(Kind)]
SweepState == [step: {"idle", "issues", "watchers", "check", "record", "deliver", "mark"},
               issues: SUBSET Seen, ipo: Ipo, due: Seq(Kind),
               users: SUBSET User, user: User, kinds: Seq(Kind)]

VARIABLES
    stage,      \* the calendar of the issues
    marked,     \* the issues whose stored status is 'open'
    watching,   \* the watchlist
    history,    \* the notifications recorded, by alert
    unsent,     \* those not marked as sent
    delivered,  \* how often an alert was handed to the user's devices, by alert
    sweep,
    days, faults, turns

vars == <<stage, marked, watching, history, unsent, delivered, sweep, days, faults, turns>>

IdleSweep == [step |-> "idle", issues |-> {}, ipo |-> CHOOSE i \in Ipo : TRUE, due |-> <<>>,
              users |-> {}, user |-> CHOOSE u \in User : TRUE, kinds |-> <<>>]

TypeOK ==
    /\ stage \in [Ipo -> Stage] /\ marked \subseteq Ipo
    /\ watching \subseteq User \X Ipo
    /\ history \subseteq Alert
    /\ unsent \subseteq history
    /\ delivered \in [Alert -> Nat]
    /\ sweep \in [Sweeper -> SweepState]
    /\ days \in 0 .. MaxDays /\ faults \in 0 .. MaxFaults /\ turns \in 0 .. MaxTurns

Init ==
    /\ stage = First /\ marked = Marked
    /\ watching = Watchlist
    /\ history = {} /\ unsent = {}
    /\ delivered = [a \in Alert |-> 0]
    /\ sweep = [s \in Sweeper |-> IdleSweep]
    /\ days = 0 /\ faults = 0 /\ turns = 0

-----------------------------------------------------------------------------
(* A sweep.                                                                *)

At(s, step) == sweep[s].step = step
Goto(s, step) == sweep' = [sweep EXCEPT ![s].step = step]

\* The alerts of an issue in the order they are sent.
If(said, kind) == IF said THEN <<kind>> ELSE <<>>
Due(i) ==
    If(i \in marked, "ipo_open") \o If(i \in marked /\ stage[i] = "closing", "ipo_closing")
        \o If(stage[i] = "allotment", "ipo_allotment") \o If(stage[i] = "listing", "ipo_listing")

InScope == {[ipo |-> i, due |-> Due(i)] : i \in {j \in Ipo : Due(j) # <<>>}}

Start(s) ==
    /\ At(s, "idle") /\ InScope # {}
    /\ sweep' = [sweep EXCEPT ![s] = [@ EXCEPT !.step = "issues", !.issues = InScope]]
    /\ UNCHANGED <<stage, marked, watching, history, unsent, delivered, days, faults, turns>>

NextIssue(s) ==
    /\ At(s, "issues")
    /\ \/ /\ sweep[s].issues = {}
          /\ sweep' = [sweep EXCEPT ![s] = IdleSweep]
       \/ \E i \in sweep[s].issues :
             sweep' = [sweep EXCEPT ![s] = [@ EXCEPT
                         !.step = "watchers", !.ipo = i.ipo, !.issues = sweep[s].issues \ {i}, !.due = i.due,
                         !.users = {u \in User : <<u, i.ipo>> \in watching}]]
    /\ UNCHANGED <<stage, marked, watching, history, unsent, delivered, days, faults, turns>>

NextWatcher(s) ==
    /\ At(s, "watchers")
    /\ \/ sweep[s].users = {} /\ Goto(s, "issues")
       \/ \E u \in sweep[s].users :
             sweep' = [sweep EXCEPT ![s] = [@ EXCEPT
                         !.step = "check", !.user = u, !.users = sweep[s].users \ {u},
                         !.kinds = sweep[s].due]]
    /\ UNCHANGED <<stage, marked, watching, history, unsent, delivered, days, faults, turns>>

Current(s) == [user |-> sweep[s].user, kind |-> Head(sweep[s].kinds), ipo |-> sweep[s].ipo]

Already_Marked(a) == a \in history \ unsent
Already_AnyIssue(a) == \E b \in history : b.user = a.user /\ b.kind = a.kind
Already(a) == a \in history

\* On to the next alert of this watcher, or to the next watcher.
Done(s) ==
    sweep' = [sweep EXCEPT ![s] = [@ EXCEPT
                !.kinds = Tail(sweep[s].kinds),
                !.step = IF Len(sweep[s].kinds) = 1 THEN "watchers" ELSE "check"]]

Check(s) ==
    /\ At(s, "check")
    /\ IF Already(Current(s)) THEN Done(s) ELSE Goto(s, "record")
    /\ UNCHANGED <<stage, marked, watching, history, unsent, delivered, days, faults, turns>>

\* pushToUser: the row first, the devices next, the mark last.
Row_Misspelt(a) == [a EXCEPT !.kind = "open"]
Row(a) == a

Record(s) ==
    /\ At(s, "record")
    /\ history' = history \cup {Row(Current(s))}
    /\ unsent' = unsent \cup {Row(Current(s))}
    /\ Goto(s, "deliver")
    /\ UNCHANGED <<stage, marked, watching, delivered, days, faults, turns>>

Deliver(s) ==
    /\ At(s, "deliver")
    /\ delivered' = [delivered EXCEPT ![Current(s)] = @ + 1]
    /\ Goto(s, "mark")
    /\ UNCHANGED <<stage, marked, watching, history, unsent, days, faults, turns>>

Mark(s) ==
    /\ At(s, "mark")
    /\ unsent' = unsent \ {Current(s)}
    /\ Done(s)
    /\ UNCHANGED <<stage, marked, watching, history, delivered, days, faults, turns>>

\* A failed await ends the whole sweep; what it had not reached waits for the next.
Fail(s) ==
    /\ ~At(s, "idle") /\ faults < MaxFaults
    /\ faults' = faults + 1
    /\ sweep' = [sweep EXCEPT ![s] = IdleSweep]
    /\ UNCHANGED <<stage, marked, watching, history, unsent, delivered, days, turns>>

Sweep(s) ==
    \/ NextIssue(s) \/ NextWatcher(s) \/ Check(s) \/ Record(s) \/ Deliver(s) \/ Mark(s)

-----------------------------------------------------------------------------
Restart ==
    /\ faults < MaxFaults /\ \E s \in Sweeper : ~At(s, "idle")
    /\ faults' = faults + 1
    /\ sweep' = [s \in Sweeper |-> IdleSweep]
    /\ UNCHANGED <<stage, marked, watching, history, unsent, delivered, days, turns>>

Watch ==
    /\ turns < MaxTurns /\ turns' = turns + 1
    /\ \E w \in User \X Ipo :
          watching' = IF w \in watching THEN watching \ {w} ELSE watching \cup {w}
    /\ UNCHANGED <<stage, marked, history, unsent, delivered, sweep, days, faults>>

DayPasses ==
    /\ days < MaxDays /\ days' = days + 1
    /\ \E i \in Ipo : stage[i] # "listed" /\ stage' = [stage EXCEPT ![i] = After[@]]
    /\ UNCHANGED <<marked, watching, history, unsent, delivered, sweep, faults, turns>>

\* An operator's save, or an import, writes the status column.
SaveStatus ==
    /\ turns < MaxTurns /\ turns' = turns + 1
    /\ \E i \in Ipo : marked' = IF i \in marked THEN marked \ {i} ELSE marked \cup {i}
    /\ UNCHANGED <<stage, watching, history, unsent, delivered, sweep, days, faults>>

Next ==
    \/ \E s \in Sweeper : Start(s) \/ Sweep(s) \/ Fail(s)
    \/ Restart \/ Watch \/ SaveStatus \/ DayPasses

Spec == Init /\ [][Next]_vars

\* The timer goes off every hour, and a sweep that started goes on.
FairSpec == Spec /\ \A s \in Sweeper : WF_vars(Start(s)) /\ WF_vars(Sweep(s))

-----------------------------------------------------------------------------
\* "so the hourly sweep never double-sends" (alerts.service.ts): whatever fails or
\* restarts between recording and marking, an alert reaches a user once at most.
NeverAlertedTwice == \A a \in Alert : delivered[a] <= 1

IsDue(a) == <<a.user, a.ipo>> \in watching /\ \E n \in DOMAIN Due(a.ipo) : Due(a.ipo)[n] = a.kind

\* Recorded by a sweep that died, or could not read the devices, before it delivered:
\* "already sent" for every later sweep, and sent by none.
Lost(a) ==
    /\ a \in unsent /\ delivered[a] = 0
    /\ \A s \in Sweeper : At(s, "deliver") => Current(s) # a

\* An alert that stays due is handed to the devices of all who watch, whatever else
\* they were alerted to before and wherever sweeps ended, unless one ended between
\* recording that alert and delivering it.
WatchersHear == \A a \in Alert : IsDue(a) ~> (delivered[a] > 0 \/ Lost(a) \/ ~IsDue(a))
=============================================================================
