----------------------- MODULE WatchlistAlertsProofs -----------------------
(***************************************************************************)
(* With one sweep at a time nobody is alerted twice, for any users, issues *)
(* and calendar and with failures and restarts at every step.  Overlapping *)
(* sweeps do alert twice, so the theorem is about one sweeper.             *)
(***************************************************************************)
EXTENDS WatchlistAlerts, SequenceTheorems, TLAPS

Alone == \A s, t \in Sweeper : s = t

Busy(s) == sweep[s].step \in {"check", "record", "deliver", "mark"}

\* An issue is in a sweep for an alert that is due, so a watcher has one to check.
Pending(w) ==
    /\ \A i \in w.issues : i.due # <<>>
    /\ w.step = "watchers" => w.due # <<>>
    /\ w.step \in {"check", "record", "deliver", "mark"} => w.due # <<>> /\ w.kinds # <<>>

SweepType ==
    /\ stage \in [Ipo -> Stage]
    /\ history \subseteq Alert
    /\ delivered \in [Alert -> Nat]
    /\ \A s \in Sweeper : sweep[s] \in SweepState /\ Pending(sweep[s])
    /\ sweep = [s \in Sweeper |-> sweep[s]]

\* A delivered alert is in the history; one about to be recorded is not, and one
\* about to be delivered was not delivered before.
OnceInv ==
    /\ \A a \in Alert : delivered[a] = 0 \/ (delivered[a] = 1 /\ a \in history)
    /\ \A s \in Sweeper : At(s, "record") => Current(s) \notin history
    /\ \A s \in Sweeper : At(s, "deliver") => Current(s) \in history /\ delivered[Current(s)] = 0

-----------------------------------------------------------------------------
LEMMA DueType == \A i \in Ipo : Due(i) \in Seq(Kind)
<1> SUFFICES ASSUME NEW i \in Ipo PROVE Due(i) \in Seq(Kind)
  OBVIOUS
<1>1. ASSUME NEW said, NEW kind \in Kind PROVE If(said, kind) \in Seq(Kind)
  BY DEF If
<1> DEFINE a == If(i \in marked, "ipo_open")
           b == If(i \in marked /\ stage[i] = "closing", "ipo_closing")
           c == If(stage[i] = "allotment", "ipo_allotment")
           d == If(stage[i] = "listing", "ipo_listing")
<1>2. a \in Seq(Kind) /\ b \in Seq(Kind) /\ c \in Seq(Kind) /\ d \in Seq(Kind)
  BY <1>1 DEF Kind
<1>3. Due(i) = a \o b \o c \o d
  BY DEF Due
<1> HIDE DEF a, b, c, d
<1>4. QED
  BY <1>2, <1>3

\* What is left of the alerts after the first; none only if there was one.
LEMMA Rest ==
    ASSUME NEW q \in Seq(Kind), q # <<>>
    PROVE  Tail(q) \in Seq(Kind) /\ (Len(q) # 1 => Tail(q) # <<>>)
<1>1. Tail(q) \in Seq(Kind)
  OBVIOUS
<1>2. Len(q) \in Nat /\ Len(q) # 0
  BY EmptySeq
<1>3. Len(Tail(q)) = Len(q) - 1
  BY HeadTailProperties
<1>4. QED
  BY <1>1, <1>2, <1>3, EmptySeq

LEMMA IdleType == IdleSweep \in SweepState /\ IdleSweep.step = "idle" /\ Pending(IdleSweep)
<1>1. (CHOOSE i \in Ipo : TRUE) \in Ipo /\ (CHOOSE u \in User : TRUE) \in User
  BY PeopleAssumption
<1>2. <<>> \in Seq(Kind)
  OBVIOUS
<1>3. QED
  BY <1>1, <1>2 DEF IdleSweep, SweepState, Pending

LEMMA CurrentType ==
    ASSUME SweepType, NEW s \in Sweeper, Busy(s)
    PROVE  Current(s) \in Alert
<1>1. sweep[s].kinds \in Seq(Kind) /\ sweep[s].kinds # <<>> /\ sweep[s].user \in User /\ sweep[s].ipo \in Ipo
  BY DEF SweepType, SweepState, Pending, Busy
<1>2. Head(sweep[s].kinds) \in Kind
  BY <1>1
<1>3. QED
  BY <1>1, <1>2 DEF Current, Alert

\* A sweep's step replaces its own record only.
LEMMA Replaced ==
    ASSUME SweepType, NEW s \in Sweeper, NEW w \in SweepState, Pending(w), sweep' = [sweep EXCEPT ![s] = w]
    PROVE  /\ \A t \in Sweeper : sweep'[t] \in SweepState /\ Pending(sweep'[t])
           /\ sweep' = [t \in Sweeper |-> sweep'[t]]
BY DEF SweepType

LEMMA GotoType ==
    ASSUME SweepType, NEW s \in Sweeper, NEW step \in {"issues", "record", "deliver", "mark"}, Goto(s, step),
           step # "issues" => Busy(s)
    PROVE  /\ \A t \in Sweeper : sweep'[t] \in SweepState /\ Pending(sweep'[t])
           /\ sweep' = [t \in Sweeper |-> sweep'[t]]
<1> DEFINE w == [sweep[s] EXCEPT !.step = step]
<1>1. sweep[s] \in SweepState /\ Pending(sweep[s])
  BY DEF SweepType
<1>2. w \in SweepState /\ Pending(w)
  BY <1>1 DEF SweepState, Pending, Busy
<1>3. sweep' = [sweep EXCEPT ![s] = w]
  BY DEF Goto, SweepType
<1> HIDE DEF w
<1>4. QED
  BY <1>2, <1>3, Replaced

LEMMA DoneType ==
    ASSUME SweepType, NEW s \in Sweeper, Busy(s), Done(s)
    PROVE  /\ \A t \in Sweeper : sweep'[t] \in SweepState /\ Pending(sweep'[t])
           /\ sweep' = [t \in Sweeper |-> sweep'[t]]
           /\ sweep'[s].step \in {"watchers", "check"}
<1> DEFINE rest == Tail(sweep[s].kinds)
           next == IF Len(sweep[s].kinds) = 1 THEN "watchers" ELSE "check"
           w == [sweep[s] EXCEPT !.kinds = rest, !.step = next]
<1>1. sweep[s] \in SweepState /\ Pending(sweep[s])
  BY DEF SweepType
<1>2. sweep[s].kinds \in Seq(Kind) /\ sweep[s].kinds # <<>>
  BY <1>1 DEF SweepState, Pending, Busy
<1>3. rest \in Seq(Kind) /\ (next = "check" => rest # <<>>)
  BY <1>2, Rest
<1>4. next \in {"watchers", "check"}
  OBVIOUS
<1>5. sweep' = [sweep EXCEPT ![s] = w]
  BY DEF Done
<1> HIDE DEF rest, next
<1>6. w \in SweepState /\ Pending(w) /\ w.step = next
  BY <1>1, <1>3, <1>4 DEF SweepState, Pending, Busy
<1> HIDE DEF w
<1>7. sweep'[s] = w
  BY <1>5 DEF SweepType
<1>8. QED
  BY <1>4, <1>5, <1>6, <1>7, Replaced

-----------------------------------------------------------------------------
LEMMA InitType == Init => SweepType
BY IdleType, FirstAssumption DEF Init, SweepType, Alert

LEMMA StartType == ASSUME SweepType, NEW s \in Sweeper, Start(s) PROVE SweepType'
<1> DEFINE w == [sweep[s] EXCEPT !.step = "issues", !.issues = InScope]
<1>1. sweep[s] \in SweepState
  BY DEF SweepType
<1>2. InScope \in SUBSET Seen /\ \A i \in InScope : i.due # <<>>
  BY DueType DEF InScope, Seen
<1>3. w \in SweepState /\ Pending(w)
  BY <1>1, <1>2 DEF SweepState, Pending
<1>4. sweep' = [sweep EXCEPT ![s] = w]
  BY DEF Start
<1> HIDE DEF w
<1>5. QED
  BY <1>3, <1>4, Replaced DEF Start, SweepType

LEMMA NextIssueType == ASSUME SweepType, NEW s \in Sweeper, NextIssue(s) PROVE SweepType'
<1>1. CASE sweep' = [sweep EXCEPT ![s] = IdleSweep]
  BY <1>1, IdleType, Replaced DEF NextIssue, SweepType
<1>2. ASSUME NEW i \in sweep[s].issues,
             sweep' = [sweep EXCEPT ![s] = [sweep[s] EXCEPT
                         !.step = "watchers", !.ipo = i.ipo, !.issues = sweep[s].issues \ {i}, !.due = i.due,
                         !.users = {u \in User : <<u, i.ipo>> \in watching}]]
      PROVE  SweepType'
  <2> DEFINE w == [sweep[s] EXCEPT
                     !.step = "watchers", !.ipo = i.ipo, !.issues = sweep[s].issues \ {i}, !.due = i.due,
                     !.users = {u \in User : <<u, i.ipo>> \in watching}]
  <2>1. sweep[s] \in SweepState /\ Pending(sweep[s])
    BY DEF SweepType
  <2>2. i.ipo \in Ipo /\ i.due # <<>>
    BY <2>1 DEF SweepState, Seen, Pending
  <2>3. i.due \in Seq(Kind)
    BY <2>1 DEF SweepState, Seen
  <2>4. w \in SweepState /\ Pending(w)
    BY <2>1, <2>2, <2>3 DEF SweepState, Pending
  <2>5. sweep' = [sweep EXCEPT ![s] = w]
    BY <1>2
  <2> HIDE DEF w
  <2>6. QED
    BY <2>4, <2>5, Replaced DEF NextIssue, SweepType
<1>3. QED
  BY <1>1, <1>2 DEF NextIssue

LEMMA NextWatcherType == ASSUME SweepType, NEW s \in Sweeper, NextWatcher(s) PROVE SweepType'
<1>1. CASE Goto(s, "issues")
  BY <1>1, GotoType DEF NextWatcher, SweepType
<1>2. ASSUME NEW u \in sweep[s].users,
             sweep' = [sweep EXCEPT ![s] = [sweep[s] EXCEPT
                         !.step = "check", !.user = u, !.users = sweep[s].users \ {u}, !.kinds = sweep[s].due]]
      PROVE  SweepType'
  <2> DEFINE w == [sweep[s] EXCEPT
                     !.step = "check", !.user = u, !.users = sweep[s].users \ {u}, !.kinds = sweep[s].due]
  <2>1. sweep[s] \in SweepState /\ Pending(sweep[s]) /\ sweep[s].step = "watchers"
    BY DEF SweepType, NextWatcher, At
  <2>2. w \in SweepState /\ Pending(w)
    BY <2>1 DEF SweepState, Pending
  <2>3. sweep' = [sweep EXCEPT ![s] = w]
    BY <1>2
  <2> HIDE DEF w
  <2>4. QED
    BY <2>2, <2>3, Replaced DEF NextWatcher, SweepType
<1>3. QED
  BY <1>1, <1>2 DEF NextWatcher

LEMMA IdleAll ==
    ASSUME SweepType, sweep' = [s \in Sweeper |-> IdleSweep], UNCHANGED <<stage, history, delivered>>
    PROVE  SweepType'
BY IdleType DEF SweepType

\* The sweeps' records keep their shape and an alert being handled is an alert.
LEMMA NextType == SweepType /\ [Next]_vars => SweepType'
<1> SUFFICES ASSUME SweepType, [Next]_vars PROVE SweepType'
  OBVIOUS
<1>1. ASSUME NEW s \in Sweeper, Start(s) PROVE SweepType'
  BY <1>1, StartType
<1>2. ASSUME NEW s \in Sweeper, NextIssue(s) PROVE SweepType'
  BY <1>2, NextIssueType
<1>3. ASSUME NEW s \in Sweeper, NextWatcher(s) PROVE SweepType'
  BY <1>3, NextWatcherType
<1>4. ASSUME NEW s \in Sweeper, Check(s) PROVE SweepType'
  <2>1. Busy(s)
    BY <1>4 DEF Check, At, Busy
  <2>2. CASE Done(s)
    BY <1>4, <2>1, <2>2, DoneType DEF Check, SweepType
  <2>3. CASE Goto(s, "record")
    BY <1>4, <2>1, <2>3, GotoType DEF Check, SweepType
  <2>4. QED
    BY <1>4, <2>2, <2>3 DEF Check
<1>5. ASSUME NEW s \in Sweeper, Record(s) PROVE SweepType'
  <2>1. Busy(s) /\ Current(s) \in Alert
    BY <1>5, CurrentType DEF Record, At, Busy
  <2>2. QED
    BY <1>5, <2>1, GotoType DEF Record, SweepType, Row
<1>6. ASSUME NEW s \in Sweeper, Deliver(s) PROVE SweepType'
  <2>1. Busy(s) /\ Current(s) \in Alert
    BY <1>6, CurrentType DEF Deliver, At, Busy
  <2>2. delivered' \in [Alert -> Nat]
    BY <1>6, <2>1 DEF Deliver, SweepType
  <2>3. QED
    BY <1>6, <2>1, <2>2, GotoType DEF Deliver, SweepType
<1>7. ASSUME NEW s \in Sweeper, Mark(s) PROVE SweepType'
  <2>1. Busy(s)
    BY <1>7 DEF Mark, At, Busy
  <2>2. QED
    BY <1>7, <2>1, DoneType DEF Mark, SweepType
<1>8. ASSUME NEW s \in Sweeper, Fail(s) PROVE SweepType'
  BY <1>8, IdleType, Replaced DEF Fail, SweepType
<1>9. ASSUME Restart PROVE SweepType'
  BY <1>9, IdleAll DEF Restart
<1>10. ASSUME DayPasses PROVE SweepType'
  <2>1. PICK i \in Ipo : stage[i] # "listed" /\ stage' = [stage EXCEPT ![i] = After[stage[i]]]
    BY <1>10 DEF DayPasses
  <2>2. stage[i] \in Stage /\ After[stage[i]] \in Stage
    BY <2>1 DEF SweepType, Stage, After
  <2>3. QED
    BY <1>10, <2>1, <2>2 DEF DayPasses, SweepType
<1>11. ASSUME Watch \/ SaveStatus \/ UNCHANGED vars PROVE SweepType'
  BY <1>11 DEF Watch, SaveStatus, vars, SweepType
<1>12. QED
  BY <1>1, <1>2, <1>3, <1>4, <1>5, <1>6, <1>7, <1>8, <1>9, <1>10, <1>11 DEF Next, Sweep

-----------------------------------------------------------------------------
\* A sweep that changes neither the history nor what was delivered and does not
\* reach "record" or "deliver" leaves everything told once.
LEMMA QuietStep ==
    ASSUME SweepType, OnceInv, UNCHANGED <<history, delivered>>,
           \A s \in Sweeper : sweep'[s] = sweep[s] \/ sweep'[s].step \notin {"record", "deliver"}
    PROVE  OnceInv'
BY DEF OnceInv, At, Current

LEMMA InitOnce == Init => OnceInv
BY IdleType DEF Init, OnceInv, At

LEMMA NextOnce == Alone /\ SweepType /\ OnceInv /\ [Next]_vars => OnceInv'
<1> SUFFICES ASSUME Alone, SweepType, OnceInv, [Next]_vars PROVE OnceInv'
  OBVIOUS
<1>1. ASSUME NEW s \in Sweeper, Start(s) PROVE OnceInv'
  BY <1>1, QuietStep DEF Start, SweepType, SweepState
<1>2. ASSUME NEW s \in Sweeper, NextIssue(s) PROVE OnceInv'
  BY <1>2, QuietStep, IdleType DEF NextIssue, SweepType, SweepState
<1>3. ASSUME NEW s \in Sweeper, NextWatcher(s) PROVE OnceInv'
  BY <1>3, QuietStep DEF NextWatcher, Goto, SweepType, SweepState
<1>4. ASSUME NEW s \in Sweeper, Check(s) PROVE OnceInv'
  <2>1. Busy(s)
    BY <1>4 DEF Check, At, Busy
  <2>2. CASE Done(s)
    <3>1. \A t \in Sweeper : sweep'[t] = sweep[t] \/ sweep'[t].step \notin {"record", "deliver"}
      BY <2>1, <2>2, DoneType DEF Alone
    <3>2. QED
      BY <1>4, <3>1, QuietStep DEF Check
  <2>3. CASE ~Already(Current(s)) /\ Goto(s, "record")
    <3>1. sweep'[s] = [sweep[s] EXCEPT !.step = "record"]
      BY <2>3 DEF Goto, SweepType
    <3>2. Current(s)' = Current(s) /\ At(s, "record")' /\ ~At(s, "deliver")'
      BY <3>1 DEF Current, At, SweepType, SweepState
    <3>3. QED
      BY <1>4, <2>3, <3>2 DEF Check, Already, Alone, OnceInv
  <2>4. QED
    BY <1>4, <2>2, <2>3 DEF Check
<1>5. ASSUME NEW s \in Sweeper, Record(s) PROVE OnceInv'
  <2>1. Current(s) \in Alert
    BY <1>5, CurrentType DEF Record, At, Busy
  <2>2. sweep'[s] = [sweep[s] EXCEPT !.step = "deliver"]
    BY <1>5 DEF Record, Goto, SweepType
  <2>3. Current(s)' = Current(s) /\ ~At(s, "record")'
    BY <2>2 DEF Current, At, SweepType, SweepState
  <2>4. delivered[Current(s)] = 0
    BY <1>5, <2>1 DEF Record, OnceInv
  <2>5. QED
    BY <1>5, <2>1, <2>3, <2>4 DEF Record, Row, Alone, OnceInv
<1>6. ASSUME NEW s \in Sweeper, Deliver(s) PROVE OnceInv'
  <2>1. Current(s) \in Alert
    BY <1>6, CurrentType DEF Deliver, At, Busy
  <2>2. sweep'[s] = [sweep[s] EXCEPT !.step = "mark"]
    BY <1>6 DEF Deliver, Goto, SweepType
  <2>3. ~At(s, "record")' /\ ~At(s, "deliver")'
    BY <2>2 DEF At, SweepType, SweepState
  <2>4. Current(s) \in history /\ delivered[Current(s)] = 0
    BY <1>6 DEF Deliver, OnceInv
  <2>5. \A a \in Alert : delivered'[a] = IF a = Current(s) THEN 1 ELSE delivered[a]
    BY <1>6, <2>1, <2>4 DEF Deliver, SweepType
  <2>6. \A t \in Sweeper : ~At(t, "record")' /\ ~At(t, "deliver")'
    BY <2>3 DEF Alone
  <2>7. QED
    BY <1>6, <2>4, <2>5, <2>6 DEF Deliver, OnceInv
<1>7. ASSUME NEW s \in Sweeper, Mark(s) PROVE OnceInv'
  <2>1. Busy(s)
    BY <1>7 DEF Mark, At, Busy
  <2>2. sweep'[s].step \in {"watchers", "check"}
    BY <1>7, <2>1, DoneType DEF Mark
  <2>3. \A t \in Sweeper : sweep'[t] = sweep[t] \/ sweep'[t].step \notin {"record", "deliver"}
    BY <2>2 DEF Alone
  <2>4. QED
    BY <1>7, <2>3, QuietStep DEF Mark
<1>8. ASSUME NEW s \in Sweeper, Fail(s) PROVE OnceInv'
  BY <1>8, IdleType, QuietStep DEF Fail, SweepType
<1>9. ASSUME Restart PROVE OnceInv'
  BY <1>9, IdleType, QuietStep DEF Restart
<1>10. ASSUME Watch \/ SaveStatus \/ DayPasses \/ UNCHANGED vars PROVE OnceInv'
  BY <1>10, QuietStep DEF Watch, SaveStatus, DayPasses, vars
<1>11. QED
  BY <1>1, <1>2, <1>3, <1>4, <1>5, <1>6, <1>7, <1>8, <1>9, <1>10 DEF Next, Sweep

\* With a single sweep at a time, no alert reaches a user twice: not when a sweep dies
\* between recording an alert and marking it, and not when the process restarts.
THEOREM AloneAlertsOnce == Alone => (Spec => []NeverAlertedTwice)
<1> SUFFICES ASSUME Alone PROVE Spec => []NeverAlertedTwice
  OBVIOUS
<1>1. SweepType /\ OnceInv => NeverAlertedTwice
  BY DEF SweepType, OnceInv, NeverAlertedTwice
<1>2. SweepType /\ OnceInv /\ [Next]_vars => (SweepType /\ OnceInv)'
  BY NextType, NextOnce
<1>3. Init => SweepType /\ OnceInv
  BY InitType, InitOnce
<1>4. QED
  BY <1>1, <1>2, <1>3, PTL DEF Spec

-----------------------------------------------------------------------------
\* What SweepType leaves out: a mark is only ever taken off a recorded alert.
RestType ==
    /\ marked \subseteq Ipo
    /\ watching \subseteq User \X Ipo
    /\ unsent \subseteq history
    /\ days \in 0 .. MaxDays /\ faults \in 0 .. MaxFaults /\ turns \in 0 .. MaxTurns

LEMMA InitRest == Init => RestType
BY FirstAssumption, BoundsAssumption DEF Init, RestType

LEMMA NextRest == RestType /\ [Next]_vars => RestType'
<1> SUFFICES ASSUME RestType, [Next]_vars PROVE RestType'
  OBVIOUS
<1>1. ASSUME NEW s \in Sweeper, Start(s) PROVE RestType'
  BY <1>1 DEF Start, RestType
<1>2. ASSUME NEW s \in Sweeper, NextIssue(s) PROVE RestType'
  BY <1>2 DEF NextIssue, RestType
<1>3. ASSUME NEW s \in Sweeper, NextWatcher(s) PROVE RestType'
  BY <1>3 DEF NextWatcher, RestType
<1>4. ASSUME NEW s \in Sweeper, Check(s) PROVE RestType'
  BY <1>4 DEF Check, RestType
<1>5. ASSUME NEW s \in Sweeper, Record(s) PROVE RestType'
  BY <1>5 DEF Record, RestType
<1>6. ASSUME NEW s \in Sweeper, Deliver(s) \/ Mark(s) PROVE RestType'
  BY <1>6 DEF Deliver, Mark, RestType
<1>7. ASSUME NEW s \in Sweeper, Fail(s) PROVE RestType'
  BY <1>7, BoundsAssumption DEF Fail, RestType
<1>8. CASE Restart
  BY <1>8, BoundsAssumption DEF Restart, RestType
<1>9. CASE Watch
  <2>1. PICK w \in User \X Ipo : watching' = IF w \in watching THEN watching \ {w} ELSE watching \cup {w}
    BY <1>9 DEF Watch
  <2>2. watching' \subseteq User \X Ipo
    BY <2>1 DEF RestType
  <2>3. QED
    BY <1>9, <2>2, BoundsAssumption DEF Watch, RestType
<1>10. CASE SaveStatus
  BY <1>10, BoundsAssumption DEF SaveStatus, RestType
<1>11. CASE DayPasses
  BY <1>11, BoundsAssumption DEF DayPasses, RestType
<1>12. CASE UNCHANGED vars
  BY <1>12 DEF vars, RestType
<1>13. QED
  BY <1>1, <1>2, <1>3, <1>4, <1>5, <1>6, <1>7, <1>8, <1>9, <1>10, <1>11, <1>12 DEF Next, Sweep

\* Whatever the sweeps do to each other, their records, the watchlist and the
\* notification history keep their types, and only recorded alerts are unsent.
THEOREM TypeCorrect == Spec => []TypeOK
<1>1. Init => SweepType /\ RestType
  BY InitType, InitRest
<1>2. SweepType /\ RestType /\ [Next]_vars => (SweepType /\ RestType)'
  BY NextType, NextRest
<1>3. SweepType /\ RestType => TypeOK
  <2> SUFFICES ASSUME SweepType, RestType PROVE TypeOK
    OBVIOUS
  <2>1. sweep \in [Sweeper -> SweepState]
    BY DEF SweepType
  <2>2. QED
    BY <2>1 DEF SweepType, RestType, TypeOK
<1>4. QED
  BY <1>1, <1>2, <1>3, PTL DEF Spec
=============================================================================
