------------------------ MODULE SubscriptionPollProofs ------------------------
(***************************************************************************)
(* What the poller may do to the row, for any categories, people, faults   *)
(* and answers.  That a refresh leaves alone what people entered holds for *)
(* any number of refreshes at once; that it erases no figure, and that the *)
(* poller's memory is what is stored, for one refresh at a time (two that  *)
(* overlap break both).  The types need the sum of the roll-up to be a     *)
(* number: FiniteSetsExt adds up a set by recursion on its subsets, and    *)
(* the two inductions are done with least counterexamples, a number and a  *)
(* set, instead of an induction theorem.                                   *)
(***************************************************************************)
EXTENDS SubscriptionPoll, FiniteSetTheorems, TLAPS

Alone == \A p, q \in Poller : p = q

Keys == {"book", "gates", "gmpLog", "subLog"}

\* Whatever is written to the column was the column once, so it has all its keys.
ColumnInv ==
    /\ DOMAIN extra = Keys
    /\ \A w \in Editor : DOMAIN edit[w] = {"at", "entry", "page", "prev"}
    /\ \A w \in Editor : DOMAIN edit[w].page = Keys /\ DOMAIN edit[w].prev = Keys
    /\ edit = [w \in Editor |-> edit[w]]

\* A refresh about to write erases no figure that is stored, and one that has
\* written is the last that did.
PollInv ==
    /\ poll = [p \in Poller |-> poll[p]]
    /\ \A p \in Poller : DOMAIN poll[p] = {"at", "ex", "answer", "subs"}
    /\ \A p \in Poller : poll[p].at = "write" =>
          \A c \in DOMAIN rows \cap DOMAIN poll[p].subs : Known(rows[c]) => Known(poll[p].subs[c])
    /\ \A p \in Poller : poll[p].at = "remember" => rows = poll[p].subs
    /\ MemoryDescribesRows

-----------------------------------------------------------------------------
LEMMA IdleShape == DOMAIN Idle = {"at", "ex", "answer", "subs"} /\ Idle.at = "idle"
BY DEF Idle

LEMMA InitColumn == Init => ColumnInv
BY DEF Init, ColumnInv, NoExtra, AtRest, Keys

LEMMA SaveColumn ==
    ASSUME ColumnInv, NEW w \in Editor, NEW next, DOMAIN next = Keys, Save(w, next)
    PROVE  ColumnInv'
BY DEF ColumnInv, Save, AtRest, NoExtra, Keys

\* The column and the copies of it keep their keys.
LEMMA NextColumn == ColumnInv /\ [Next]_vars => ColumnInv'
<1> SUFFICES ASSUME ColumnInv, [Next]_vars PROVE ColumnInv'
  OBVIOUS
<1>1. ASSUME NEW p \in Poller, Start(p) \/ PollStep(p) \/ PollFails(p) PROVE ColumnInv'
  <2>1. UNCHANGED <<extra, edit>> \/ (extra' = Merge(p) /\ UNCHANGED edit)
    BY <1>1 DEF Start, PollStep, AskNse, AskBse, KeepFigures, Write, Remember, PollFails
  <2>2. QED
    BY <2>1 DEF ColumnInv, Merge
<1>2. ASSUME NEW w \in Form, OpenForm(w) PROVE ColumnInv'
  BY <1>2 DEF OpenForm, ColumnInv, AtRest, NoExtra, Keys, Editor
<1>10. ASSUME NEW w \in Form, SubmitForm(w) PROVE ColumnInv'
  <2> DEFINE v == [edit[w] EXCEPT !.at = "read", !.prev = extra]
  <2>1. w \in Editor
    BY DEF Editor
  <2>2. DOMAIN v = {"at", "entry", "page", "prev"} /\ v.page = edit[w].page /\ v.prev = extra
    BY <2>1 DEF ColumnInv
  <2>3. edit' = [edit EXCEPT ![w] = v] /\ UNCHANGED extra
    BY <1>10 DEF SubmitForm
  <2> HIDE DEF v
  <2>4. QED
    BY <2>1, <2>2, <2>3 DEF ColumnInv
<1>3. ASSUME NEW w \in Ops \cup Gmp, ReadRow(w) PROVE ColumnInv'
  BY <1>3 DEF ReadRow, ColumnInv, AtRest, NoExtra, Keys, Editor
<1>4. ASSUME NEW w \in Form, SaveForm(w) PROVE ColumnInv'
  <2>1. w \in Editor /\ DOMAIN FormExtra(edit[w]) = Keys
    BY DEF Editor, FormExtra, ColumnInv
  <2>2. QED
    BY <1>4, <2>1, SaveColumn DEF SaveForm
<1>5. ASSUME NEW w \in Ops, SaveOps(w) PROVE ColumnInv'
  <2>1. w \in Editor /\ DOMAIN OpsExtra(edit[w]) = Keys
    BY DEF Editor, OpsExtra, ColumnInv
  <2>2. QED
    BY <1>5, <2>1, SaveColumn DEF SaveOps
<1>6. ASSUME NEW w \in Gmp, SubmitGmp(w) PROVE ColumnInv'
  <2>1. w \in Editor /\ DOMAIN GmpExtra(edit[w]) = Keys
    BY DEF Editor, GmpExtra, ColumnInv
  <2>2. QED
    BY <1>6, <2>1, SaveColumn DEF SubmitGmp
<1>7. ASSUME Restart PROVE ColumnInv'
  BY <1>7 DEF Restart, ColumnInv, AtRest, NoExtra, Keys
<1>8. ASSUME MarketMoves \/ UNCHANGED vars PROVE ColumnInv'
  BY <1>8 DEF MarketMoves, vars, ColumnInv
<1>9. QED
  BY <1>1, <1>2, <1>3, <1>4, <1>5, <1>6, <1>7, <1>8, <1>10 DEF Next

\* A step of a refresh changes the poller's own key at most; a step of a person
\* is no step of a refresh.
LEMMA StepLeavesEntries ==
    ASSUME ColumnInv, [Next]_vars
    PROVE  [(\E p \in Poller : poll'[p] # poll[p]) => Entries' = Entries]_vars
<1>1. ASSUME NEW p \in Poller, Start(p) \/ PollStep(p) \/ PollFails(p) PROVE Entries' = Entries
  <2>1. UNCHANGED extra \/ extra' = Merge(p)
    BY <1>1 DEF Start, PollStep, AskNse, AskBse, KeepFigures, Write, Remember, PollFails
  <2>2. QED
    BY <2>1 DEF ColumnInv, Merge, Entries, Keys
<1>2. ASSUME NEW w \in Form, OpenForm(w) \/ SubmitForm(w) \/ SaveForm(w) PROVE UNCHANGED poll
  BY <1>2 DEF OpenForm, SubmitForm, SaveForm, Save, bounds
<1>3. ASSUME NEW w \in Ops \cup Gmp, ReadRow(w) \/ SaveOps(w) \/ SubmitGmp(w) PROVE UNCHANGED poll
  BY <1>3 DEF ReadRow, SaveOps, SubmitGmp, Save
<1>4. ASSUME Restart \/ MarketMoves PROVE Entries' = Entries
  BY <1>4 DEF Restart, MarketMoves, Entries
<1>5. QED
  BY <1>1, <1>2, <1>3, <1>4 DEF Next

\* No refresh, however old what it read, puts back a value a person has replaced.
THEOREM EntriesStand == Spec => RefreshLeavesEntries
<1>1. Init => ColumnInv
  BY InitColumn
<1>2. ColumnInv /\ [Next]_vars => ColumnInv'
  BY NextColumn
<1>3. ColumnInv /\ [Next]_vars => [(\E p \in Poller : poll'[p] # poll[p]) => Entries' = Entries]_vars
  BY StepLeavesEntries
<1>4. QED
  BY <1>1, <1>2, <1>3, PTL DEF Spec, RefreshLeavesEntries

-----------------------------------------------------------------------------
\* What is kept of the stored rows leaves no known figure empty.
LEMMA KeepKnownKeeps ==
    ASSUME NEW fresh, NEW stored, NEW c \in DOMAIN stored \cap DOMAIN KeepKnown(fresh, stored), Known(stored[c])
    PROVE  Known(KeepKnown(fresh, stored)[c])
<1> DEFINE kept == {d \in DOMAIN stored : Known(stored[d])}
<1>1. c \in kept
  OBVIOUS
<1>2. KeepKnown(fresh, stored)[c] = IF c \in DOMAIN fresh /\ (Known(fresh[c]) \/ c \notin kept) THEN fresh[c] ELSE stored[c]
  BY <1>1 DEF KeepKnown
<1>3. QED
  BY <1>1, <1>2

\* A refresh settles without erasing a figure, given its rows would not.
LEMMA SettleKeeps ==
    ASSUME NEW ex, NEW subs, \A c \in DOMAIN rows \cap DOMAIN subs : Known(rows[c]) => Known(subs[c])
    PROVE  LET s == Settle(ex, subs)
           IN  /\ DOMAIN s = {"at", "ex", "answer", "subs"}
               /\ s.at \in {"idle", "write"}
               /\ s.at = "write" => \A c \in DOMAIN rows \cap DOMAIN s.subs : Known(rows[c]) => Known(s.subs[c])
BY DEF Settle, Idle

\* A step that leaves the rows and the memory keeps the invariant when the one
\* refresh it changes is not about to write more than it should.
LEMMA ReplacedPoll ==
    ASSUME PollInv, UNCHANGED <<rows, lastSnapshot>>, NEW p \in Poller, NEW v,
           DOMAIN v = {"at", "ex", "answer", "subs"}, v.at # "remember", poll[p].at # "remember",
           v.at = "write" => \A c \in DOMAIN rows \cap DOMAIN v.subs : Known(rows[c]) => Known(v.subs[c]),
           poll' = [poll EXCEPT ![p] = v]
    PROVE  PollInv'
<1>1. \A q \in Poller : poll'[q] = IF q = p THEN v ELSE poll[q]
  BY DEF PollInv
<1>2. MemoryDescribesRows'
  BY <1>1 DEF PollInv, MemoryDescribesRows
<1>3. QED
  BY <1>1, <1>2 DEF PollInv

LEMMA InitPoll == Init => PollInv
BY IdleShape DEF Init, PollInv, MemoryDescribesRows, Forgotten

LEMMA NextPoll == Alone /\ PollInv /\ [Next]_vars => PollInv'
<1> SUFFICES ASSUME Alone, PollInv, [Next]_vars PROVE PollInv'
  OBVIOUS
<1>1. ASSUME NEW p \in Poller, Start(p) PROVE PollInv'
  <2> DEFINE v == [Idle EXCEPT !.at = "nse", !.ex = extra]
  <2>1. DOMAIN v = {"at", "ex", "answer", "subs"} /\ v.at = "nse"
    BY DEF Idle
  <2>2. UNCHANGED <<rows, lastSnapshot>> /\ poll[p].at # "remember" /\ poll' = [poll EXCEPT ![p] = v]
    BY <1>1 DEF Start
  <2> HIDE DEF v
  <2>3. QED
    BY <2>1, <2>2, ReplacedPoll
<1>2. ASSUME NEW p \in Poller, AskNse(p) PROVE PollInv'
  <2>1. PICK answer :
          poll' = [poll EXCEPT ![p] = [poll[p] EXCEPT !.at = "bse", !.answer = [poll[p].answer EXCEPT !["nse"] = answer]]]
    BY <1>2 DEF AskNse
  <2> DEFINE v == [poll[p] EXCEPT !.at = "bse", !.answer = [poll[p].answer EXCEPT !["nse"] = answer]]
  <2>2. DOMAIN v = {"at", "ex", "answer", "subs"} /\ v.at = "bse"
    BY DEF PollInv
  <2>3. UNCHANGED <<rows, lastSnapshot>> /\ poll[p].at # "remember" /\ poll' = [poll EXCEPT ![p] = v]
    BY <1>2, <2>1 DEF AskNse
  <2> HIDE DEF v
  <2>4. QED
    BY <2>2, <2>3, ReplacedPoll
<1>3. ASSUME NEW p \in Poller, AskBse(p) PROVE PollInv'
  <2>1. PICK fresh : poll' = [poll EXCEPT ![p] =
                     IF NeedsStored(fresh) THEN [Idle EXCEPT !.at = "keep", !.ex = poll[p].ex, !.subs = fresh]
                     ELSE Settle(poll[p].ex, fresh)]
    BY <1>3 DEF AskBse
  <2> DEFINE v == IF NeedsStored(fresh) THEN [Idle EXCEPT !.at = "keep", !.ex = poll[p].ex, !.subs = fresh]
                  ELSE Settle(poll[p].ex, fresh)
  <2>2. CASE NeedsStored(fresh)
    <3>1. DOMAIN v = {"at", "ex", "answer", "subs"} /\ v.at = "keep"
      BY <2>2 DEF Idle
    <3>2. UNCHANGED <<rows, lastSnapshot>> /\ poll[p].at # "remember" /\ poll' = [poll EXCEPT ![p] = v]
      BY <1>3, <2>1 DEF AskBse
    <3> HIDE DEF v
    <3>3. QED
      BY <3>1, <3>2, ReplacedPoll
  <2>3. CASE ~NeedsStored(fresh)
    <3>1. \A c \in DOMAIN rows \cap DOMAIN fresh : Known(rows[c]) => Known(fresh[c])
      BY <2>3 DEF NeedsStored
    <3>2. v = Settle(poll[p].ex, fresh)
      BY <2>3
    <3>3. UNCHANGED <<rows, lastSnapshot>> /\ poll[p].at # "remember" /\ poll' = [poll EXCEPT ![p] = v]
      BY <1>3, <2>1 DEF AskBse
    <3> HIDE DEF v
    <3>4. QED
      BY <3>1, <3>2, <3>3, SettleKeeps, ReplacedPoll
  <2>4. QED
    BY <2>2, <2>3
<1>4. ASSUME NEW p \in Poller, KeepFigures(p) PROVE PollInv'
  <2> DEFINE subs == KeepKnown(poll[p].subs, rows)
             v == Settle(poll[p].ex, subs)
  <2>1. \A c \in DOMAIN rows \cap DOMAIN subs : Known(rows[c]) => Known(subs[c])
    BY KeepKnownKeeps
  <2>2. UNCHANGED <<rows, lastSnapshot>> /\ poll[p].at # "remember" /\ poll' = [poll EXCEPT ![p] = v]
    BY <1>4 DEF KeepFigures
  <2> HIDE DEF subs
  <2>3. /\ DOMAIN v = {"at", "ex", "answer", "subs"} /\ v.at \in {"idle", "write"}
        /\ v.at = "write" => \A c \in DOMAIN rows \cap DOMAIN v.subs : Known(rows[c]) => Known(v.subs[c])
    BY <2>1, SettleKeeps
  <2> HIDE DEF v
  <2>4. QED
    BY <2>2, <2>3, ReplacedPoll
<1>5. ASSUME NEW p \in Poller, Write(p) PROVE PollInv'
  <2>1. \A q \in Poller : q = p
    BY DEF Alone
  <2>2. poll'[p] = [poll[p] EXCEPT !.at = "remember"] /\ poll' = [q \in Poller |-> poll'[q]]
    BY <1>5 DEF Write, PollInv
  <2>3. poll'[p].at = "remember" /\ poll'[p].subs = poll[p].subs /\ DOMAIN poll'[p] = {"at", "ex", "answer", "subs"}
    BY <2>2 DEF PollInv
  <2>4. rows' = poll[p].subs
    BY <1>5 DEF Write
  <2>5. QED
    BY <2>1, <2>2, <2>3, <2>4 DEF PollInv, MemoryDescribesRows
<1>6. ASSUME NEW p \in Poller, Remember(p) PROVE PollInv'
  <2>1. \A q \in Poller : q = p
    BY DEF Alone
  <2>2. poll'[p] = Idle /\ poll' = [q \in Poller |-> poll'[q]]
    BY <1>6 DEF Remember, PollInv
  <2>3. rows' = poll[p].subs /\ lastSnapshot'.subs = poll[p].subs
    BY <1>6 DEF Remember, PollInv
  <2>4. QED
    BY <2>1, <2>2, <2>3, IdleShape DEF PollInv, MemoryDescribesRows
<1>7. ASSUME NEW p \in Poller, PollFails(p) PROVE PollInv'
  BY <1>7, IdleShape, ReplacedPoll DEF PollFails
<1>8. ASSUME Restart PROVE PollInv'
  <2>1. poll' = [p \in Poller |-> Idle] /\ lastSnapshot' = Forgotten
    BY <1>8 DEF Restart
  <2>2. QED
    BY <2>1, IdleShape DEF PollInv, MemoryDescribesRows, Forgotten
<1>9. ASSUME UNCHANGED <<rows, lastSnapshot, poll>> PROVE PollInv'
  BY <1>9 DEF PollInv, MemoryDescribesRows
<1>10. ASSUME NEW w \in Form, OpenForm(w) \/ SubmitForm(w) \/ SaveForm(w) PROVE PollInv'
  BY <1>9, <1>10 DEF OpenForm, SubmitForm, SaveForm, Save
<1>11. ASSUME NEW w \in Ops \cup Gmp, ReadRow(w) \/ SaveOps(w) \/ SubmitGmp(w) PROVE PollInv'
  BY <1>9, <1>11 DEF ReadRow, SaveOps, SubmitGmp, Save
<1>12. ASSUME MarketMoves \/ UNCHANGED vars PROVE PollInv'
  BY <1>9, <1>12 DEF MarketMoves, vars
<1>13. QED
  BY <1>1, <1>2, <1>3, <1>4, <1>5, <1>6, <1>7, <1>8, <1>10, <1>11, <1>12 DEF Next, PollStep

\* Only a write changes the rows, and it erases none of their figures.
LEMMA StepKeepsFigures ==
    ASSUME PollInv, [Next]_vars
    PROVE  [\A c \in DOMAIN rows \cap DOMAIN rows' : Known(rows[c]) => Known(rows'[c])]_vars
<1>1. ASSUME NEW p \in Poller, Write(p)
      PROVE  \A c \in DOMAIN rows \cap DOMAIN rows' : Known(rows[c]) => Known(rows'[c])
  BY <1>1 DEF Write, PollInv
<1>2. ASSUME NEW p \in Poller, Start(p) \/ AskNse(p) \/ AskBse(p) \/ KeepFigures(p) \/ Remember(p) \/ PollFails(p)
      PROVE  UNCHANGED rows
  BY <1>2 DEF Start, AskNse, AskBse, KeepFigures, Remember, PollFails
<1>3. ASSUME NEW w \in Form, OpenForm(w) \/ SubmitForm(w) \/ SaveForm(w) PROVE UNCHANGED rows
  BY <1>3 DEF OpenForm, SubmitForm, SaveForm, Save
<1>4. ASSUME NEW w \in Ops \cup Gmp, ReadRow(w) \/ SaveOps(w) \/ SubmitGmp(w) PROVE UNCHANGED rows
  BY <1>4 DEF ReadRow, SaveOps, SubmitGmp, Save
<1>5. ASSUME Restart \/ MarketMoves \/ UNCHANGED vars PROVE UNCHANGED rows
  BY <1>5 DEF Restart, MarketMoves, vars
<1>6. ASSUME UNCHANGED rows
      PROVE  \A c \in DOMAIN rows \cap DOMAIN rows' : Known(rows[c]) => Known(rows'[c])
  BY <1>6
<1>7. QED
  BY <1>1, <1>2, <1>3, <1>4, <1>5, <1>6 DEF Next, PollStep

\* With one refresh at a time, no failed or partial answer turns a stored demand
\* into nothing.
THEOREM FiguresKept == Alone => (Spec => EmptyReadKeepsFigure)
<1> SUFFICES ASSUME Alone PROVE Spec => EmptyReadKeepsFigure
  OBVIOUS
<1>1. Init => PollInv
  BY InitPoll
<1>2. PollInv /\ [Next]_vars => PollInv'
  BY NextPoll
<1>3. PollInv /\ [Next]_vars => [\A c \in DOMAIN rows \cap DOMAIN rows' : Known(rows[c]) => Known(rows'[c])]_vars
  BY StepKeepsFigures
<1>4. QED
  BY <1>1, <1>2, <1>3, PTL DEF Spec, EmptyReadKeepsFigure

\* With one refresh at a time, what the poller remembers of its last write is what
\* is stored, through failed statements and restarts.
THEOREM MemoryTrue == Alone => (Spec => []MemoryDescribesRows)
<1> SUFFICES ASSUME Alone PROVE Spec => []MemoryDescribesRows
  OBVIOUS
<1>1. Init => PollInv
  BY InitPoll
<1>2. PollInv /\ [Next]_vars => PollInv'
  BY NextPoll
<1>3. PollInv => MemoryDescribesRows
  BY DEF PollInv
<1>4. QED
  BY <1>1, <1>2, <1>3, PTL DEF Spec

-----------------------------------------------------------------------------
\* A set of subsets of a finite set has a smallest member, in the sense of inclusion.
LEMMA LeastSubset ==
    ASSUME NEW S, IsFiniteSet(S), NEW T, T \subseteq SUBSET S, T # {}
    PROVE  \E x \in T : \A y \in T : y \subseteq x => y = x
<1>1. IsWellFoundedOn(StrictSubsetOrdering(S), FiniteSubsetsOf(S)) /\ FiniteSubsetsOf(S) = SUBSET S
  BY FS_StrictSubsetOrderingWellFounded, FS_FiniteSubsetsOfFinite
<1>2. \E x \in T : \A y \in T : ~ (<<y, x>> \in StrictSubsetOrdering(S))
  BY <1>1, WFMin
<1>3. QED
  BY <1>2 DEF StrictSubsetOrdering

\* So has a set of numbers: among those up to one of them, k is least when 0 .. k is.
LEMMA LeastNumber ==
    ASSUME NEW T, T \subseteq Nat, T # {}
    PROVE  \E k \in T : \A j \in T : k <= j
<1>1. PICK n \in T : TRUE
  OBVIOUS
<1> DEFINE Below == {0 .. k : k \in {j \in T : j <= n}}
<1>2. IsFiniteSet(0 .. n) /\ Below \subseteq SUBSET (0 .. n) /\ Below # {}
  <2>1. IsFiniteSet(0 .. n)
    BY FS_Interval
  <2>2. 0 .. n \in Below
    BY <1>1
  <2>3. \A k \in Nat : k <= n => 0 .. k \subseteq 0 .. n
    BY <1>1
  <2>4. QED
    BY <2>1, <2>2, <2>3
<1>3. PICK x \in Below : \A y \in Below : y \subseteq x => y = x
  <2> DEFINE All == 0 .. n
  <2>1. IsFiniteSet(All) /\ Below \subseteq SUBSET All /\ Below # {}
    BY <1>2
  <2> HIDE DEF All, Below
  <2>2. QED
    BY <2>1, LeastSubset
<1>4. PICK k \in T : k <= n /\ x = 0 .. k
  OBVIOUS
<1>5. ASSUME NEW j \in T, ~(k <= j) PROVE FALSE
  <2>1. j \in Nat /\ k \in Nat /\ n \in Nat /\ j < k /\ j <= n
    BY <1>4, <1>5
  <2>2. 0 .. j \subseteq 0 .. k /\ k \in 0 .. k /\ k \notin 0 .. j
    BY <2>1
  <2>3. 0 .. j \in Below
    BY <2>1
  <2>4. QED
    BY <1>3, <1>4, <2>2, <2>3
<1>6. QED
  BY <1>5

\* The sum of a function over the subsets of its domain, as FiniteSetsExt adds it up.
Picked(s) == CHOOSE x \in s : TRUE
Adds(i, t, answer, e) == i[t] = IF t = {} THEN 0 ELSE Demand(answer, e, Picked(t)) + i[t \ {Picked(t)}]
DemandSums(i, answer, e, S) ==
    i = [s \in SUBSET S |-> IF s = {} THEN 0 ELSE Demand(answer, e, Picked(s)) + i[s \ {Picked(s)}]]

\* The equation has a solution: one that holds for the subsets of at most k members
\* is made into one for k + 1.
LEMMA SumsExist ==
    ASSUME NEW answer, NEW e, NEW S, IsFiniteSet(S), \A b \in S : Demand(answer, e, b) \in Nat
    PROVE  \E i \in [SUBSET S -> Nat] : DemandSums(i, answer, e, S)
<1> DEFINE Upto(i, k) == \A t \in SUBSET S : Cardinality(t) <= k => Adds(i, t, answer, e)
           Bad == {k \in Nat : ~ \E i \in [SUBSET S -> Nat] : Upto(i, k)}
<1>0. \A t \in SUBSET S : IsFiniteSet(t) /\ Cardinality(t) \in Nat /\ Cardinality(t) <= Cardinality(S)
  BY FS_Subset, FS_CardinalityType
<1>9. \A t \in SUBSET S : t # {} => Picked(t) \in t /\ Cardinality(t \ {Picked(t)}) = Cardinality(t) - 1
  BY <1>0, FS_RemoveElement DEF Picked
<1>8. \A t \in SUBSET S : Cardinality(t) = 0 <=> t = {}
  BY <1>0, FS_EmptySet
<1>1. 0 \notin Bad
  <2> DEFINE z == [t \in SUBSET S |-> 0]
  <2>1. z \in [SUBSET S -> Nat]
    OBVIOUS
  <2>2. Upto(z, 0)
    BY <1>0, <1>8 DEF Adds
  <2>3. QED
    BY <2>1, <2>2
<1>2. ASSUME NEW k \in Nat, k \notin Bad PROVE k + 1 \notin Bad
  <2>1. PICK i \in [SUBSET S -> Nat] : Upto(i, k)
    BY <1>2
  <2> DEFINE j == [t \in SUBSET S |-> IF t = {} THEN 0 ELSE Demand(answer, e, Picked(t)) + i[t \ {Picked(t)}]]
  <2>2. j \in [SUBSET S -> Nat]
    <3>1. ASSUME NEW t \in SUBSET S, t # {}
          PROVE  Demand(answer, e, Picked(t)) + i[t \ {Picked(t)}] \in Nat
      <4>1. Picked(t) \in S /\ t \ {Picked(t)} \in SUBSET S
        BY <1>9, <3>1
      <4>2. Demand(answer, e, Picked(t)) \in Nat /\ i[t \ {Picked(t)}] \in Nat
        BY <4>1
      <4>3. QED
        BY <4>2
    <3>2. QED
      BY <3>1
  <2>3. \A t \in SUBSET S : Cardinality(t) <= k => j[t] = i[t]
    BY <2>1 DEF Adds
  <2>4. ASSUME NEW t \in SUBSET S, Cardinality(t) <= k + 1 PROVE Adds(j, t, answer, e)
    <3>1. CASE t = {}
      BY <3>1 DEF Adds
    <3>2. CASE t # {}
      <4>1. t \ {Picked(t)} \in SUBSET S /\ Cardinality(t \ {Picked(t)}) <= k
        BY <1>0, <1>9, <2>4, <3>2
      <4>2. j[t \ {Picked(t)}] = i[t \ {Picked(t)}]
        BY <2>3, <4>1
      <4>3. QED
        BY <4>2, <3>2 DEF Adds
    <3>3. QED
      BY <3>1, <3>2
  <2>5. QED
    BY <2>2, <2>4
<1>3. Bad = {}
  <2>1. SUFFICES ASSUME Bad # {} PROVE FALSE
    OBVIOUS
  <2>2. PICK k \in Bad : \A l \in Bad : k <= l
    BY <2>1, LeastNumber
  <2>3. k # 0 /\ k \in Nat
    BY <1>1
  <2> HIDE DEF Bad
  <2>4. k - 1 \in Nat /\ k - 1 \notin Bad /\ k = (k - 1) + 1
    BY <2>2, <2>3
  <2>5. QED
    BY <1>2, <2>4
<1>4. PICK i \in [SUBSET S -> Nat] : Upto(i, Cardinality(S))
  BY <1>3, FS_CardinalityType
<1>5. \A t \in SUBSET S : Adds(i, t, answer, e)
  BY <1>4, <1>0
<1>6. QED
  BY <1>5 DEF Adds, DemandSums

\* Whatever solves it is a number on every subset.
LEMMA SumsAreNumbers ==
    ASSUME NEW answer, NEW e, NEW S, IsFiniteSet(S), \A b \in S : Demand(answer, e, b) \in Nat,
           NEW i, DemandSums(i, answer, e, S)
    PROVE  \A t \in SUBSET S : i[t] \in Nat
<1>2. \A t \in SUBSET S : i[t] = IF t = {} THEN 0 ELSE Demand(answer, e, Picked(t)) + i[t \ {Picked(t)}]
  BY DEF DemandSums
<1> DEFINE Bad == {t \in SUBSET S : i[t] \notin Nat}
<1>3. ASSUME Bad # {} PROVE FALSE
  <2>1. PICK t \in Bad : \A u \in Bad : u \subseteq t => u = t
    <3>1. Bad \subseteq SUBSET S
      OBVIOUS
    <3> HIDE DEF Bad
    <3>2. QED
      BY <1>3, <3>1, LeastSubset
  <2>2. t # {} /\ t \in SUBSET S
    BY <1>2
  <2>3. Picked(t) \in t
    BY <2>2 DEF Picked
  <2>4. i[t \ {Picked(t)}] \in Nat
    BY <2>1, <2>2, <2>3
  <2>5. QED
    BY <1>2, <2>2, <2>3, <2>4
<1>4. QED
  BY <1>3

-----------------------------------------------------------------------------
Answered == [Exchange -> Answer(MaxShares)]
Fig == [nse : Nat, bse : Nat]

\* An exchange that leaves a bucket out has no demand for it.
LEMMA DemandType ==
    ASSUME NEW answer \in Answered, NEW e \in Exchange, NEW b
    PROVE  Demand(answer, e, b) \in Nat /\ DOMAIN answer[e].demand \subseteq Bucket
<1>1. answer[e] \in Answer(MaxShares)
  BY DEF Answered
<1>2. PICK B \in SUBSET Bucket : answer[e].demand \in [B -> 0 .. MaxShares]
  BY <1>1 DEF Answer
<1>3. QED
  BY <1>2, BoundAssumption DEF Demand

\* The roll-up of two answers is a number on each exchange.
LEMMA TotalType ==
    ASSUME NEW answer \in Answered
    PROVE  Total(answer) \in Fig
<1>1. IsFiniteSet(Buckets(answer))
  <2>1. Buckets(answer) \subseteq Bucket
    BY DemandType, OfferedAssumption DEF Buckets, Mentioned, Exchange
  <2>2. QED
    BY <2>1, FS_Subset, OfferedAssumption
<1>2. \A b : Demand(answer, "nse", b) \in Nat /\ Demand(answer, "bse", b) \in Nat
  BY DemandType DEF Exchange
<1>3. DemandSums(CHOOSE i : DemandSums(i, answer, "nse", Buckets(answer)), answer, "nse", Buckets(answer))
  BY <1>1, <1>2, SumsExist
<1>4. DemandSums(CHOOSE i : DemandSums(i, answer, "bse", Buckets(answer)), answer, "bse", Buckets(answer))
  BY <1>1, <1>2, SumsExist
<1>5. /\ (CHOOSE i : DemandSums(i, answer, "nse", Buckets(answer)))[Buckets(answer)] \in Nat
      /\ (CHOOSE i : DemandSums(i, answer, "bse", Buckets(answer)))[Buckets(answer)] \in Nat
  BY <1>1, <1>2, <1>3, <1>4, SumsAreNumbers
<1>6. QED
  BY <1>5 DEF Total, Fig, MapThenSumSet, MapThenFoldSet, DemandSums, Picked

\* The rows computed from two answers are figures of buckets on offer, and the total.
LEMMA ComputeSubsType ==
    ASSUME NEW answer \in Answered
    PROVE  IsRows(ComputeSubs(answer))
<1> DEFINE priced == Buckets(answer) \cap Offered
           subs == ComputeSubs(answer)
<1>1. /\ DOMAIN subs = IF priced = {} THEN {} ELSE priced \cup {"total"}
      /\ \A c \in DOMAIN subs : subs[c] = IF c = "total" THEN Total(answer) ELSE Figure(answer, c)
  BY DEF ComputeSubs
<1>2. \A c : Figure(answer, c) \in Fig
  BY DemandType DEF Figure, Fig, Exchange
<1>3. \A c \in DOMAIN subs : subs[c] \in Fig
  BY <1>1, <1>2, TotalType
<1>4. DOMAIN subs \subseteq Offered \cup {"total"}
  BY <1>1
<1> HIDE DEF subs
<1>5. IsRows(subs)
  BY <1>3, <1>4 DEF IsRows, Fig
<1>6. QED
  BY <1>5 DEF subs

LEMMA KeepKnownType ==
    ASSUME NEW fresh, NEW stored, IsRows(fresh), IsRows(stored)
    PROVE  IsRows(KeepKnown(fresh, stored))
BY DEF KeepKnown, IsRows

\* What a refresh and an edit hold.
PollType(v) ==
    /\ DOMAIN v = {"at", "ex", "answer", "subs"}
    /\ v.at \in {"idle", "nse", "bse", "keep", "write", "remember"}
    /\ IsExtra(v.ex) /\ IsRows(v.subs) /\ v.answer \in Answered

EditType(v) ==
    /\ DOMAIN v = {"at", "entry", "page", "prev"}
    /\ v.at \in {"idle", "open", "read"} /\ v.entry \in 0 .. MaxEdits
    /\ IsExtra(v.page) /\ IsExtra(v.prev)

StoreType ==
    /\ market \in [Exchange -> [Bucket -> 0 .. MaxShares]]
    /\ IsRows(rows) /\ IsExtra(extra)
    /\ IsRows(lastSnapshot.subs) /\ lastSnapshot.known \in BOOLEAN
    /\ edits \in 0 .. MaxEdits
PollsType == poll = [p \in Poller |-> poll[p]] /\ \A p \in Poller : PollType(poll[p])
EditsType == edit = [w \in Editor |-> edit[w]] /\ \A w \in Editor : EditType(edit[w])
TypeInv == StoreType /\ PollsType /\ EditsType

LEMMA NoRowsType == IsRows(NoRows) /\ IsExtra(NoExtra)
BY BoundAssumption DEF NoRows, NoExtra, IsRows, IsExtra

LEMMA NoAnswerType == NoAnswer \in Answer(MaxShares)
<1>1. [b \in {} |-> 0] \in [{} -> 0 .. MaxShares]
  OBVIOUS
<1>2. QED
  BY <1>1 DEF NoAnswer, Answer

LEMMA IdleType == PollType(Idle) /\ EditType(AtRest)
BY NoRowsType, NoAnswerType, BoundAssumption DEF Idle, AtRest, PollType, EditType, Answered

LEMMA SettleType ==
    ASSUME NEW ex, NEW subs, IsExtra(ex), IsRows(subs)
    PROVE  PollType(Settle(ex, subs))
BY IdleType DEF Settle, Idle, PollType

LEMMA MergeType ==
    ASSUME IsExtra(extra), NEW p \in Poller, IsRows(poll[p].subs)
    PROVE  IsExtra(Merge(p))
BY DEF Merge, IsExtra

LEMMA PollStepType ==
    ASSUME PollsType, NEW p \in Poller, NEW v, PollType(v), poll' = [poll EXCEPT ![p] = v]
    PROVE  PollsType'
BY DEF PollsType

LEMMA EditStepType ==
    ASSUME EditsType, NEW w \in Editor, NEW v, EditType(v), edit' = [edit EXCEPT ![w] = v]
    PROVE  EditsType'
BY DEF EditsType

\* What the exchanges may answer: all they hold, or part of it.
LEMMA AnswerType ==
    ASSUME StoreType, NEW e \in Exchange, NEW answer \in {Full(e)} \cup Partial(e)
    PROVE  answer \in Answer(MaxShares)
<1>1. market[e] \in [Bucket -> 0 .. MaxShares] /\ (e = "bse") \in BOOLEAN
  BY DEF StoreType
<1>2. Full(e) \in Answer(MaxShares)
  BY <1>1 DEF Full, Answer
<1>3. ASSUME NEW b \in Bucket PROVE [Full(e) EXCEPT !.demand = [@ EXCEPT ![b] = 0]] \in Answer(MaxShares)
  <2>1. [market[e] EXCEPT ![b] = 0] \in [Bucket -> 0 .. MaxShares]
    BY <1>1, BoundAssumption
  <2>2. QED
    BY <1>1, <2>1 DEF Full, Answer
<1>4. ASSUME NEW b \in Bucket
      PROVE  [Full(e) EXCEPT !.demand = [c \in Bucket \ {b} |-> @[c]]] \in Answer(MaxShares)
  <2>1. [c \in Bucket \ {b} |-> market[e][c]] \in [Bucket \ {b} -> 0 .. MaxShares]
    BY <1>1
  <2>2. QED
    BY <1>1, <2>1 DEF Full, Answer
<1>5. QED
  BY <1>2, <1>3, <1>4, NoAnswerType DEF Partial

LEMMA InitType == Init => TypeInv
BY NoRowsType, IdleType, BoundAssumption DEF Init, TypeInv, StoreType, PollsType, EditsType, Forgotten

\* A person's save writes a column of the right shape.
LEMMA SaveType ==
    ASSUME TypeInv, NEW w \in Editor, NEW next, IsExtra(next), Save(w, next), edits' = edits
    PROVE  TypeInv'
<1>1. StoreType' /\ PollsType'
  BY DEF TypeInv, StoreType, PollsType, Save
<1>2. EditsType'
  BY IdleType, EditStepType DEF TypeInv, Save
<1>3. QED
  BY <1>1, <1>2 DEF TypeInv

LEMMA WrittenType ==
    ASSUME NEW x, EditType(x)
    PROVE  IsExtra(FormExtra(x)) /\ IsExtra(OpsExtra(x)) /\ IsExtra(GmpExtra(x))
BY DEF EditType, FormExtra, OpsExtra, GmpExtra, IsExtra

\* Every step keeps the types.
LEMMA NextType == TypeInv /\ [Next]_vars => TypeInv'
<1> SUFFICES ASSUME TypeInv, [Next]_vars PROVE TypeInv'
  OBVIOUS
<1>0. StoreType /\ PollsType /\ EditsType /\ \A p \in Poller : PollType(poll[p])
  BY DEF TypeInv, PollsType
<1>1. ASSUME NEW p \in Poller, NEW v, PollType(v), poll' = [poll EXCEPT ![p] = v], StoreType', UNCHANGED edit
      PROVE  TypeInv'
  BY <1>0, <1>1, PollStepType DEF TypeInv, EditsType
<1>2. ASSUME NEW p \in Poller, Start(p) PROVE TypeInv'
  <2> DEFINE v == [Idle EXCEPT !.at = "nse", !.ex = extra]
  <2>1. PollType(v)
    BY <1>0, IdleType DEF PollType, Idle, StoreType
  <2>2. poll' = [poll EXCEPT ![p] = v] /\ StoreType' /\ UNCHANGED edit
    BY <1>0, <1>2 DEF Start, StoreType, bounds
  <2> HIDE DEF v
  <2>3. QED
    BY <1>1, <2>1, <2>2
<1>3. ASSUME NEW p \in Poller, AskNse(p) PROVE TypeInv'
  <2>1. PICK answer \in {Full("nse")} \cup Partial("nse") :
          poll' = [poll EXCEPT ![p] = [poll[p] EXCEPT !.at = "bse", !.answer = [poll[p].answer EXCEPT !["nse"] = answer]]]
    BY <1>3 DEF AskNse
  <2> DEFINE v == [poll[p] EXCEPT !.at = "bse", !.answer = [poll[p].answer EXCEPT !["nse"] = answer]]
  <2>2. answer \in Answer(MaxShares)
    BY <1>0, AnswerType DEF Exchange
  <2>3. [poll[p].answer EXCEPT !["nse"] = answer] \in Answered
    BY <1>0, <2>2 DEF Answered, PollType
  <2>4. PollType(v)
    BY <1>0, <2>3 DEF PollType
  <2>5. poll' = [poll EXCEPT ![p] = v] /\ StoreType' /\ UNCHANGED edit
    BY <1>0, <1>3, <2>1 DEF AskNse, StoreType
  <2> HIDE DEF v
  <2>6. QED
    BY <1>1, <2>4, <2>5
<1>4. ASSUME NEW p \in Poller, AskBse(p) PROVE TypeInv'
  <2>1. PICK answer \in {Full("bse")} \cup Partial("bse") :
          poll' = [poll EXCEPT ![p] =
            IF NeedsStored(ComputeSubs([poll[p].answer EXCEPT !["bse"] = answer]))
            THEN [Idle EXCEPT !.at = "keep", !.ex = poll[p].ex,
                              !.subs = ComputeSubs([poll[p].answer EXCEPT !["bse"] = answer])]
            ELSE Settle(poll[p].ex, ComputeSubs([poll[p].answer EXCEPT !["bse"] = answer]))]
    BY <1>4 DEF AskBse
  <2> DEFINE fresh == ComputeSubs([poll[p].answer EXCEPT !["bse"] = answer])
             v == IF NeedsStored(fresh) THEN [Idle EXCEPT !.at = "keep", !.ex = poll[p].ex, !.subs = fresh]
                  ELSE Settle(poll[p].ex, fresh)
  <2>2. answer \in Answer(MaxShares)
    BY <1>0, AnswerType DEF Exchange
  <2>3. [poll[p].answer EXCEPT !["bse"] = answer] \in Answered
    BY <1>0, <2>2 DEF Answered, PollType
  <2>4. IsRows(fresh) /\ IsExtra(poll[p].ex)
    BY <1>0, <2>3, ComputeSubsType DEF PollType
  <2>5. poll' = [poll EXCEPT ![p] = v] /\ StoreType' /\ UNCHANGED edit
    BY <1>0, <1>4, <2>1 DEF AskBse, StoreType
  <2> HIDE DEF fresh
  <2>6. PollType([Idle EXCEPT !.at = "keep", !.ex = poll[p].ex, !.subs = fresh])
    BY <2>4, IdleType DEF PollType, Idle
  <2>7. PollType(Settle(poll[p].ex, fresh))
    BY <2>4, SettleType
  <2>8. PollType(v)
    BY <2>6, <2>7
  <2> HIDE DEF v
  <2>9. QED
    BY <1>1, <2>5, <2>8
<1>5. ASSUME NEW p \in Poller, KeepFigures(p) PROVE TypeInv'
  <2> DEFINE v == Settle(poll[p].ex, KeepKnown(poll[p].subs, rows))
  <2>1. PollType(v)
    BY <1>0, KeepKnownType, SettleType DEF PollType, StoreType
  <2>2. poll' = [poll EXCEPT ![p] = v] /\ StoreType' /\ UNCHANGED edit
    BY <1>0, <1>5 DEF KeepFigures, StoreType, bounds
  <2> HIDE DEF v
  <2>3. QED
    BY <1>1, <2>1, <2>2
<1>6. ASSUME NEW p \in Poller, Write(p) PROVE TypeInv'
  <2> DEFINE v == [poll[p] EXCEPT !.at = "remember"]
  <2>1. PollType(v)
    BY <1>0 DEF PollType
  <2>2. IsRows(poll[p].subs) /\ IsExtra(Merge(p))
    BY <1>0, MergeType DEF PollType, StoreType
  <2>3. poll' = [poll EXCEPT ![p] = v] /\ StoreType' /\ UNCHANGED edit
    BY <1>0, <1>6, <2>2 DEF Write, StoreType, bounds
  <2> HIDE DEF v
  <2>4. QED
    BY <1>1, <2>1, <2>3
<1>7. ASSUME NEW p \in Poller, Remember(p) PROVE TypeInv'
  <2>1. StoreType'
    BY <1>0, <1>7 DEF Remember, StoreType, bounds, PollType
  <2>2. QED
    BY <1>1, <1>7, <2>1, IdleType DEF Remember
<1>8. ASSUME NEW p \in Poller, PollFails(p) PROVE TypeInv'
  <2>1. StoreType'
    BY <1>0, <1>8 DEF PollFails, StoreType
  <2>2. QED
    BY <1>1, <1>8, <2>1, IdleType DEF PollFails
<1>9. ASSUME NEW w \in Editor, NEW v, EditType(v), edit' = [edit EXCEPT ![w] = v], StoreType', UNCHANGED poll
      PROVE  TypeInv'
  BY <1>0, <1>9, EditStepType DEF TypeInv, PollsType
<1>10. ASSUME NEW w \in Form, OpenForm(w) PROVE TypeInv'
  <2> DEFINE v == [AtRest EXCEPT !.at = "open", !.page = extra, !.entry = edits + 1]
  <2>1. edits + 1 \in 0 .. MaxEdits /\ edits' = edits + 1
    BY <1>0, <1>10, BoundAssumption DEF OpenForm, StoreType
  <2>2. EditType(v)
    BY <1>0, <2>1, IdleType DEF EditType, AtRest, StoreType
  <2>3. edit' = [edit EXCEPT ![w] = v] /\ StoreType' /\ UNCHANGED poll /\ w \in Editor
    BY <1>0, <1>10, <2>1 DEF OpenForm, StoreType, Editor
  <2> HIDE DEF v
  <2>4. QED
    BY <1>9, <2>2, <2>3
<1>11. ASSUME NEW w \in Form, SubmitForm(w) PROVE TypeInv'
  <2> DEFINE v == [edit[w] EXCEPT !.at = "read", !.prev = extra]
  <2>1. w \in Editor /\ EditType(edit[w])
    BY <1>0 DEF EditsType, Editor
  <2>2. EditType(v)
    BY <1>0, <2>1 DEF EditType, StoreType
  <2>3. edit' = [edit EXCEPT ![w] = v] /\ StoreType' /\ UNCHANGED poll
    BY <1>0, <1>11 DEF SubmitForm, StoreType, bounds
  <2> HIDE DEF v
  <2>4. QED
    BY <1>9, <2>1, <2>2, <2>3
<1>12. ASSUME NEW w \in Ops \cup Gmp, ReadRow(w) PROVE TypeInv'
  <2> DEFINE v == [AtRest EXCEPT !.at = "read", !.prev = extra, !.entry = edits + 1]
  <2>1. edits + 1 \in 0 .. MaxEdits /\ edits' = edits + 1
    BY <1>0, <1>12, BoundAssumption DEF ReadRow, StoreType
  <2>2. EditType(v)
    BY <1>0, <2>1, IdleType DEF EditType, AtRest, StoreType
  <2>3. edit' = [edit EXCEPT ![w] = v] /\ StoreType' /\ UNCHANGED poll /\ w \in Editor
    BY <1>0, <1>12, <2>1 DEF ReadRow, StoreType, Editor
  <2> HIDE DEF v
  <2>4. QED
    BY <1>9, <2>2, <2>3
<1>13. ASSUME NEW w \in Editor, SaveForm(w) \/ SaveOps(w) \/ SubmitGmp(w) PROVE TypeInv'
  <2>1. EditType(edit[w]) /\ UNCHANGED edits
    BY <1>0, <1>13 DEF EditsType, SaveForm, SaveOps, SubmitGmp, Save, bounds
  <2>2. QED
    BY <1>13, <2>1, WrittenType, SaveType DEF SaveForm, SaveOps, SubmitGmp
<1>14. ASSUME Restart PROVE TypeInv'
  <2>1. StoreType'
    BY <1>0, <1>14, NoRowsType DEF Restart, StoreType, Forgotten
  <2>2. PollsType'
    BY <1>14, IdleType DEF Restart, PollsType
  <2>3. EditsType'
    BY <1>0, <1>14, IdleType DEF Restart, EditsType
  <2>4. QED
    BY <2>1, <2>2, <2>3 DEF TypeInv
<1>15. ASSUME MarketMoves PROVE TypeInv'
  <2>1. market' \in [Exchange -> [Bucket -> 0 .. MaxShares]]
    <3>1. PICK e \in Exchange : \E b \in Bucket : \E n \in 0 .. MaxShares :
            market' = [market EXCEPT ![e] = [market[e] EXCEPT ![b] = n]]
      BY <1>15 DEF MarketMoves
    <3>2. PICK b \in Bucket, n \in 0 .. MaxShares : market' = [market EXCEPT ![e] = [market[e] EXCEPT ![b] = n]]
      BY <3>1
    <3>3. [market[e] EXCEPT ![b] = n] \in [Bucket -> 0 .. MaxShares]
      BY <1>0 DEF StoreType
    <3>4. QED
      BY <1>0, <3>2, <3>3 DEF StoreType
  <2>2. StoreType'
    BY <1>0, <1>15, <2>1 DEF MarketMoves, StoreType
  <2>3. QED
    BY <1>0, <1>15, <2>2 DEF MarketMoves, TypeInv, PollsType, EditsType
<1>16. CASE UNCHANGED vars
  BY <1>0, <1>16 DEF TypeInv, StoreType, PollsType, EditsType, vars
<1>17. QED
  BY <1>2, <1>3, <1>4, <1>5, <1>6, <1>7, <1>8, <1>10, <1>11, <1>12, <1>13, <1>14, <1>15, <1>16
     DEF Next, PollStep, Editor

\* Whatever the exchanges answer, whoever edits and whatever fails, the figures,
\* the column and what every refresh and edit holds keep their types.
THEOREM TypeCorrect == Spec => []TypeOK
<1>1. TypeInv => TypeOK
  BY DEF TypeInv, StoreType, PollsType, EditsType, PollType, EditType, TypeOK, Answered
<1>2. QED
  BY InitType, NextType, <1>1, PTL DEF Spec
=============================================================================
