--------------------------- MODULE WhatsappJourney ---------------------------
(***************************************************************************)
(* The guided apply flow of the WhatsApp bot, for one registered number:   *)
(* pick an issue, enter the code, choose the applicant, say how many lots, *)
(* confirm (whatsapp-journey.service.ts).  Where a person is in it is kept *)
(* in memory (whatsapp-session.service.ts): `set` merges into what is      *)
(* there, `clear` drops it, and an entry untouched for 20 minutes is       *)
(* dropped by the next `get` of anyone.                                    *)
(*                                                                         *)
(* The webhook acknowledges first and handles each message by itself, so   *)
(* the messages of one number overlap at every await; buttons and list     *)
(* rows stay on the screen and may be tapped at any later time.  A message *)
(* delivered twice within five minutes is dropped by its id; one delivered *)
(* later is a tap like any other.                                          *)
(***************************************************************************)
EXTENDS Naturals, Sequences

CONSTANTS
    Ipo,        \* the issues of the catalogue, open and with a lot size
    Profile,    \* the applicant profiles the account may have
    Handler,    \* messages being handled at once
    None,       \* an unset field
    MaxLots,    \* bound: the lots a person asks for
    MaxCodes    \* bound: codes sent, which is flows started

ASSUME NoneAssumption == None \notin Ipo \cup Profile
ASSUME BoundsAssumption == MaxLots \in Nat /\ MaxCodes \in Nat

-----------------------------------------------------------------------------
State == {"none", "browse", "ipo_menu", "apply_otp", "apply_profile", "apply_lots", "apply_confirm"}

\* `named` is the symbol a message shows; `ipoId` the issue an application is
\* made to, set together with the user, the lot size and the price.
Session == [state: State, named: Ipo \cup {None}, ipoId: Ipo \cup {None},
            profile: Profile \cup {None}, lots: 0 .. MaxLots, code: 0 .. MaxCodes,
            codeOld: BOOLEAN, idle: BOOLEAN]

NoSession == [state |-> "none", named |-> None, ipoId |-> None, profile |-> None,
              lots |-> 0, code |-> 0, codeOld |-> FALSE, idle |-> FALSE]

Tap == [row: {"ipo", "apply"}, arg: Ipo] \cup [row: {"applicant"}, arg: Profile]
         \cup [row: {"confirm", "cancel"}, arg: {None}]

Step == {"idle", "list", "issue", "start", "code", "choose", "confirm", "answered"}

HandlerState == [step: Step, arg: Ipo \cup Profile \cup {None} \cup {"ipo", "apply", "right", "wrong"},
                 held: Session]
Idle == [step |-> "idle", arg |-> None, held |-> NoSession]

\* What a confirm message shows: a symbol, the lots, and the shares and the amount
\* they come to at the lot size and price of one issue, `reckoned`.
Message == [named: Ipo \cup {None}, lots: 0 .. MaxLots, reckoned: Ipo \cup {None}]

Application == [ipo: Ipo \cup {None}, profile: Profile \cup {None}, lots: 0 .. MaxLots]

VARIABLES
    session,    \* the session of this number
    handler,    \* the messages being handled
    codes,      \* the codes sent so far: the last one is number `codes`
    profiles,   \* the account's applicant profiles
    offered,    \* the buttons and rows sent so far
    apps,       \* the applications made, in order
    shown,      \* the confirm messages sent so far
    ended       \* the flows whose session was cleared

vars == <<session, handler, codes, profiles, offered, apps, shown, ended>>

TypeOK ==
    /\ session \in Session
    /\ handler \in [Handler -> HandlerState]
    /\ codes \in 0 .. MaxCodes
    /\ profiles \subseteq Profile
    /\ offered \subseteq Tap
    /\ apps \in Seq(Application)
    /\ shown \subseteq Message
    /\ ended \subseteq 1 .. MaxCodes

Init ==
    /\ session = NoSession
    /\ handler = [h \in Handler |-> Idle]
    /\ codes = 0
    /\ profiles \in SUBSET Profile
    /\ offered = {}
    /\ apps = <<>>
    /\ shown = {}
    /\ ended = {}

-----------------------------------------------------------------------------
(* The session store.                                                      *)

\* `get` of an entry that was left alone too long finds nothing.
Current == IF session.idle THEN NoSession ELSE session

\* `set` puts its fields over the entry that is there, however old it is.
Put(next) == session' = [next EXCEPT !.idle = FALSE]

Cleared_Partly(s) == [state |-> "none", named |-> s.named]
Cleared_StateOnly(s) == [s EXCEPT !.state = "browse"]
Cleared(s) == NoSession

Clear ==
    /\ session' = Cleared(session)
    /\ ended' = ended \cup ({session.code} \ {0})

\* `get` deletes what it finds too old, as part of the step that asks.
Got ==
    /\ session' = Current
    /\ ended' = IF session.idle THEN ended \cup ({session.code} \ {0}) ELSE ended

Offer(taps) == offered' = offered \cup taps

Begin(h, step, arg, held) == handler' = [handler EXCEPT ![h] = [step |-> step, arg |-> arg, held |-> held]]
Finish(h) == handler' = [handler EXCEPT ![h] = Idle]
At(h, step) == handler[h].step = step

Tapped(h, row, arg) == At(h, "idle") /\ [row |-> row, arg |-> arg] \in offered

-----------------------------------------------------------------------------
(* Looking around.  The main menu and the subscription and GMP figures of  *)
(* an issue change nothing and offer nothing more.                         *)

\* A typed word reaches the menu and the lists only outside the code and lots
\* steps, which take every text for an answer.
Free == Current.state \notin {"apply_otp", "apply_lots"}

TypeMenu(h) ==
    /\ At(h, "idle") /\ Free
    /\ Clear
    /\ UNCHANGED <<handler, codes, profiles, offered, apps, shown>>

\* `open` and its like, or `apply`: the rows lead to an issue or straight to applying.
TypeList(h) ==
    /\ At(h, "idle") /\ Free
    /\ \E row \in {"ipo", "apply"} : Begin(h, "list", row, NoSession)
    /\ Got
    /\ UNCHANGED <<codes, profiles, offered, apps, shown>>

\* A row of the main menu does not look at the session.
TapList(h) ==
    /\ At(h, "idle")
    /\ \E row \in {"ipo", "apply"} : Begin(h, "list", row, NoSession)
    /\ UNCHANGED <<session, codes, profiles, offered, apps, shown, ended>>

ShowList(h) ==
    /\ At(h, "list")
    /\ Put([session EXCEPT !.state = "browse"])
    /\ Offer({[row |-> handler[h].arg, arg |-> i] : i \in Ipo})
    /\ Finish(h)
    /\ UNCHANGED <<codes, profiles, apps, shown, ended>>

TapIssue(h) ==
    /\ \E i \in Ipo : Tapped(h, "ipo", i) /\ Begin(h, "issue", i, NoSession)
    /\ UNCHANGED <<session, codes, profiles, offered, apps, shown, ended>>

ShowIssue(h) ==
    LET i == handler[h].arg
    IN  /\ At(h, "issue")
        /\ Put([session EXCEPT !.state = "ipo_menu", !.named = i])
        /\ Offer({[row |-> "apply", arg |-> i], [row |-> "ipo", arg |-> i]})
        /\ Finish(h)
        /\ UNCHANGED <<codes, profiles, apps, shown, ended>>

-----------------------------------------------------------------------------
(* Applying.                                                               *)

TapApply(h) ==
    /\ \E i \in Ipo : Tapped(h, "apply", i) /\ Begin(h, "start", i, NoSession)
    /\ UNCHANGED <<session, codes, profiles, offered, apps, shown, ended>>

SendCode(h) ==
    /\ At(h, "start") /\ codes < MaxCodes
    /\ codes' = codes + 1
    /\ Put([session EXCEPT !.state = "apply_otp", !.named = handler[h].arg, !.ipoId = handler[h].arg,
                           !.code = codes + 1, !.codeOld = FALSE])
    /\ Finish(h)
    /\ UNCHANGED <<profiles, offered, apps, shown, ended>>

\* The answer is compared with the code of the session as it is now, whatever
\* the session is when the awaits are over; a lapsed code ends the flow.
TypeCode(h) ==
    /\ At(h, "idle") /\ Current.state = "apply_otp"
    /\ \/ /\ ~session.codeOld /\ session.code # 0
          /\ \E answer \in {"right", "wrong"} : Begin(h, "code", answer, NoSession)
          /\ UNCHANGED <<session, ended>>
       \/ /\ session.codeOld \/ session.code = 0
          /\ Clear
          /\ UNCHANGED handler
    /\ UNCHANGED <<codes, profiles, offered, apps, shown>>

\* A wrong code may be entered again; without a profile there is no one to apply for.
CheckCode(h) ==
    LET right == handler[h].arg = "right"
    IN  /\ At(h, "code")
        /\ \/ ~right /\ UNCHANGED <<session, offered, ended>>
           \/ right /\ profiles = {} /\ Clear /\ UNCHANGED offered
           \/ /\ right /\ profiles # {}
              /\ Put([session EXCEPT !.state = "apply_profile"])
              /\ Offer({[row |-> "applicant", arg |-> p] : p \in profiles})
              /\ UNCHANGED ended
        /\ Finish(h)
        /\ UNCHANGED <<codes, profiles, apps, shown>>

\* The row of an applicant works in any session that has an issue to apply to.
TapApplicant(h) ==
    /\ \E p \in Profile :
          /\ Tapped(h, "applicant", p)
          /\ \/ /\ Current.ipoId # None
                /\ Begin(h, "choose", p, NoSession)
                /\ UNCHANGED <<session, ended>>
             \/ /\ Current.ipoId = None
                /\ Clear
                /\ UNCHANGED handler
    /\ UNCHANGED <<codes, profiles, offered, apps, shown>>

AskLots(h) ==
    LET p == handler[h].arg
    IN  /\ At(h, "choose")
        /\ \/ p \in profiles /\ Put([session EXCEPT !.state = "apply_lots", !.profile = p])
           \/ p \notin profiles /\ UNCHANGED session
        /\ Finish(h)
        /\ UNCHANGED <<codes, profiles, offered, apps, shown, ended>>

\* The symbol is the session's, which a look at any issue sets; lot size and price
\* were set with the issue the application will be made to.
MessageOf(s) == [named |-> s.named, lots |-> s.lots, reckoned |-> s.ipoId]

TypeLots(h) ==
    /\ At(h, "idle") /\ Current.state = "apply_lots"
    /\ \E n \in 1 .. MaxLots :
          LET next == [session EXCEPT !.state = "apply_confirm", !.lots = n]
          IN  Put(next) /\ shown' = shown \cup {MessageOf(next)}
    /\ Offer([row: {"confirm", "cancel"}, arg: {None}])
    /\ UNCHANGED <<handler, codes, profiles, apps, ended>>

TapCancel(h) ==
    /\ Tapped(h, "cancel", None)
    /\ Clear
    /\ UNCHANGED <<handler, codes, profiles, offered, apps, shown>>

MayPlace_AnyStep(s) == s.ipoId # None /\ s.profile # None /\ s.lots # 0
MayPlace(s) == s.state = "apply_confirm" /\ s.ipoId # None /\ s.profile # None /\ s.lots # 0

TapConfirm(h) ==
    /\ Tapped(h, "confirm", None)
    /\ \/ MayPlace(Current) /\ Begin(h, "confirm", None, Current) /\ UNCHANGED <<session, ended>>
       \/ ~MayPlace(Current) /\ Clear /\ UNCHANGED handler
    /\ UNCHANGED <<codes, profiles, offered, apps, shown>>

\* The unique key of the applications: account, issue and profile.
KeyTaken(ipo, profile) == \E i \in DOMAIN apps : apps[i].ipo = ipo /\ apps[i].profile = profile

ApplicationOf(s) == [ipo |-> s.ipoId, profile |-> s.profile, lots |-> s.lots]

\* applications.create for a print: the profile must be there and the key free.
\* Whatever else create may refuse for comes to the same answer as these two.
Place(h) ==
    LET s == handler[h].held
    IN  /\ At(h, "confirm")
        /\ apps' = IF s.profile \in profiles /\ ~KeyTaken(s.ipoId, s.profile)
                     THEN Append(apps, ApplicationOf(s)) ELSE apps
        /\ Begin(h, "answered", None, NoSession)
        /\ UNCHANGED <<session, codes, profiles, offered, shown, ended>>

\* Placed or refused, the session is cleared, whichever flow it is in by now.
Answer(h) ==
    /\ At(h, "answered")
    /\ Clear
    /\ Finish(h)
    /\ UNCHANGED <<codes, profiles, offered, apps, shown>>

-----------------------------------------------------------------------------
(* Time, the account and the process.                                      *)

Quiet == \A h \in Handler : At(h, "idle")

SessionIdles ==
    /\ Quiet /\ session.state # "none" /\ ~session.idle
    /\ session' = [session EXCEPT !.idle = TRUE]
    /\ UNCHANGED <<handler, codes, profiles, offered, apps, shown, ended>>

\* A message of another number sweeps the store.
Sweep ==
    /\ session.idle
    /\ Clear
    /\ UNCHANGED <<handler, codes, profiles, offered, apps, shown>>

CodeLapses ==
    /\ Quiet /\ session.state = "apply_otp" /\ ~session.codeOld
    /\ session' = [session EXCEPT !.codeOld = TRUE]
    /\ UNCHANGED <<handler, codes, profiles, offered, apps, shown, ended>>

\* A profile with applications cannot be deleted.
DeleteProfile ==
    /\ \E p \in profiles : (\A i \in DOMAIN apps : apps[i].profile # p) /\ profiles' = profiles \ {p}
    /\ UNCHANGED <<session, handler, codes, offered, apps, shown, ended>>

Restart ==
    /\ session.state # "none" \/ ~Quiet
    /\ Clear
    /\ handler' = [h \in Handler |-> Idle]
    /\ UNCHANGED <<codes, profiles, offered, apps, shown>>

Handle(h) ==
    \/ TypeMenu(h) \/ TypeList(h) \/ TapList(h) \/ ShowList(h) \/ TapIssue(h) \/ ShowIssue(h)
    \/ TapApply(h) \/ SendCode(h) \/ TypeCode(h) \/ CheckCode(h)
    \/ TapApplicant(h) \/ AskLots(h) \/ TypeLots(h)
    \/ TapCancel(h) \/ TapConfirm(h) \/ Place(h) \/ Answer(h)

Next ==
    \/ \E h \in Handler : Handle(h)
    \/ SessionIdles \/ Sweep \/ CodeLapses \/ DeleteProfile \/ Restart

Spec == Init /\ [][Next]_vars

-----------------------------------------------------------------------------
\* Whatever is tapped, in whatever order the awaits return, an application is for
\* lots and an amount that one confirm message showed (WhatsappJourney.stepLots).
AmountShownIsPlaced ==
    \A i \in DOMAIN apps : \E m \in shown : m.lots = apps[i].lots /\ m.reckoned = apps[i].ipo

\* Please confirm: the issue an application is made to is one that a confirm message
\* for as many lots named (whatsapp-journey.service.ts:226).
NamedIssueIsPlaced ==
    \A i \in DOMAIN apps : \E m \in shown : m.lots = apps[i].lots /\ m.named = apps[i].ipo

\* A flow that was cancelled, or whose session was dropped, is never brought back
\* by a message that was still being handled.
ClearedFlowStaysCleared == session.code \notin ended
=============================================================================
