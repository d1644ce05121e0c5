----------------------- MODULE WhatsappJourneyProofs -----------------------
(***************************************************************************)
(* Proofs about WhatsappJourney, for every set of issues, profiles and     *)
(* overlapping messages.  TypeInv says of each part of the state what it   *)
(* holds, and of the flows that one whose session was cleared is not in    *)
(* the store; ConfirmInv ties what a confirmation may place to what a      *)
(* confirm message showed.                                                 *)
(***************************************************************************)
EXTENDS WhatsappJourney, TLAPS

\* What a message being handled is about.
Arg == Ipo \cup Profile \cup {None} \cup {"ipo", "apply", "right", "wrong"}

\* Which of them a step needs.
Fits(step, arg) ==
    /\ step = "list" => arg \in {"ipo", "apply"}
    /\ step \in {"issue", "start"} => arg \in Ipo
    /\ step = "choose" => arg \in Profile

\* Flows are numbered by their codes, so a new one is none of those that ended.
SessionPart ==
    /\ session \in Session /\ codes \in 0 .. MaxCodes
    /\ session.code <= codes
    /\ ended \subseteq 1 .. codes /\ ended \subseteq 1 .. MaxCodes
    /\ ClearedFlowStaysCleared

HandlerPart ==
    /\ handler \in [Handler -> HandlerState]
    /\ \A h \in Handler : Fits(handler[h].step, handler[h].arg)

RestPart ==
    /\ profiles \subseteq Profile /\ offered \subseteq Tap
    /\ apps \in Seq(Application) /\ shown \subseteq Message

TypeInv == SessionPart /\ HandlerPart /\ RestPart

LEMMA NoSessionType == NoSession \in Session /\ NoSession.code = 0 /\ NoSession.state = "none"
BY NoneAssumption, BoundsAssumption DEF NoSession, Session, State

LEMMA CurrentType ==
    ASSUME session \in Session
    PROVE  Current \in Session /\ Current.code \in {0, session.code}
BY NoSessionType DEF Current

\* The three ways the code has of changing the session keep its part.
LEMMA ClearType ==
    ASSUME SessionPart, Clear, UNCHANGED codes
    PROVE  SessionPart'
<1>1. session.code \in 0 .. MaxCodes /\ session.code <= codes /\ codes \in 0 .. MaxCodes
  BY DEF SessionPart, Session
<1>2. {session.code} \ {0} \subseteq 1 .. codes
  BY <1>1, BoundsAssumption
<1>3. ended' \subseteq 1 .. codes
  BY <1>2 DEF SessionPart, Clear
<1>4. session' = NoSession
  BY DEF Clear, Cleared
<1>5. 0 \notin ended'
  BY <1>3, <1>1
<1>6. QED
  BY <1>1, <1>3, <1>4, <1>5, NoSessionType, BoundsAssumption DEF SessionPart,
     ClearedFlowStaysCleared

LEMMA GotType ==
    ASSUME SessionPart, Got, UNCHANGED codes
    PROVE  SessionPart'
<1>1. CASE session.idle
  <2>1. Clear
    BY <1>1 DEF Got, Clear, Cleared, Current
  <2>2. QED
    BY <2>1, ClearType
<1>2. CASE ~session.idle
  BY <1>2 DEF Got, Current, SessionPart, ClearedFlowStaysCleared
<1>3. QED
  BY <1>1, <1>2

LEMMA PutType ==
    ASSUME SessionPart, NEW next \in Session, Put(next), next.code = session.code, UNCHANGED <<codes, ended>>
    PROVE  SessionPart'
BY DEF Put, Session, SessionPart, ClearedFlowStaysCleared

\* What a message that begins leaves in the slots.
LEMMA BeginEffect ==
    ASSUME handler \in [Handler -> HandlerState], NEW h \in Handler, NEW step, NEW arg, NEW held,
           Begin(h, step, arg, held)
    PROVE  \A g \in Handler : handler'[g] = IF g = h THEN [step |-> step, arg |-> arg, held |-> held] ELSE handler[g]
BY DEF Begin

LEMMA BeginType ==
    ASSUME HandlerPart, NEW h \in Handler, NEW step \in Step, NEW arg \in Arg,
           NEW held \in Session, Fits(step, arg), Begin(h, step, arg, held)
    PROVE  HandlerPart'
<1>1. [step |-> step, arg |-> arg, held |-> held] \in HandlerState
  BY DEF HandlerState, Arg
<1>2. /\ handler' \in [Handler -> HandlerState]
      /\ \A g \in Handler : handler'[g] = IF g = h THEN [step |-> step, arg |-> arg, held |-> held] ELSE handler[g]
  BY <1>1 DEF Begin, HandlerPart
<1>3. QED
  BY <1>2 DEF HandlerPart

LEMMA FinishType ==
    ASSUME HandlerPart, NEW h \in Handler, Finish(h)
    PROVE  HandlerPart'
<1>1. Begin(h, "idle", None, NoSession)
  BY DEF Finish, Begin, Idle
<1>2. "idle" \in Step /\ None \in Arg /\ Fits("idle", None)
  BY DEF Step, Arg, Fits
<1>3. QED
  BY <1>1, <1>2, BeginType, NoSessionType

LEMMA MessageType ==
    ASSUME NEW s \in Session
    PROVE  MessageOf(s) \in Message /\ ApplicationOf(s) \in Application
BY DEF MessageOf, ApplicationOf, Session, Message, Application

\* Every step keeps the types and brings no ended flow back.
LEMMA NextType == TypeInv /\ [Next]_vars => TypeInv'
<1> SUFFICES ASSUME TypeInv, [Next]_vars PROVE TypeInv'
  OBVIOUS
<1>0. /\ SessionPart /\ HandlerPart /\ RestPart /\ NoSession \in Session /\ session \in Session
  BY NoSessionType DEF TypeInv, SessionPart
<1>1. ASSUME NEW h \in Handler, TypeMenu(h) PROVE TypeInv'
  <2>1. SessionPart'
    BY <1>0, <1>1, ClearType, GotType, PutType DEF TypeMenu, SessionPart, Session, State,
       ClearedFlowStaysCleared
  <2>2. HandlerPart'
    BY <1>0, <1>1, BeginType, FinishType, CurrentType DEF TypeMenu, Arg, Step, Fits, HandlerPart
  <2>3. RestPart'
    BY <1>0, <1>1 DEF TypeMenu, RestPart, Tap, Offer, HandlerPart, Fits, At
  <2>4. QED
    BY <2>1, <2>2, <2>3 DEF TypeInv
<1>2. ASSUME NEW h \in Handler, TypeList(h) PROVE TypeInv'
  <2>1. SessionPart'
    BY <1>0, <1>2, ClearType, GotType, PutType DEF TypeList, SessionPart, Session, State,
       ClearedFlowStaysCleared
  <2>2. HandlerPart'
    BY <1>0, <1>2, BeginType, FinishType, CurrentType DEF TypeList, Arg, Step, Fits, HandlerPart
  <2>3. RestPart'
    BY <1>0, <1>2 DEF TypeList, RestPart, Tap, Offer, HandlerPart, Fits, At
  <2>4. QED
    BY <2>1, <2>2, <2>3 DEF TypeInv
<1>3. ASSUME NEW h \in Handler, TapList(h) PROVE TypeInv'
  <2>1. SessionPart'
    BY <1>0, <1>3, ClearType, GotType, PutType DEF TapList, SessionPart, Session, State,
       ClearedFlowStaysCleared
  <2>2. HandlerPart'
    BY <1>0, <1>3, BeginType, FinishType, CurrentType DEF TapList, Arg, Step, Fits, HandlerPart
  <2>3. RestPart'
    BY <1>0, <1>3 DEF TapList, RestPart, Tap, Offer, HandlerPart, Fits, At
  <2>4. QED
    BY <2>1, <2>2, <2>3 DEF TypeInv
<1>4. ASSUME NEW h \in Handler, ShowList(h) PROVE TypeInv'
  <2>1. SessionPart'
    BY <1>0, <1>4, ClearType, GotType, PutType DEF ShowList, SessionPart, Session, State,
       ClearedFlowStaysCleared
  <2>2. HandlerPart'
    BY <1>0, <1>4, BeginType, FinishType, CurrentType DEF ShowList, Arg, Step, Fits, HandlerPart
  <2>3. RestPart'
    BY <1>0, <1>4 DEF ShowList, RestPart, Tap, Offer, HandlerPart, Fits, At
  <2>4. QED
    BY <2>1, <2>2, <2>3 DEF TypeInv
<1>5. ASSUME NEW h \in Handler, TapIssue(h) PROVE TypeInv'
  <2>1. SessionPart'
    BY <1>0, <1>5, ClearType, GotType, PutType DEF TapIssue, SessionPart, Session, State,
       ClearedFlowStaysCleared
  <2>2. HandlerPart'
    BY <1>0, <1>5, BeginType, FinishType, CurrentType DEF TapIssue, Arg, Step, Fits, HandlerPart
  <2>3. RestPart'
    BY <1>0, <1>5 DEF TapIssue, RestPart, Tap, Offer, HandlerPart, Fits, At
  <2>4. QED
    BY <2>1, <2>2, <2>3 DEF TypeInv
<1>6. ASSUME NEW h \in Handler, ShowIssue(h) PROVE TypeInv'
  <2>1. SessionPart'
    <3>1. handler[h].arg \in Ipo
      BY <1>0, <1>6 DEF ShowIssue, At, HandlerPart, Fits
    <3>2. QED
      BY <1>0, <1>6, <3>1, PutType DEF ShowIssue, Session, State
  <2>2. HandlerPart'
    BY <1>0, <1>6, BeginType, FinishType, CurrentType DEF ShowIssue, Arg, Step, Fits, HandlerPart
  <2>3. RestPart'
    BY <1>0, <1>6 DEF ShowIssue, RestPart, Tap, Offer, HandlerPart, Fits, At
  <2>4. QED
    BY <2>1, <2>2, <2>3 DEF TypeInv
<1>7. ASSUME NEW h \in Handler, TapApply(h) PROVE TypeInv'
  <2>1. SessionPart'
    BY <1>0, <1>7, ClearType, GotType, PutType DEF TapApply, SessionPart, Session, State,
       ClearedFlowStaysCleared
  <2>2. HandlerPart'
    BY <1>0, <1>7, BeginType, FinishType, CurrentType DEF TapApply, Arg, Step, Fits, HandlerPart
  <2>3. RestPart'
    BY <1>0, <1>7 DEF TapApply, RestPart, Tap, Offer, HandlerPart, Fits, At
  <2>4. QED
    BY <2>1, <2>2, <2>3 DEF TypeInv
<1>8. ASSUME NEW h \in Handler, SendCode(h) PROVE TypeInv'
  <2>1. SessionPart'
    <3>1. handler[h].arg \in Ipo /\ codes + 1 \in 0 .. MaxCodes /\ codes' = codes + 1 /\ ended' = ended
      BY <1>0, <1>8, BoundsAssumption DEF SendCode, At, HandlerPart, Fits, SessionPart
    <3>2. session' \in Session /\ session'.code = codes + 1
      BY <1>0, <1>8, <3>1 DEF SendCode, Put, Session, State
    <3>3. codes + 1 \notin ended /\ ended \subseteq 1 .. codes + 1
      BY <1>0 DEF SessionPart
    <3>4. QED
      BY <1>0, <3>1, <3>2, <3>3, BoundsAssumption DEF SessionPart, ClearedFlowStaysCleared
  <2>2. HandlerPart'
    BY <1>0, <1>8, BeginType, FinishType, CurrentType DEF SendCode, Arg, Step, Fits, HandlerPart
  <2>3. RestPart'
    BY <1>0, <1>8 DEF SendCode, RestPart, Tap, Offer, HandlerPart, Fits, At
  <2>4. QED
    BY <2>1, <2>2, <2>3 DEF TypeInv
<1>9. ASSUME NEW h \in Handler, TypeCode(h) PROVE TypeInv'
  <2>1. SessionPart'
    BY <1>0, <1>9, ClearType, GotType, PutType DEF TypeCode, SessionPart, Session, State,
       ClearedFlowStaysCleared
  <2>2. HandlerPart'
    BY <1>0, <1>9, BeginType, FinishType, CurrentType DEF TypeCode, Arg, Step, Fits, HandlerPart
  <2>3. RestPart'
    BY <1>0, <1>9 DEF TypeCode, RestPart, Tap, Offer, HandlerPart, Fits, At
  <2>4. QED
    BY <2>1, <2>2, <2>3 DEF TypeInv
<1>10. ASSUME NEW h \in Handler, CheckCode(h) PROVE TypeInv'
  <2>1. SessionPart'
    BY <1>0, <1>10, ClearType, GotType, PutType DEF CheckCode, SessionPart, Session, State,
       ClearedFlowStaysCleared
  <2>2. HandlerPart'
    BY <1>0, <1>10, BeginType, FinishType, CurrentType DEF CheckCode, Arg, Step, Fits, HandlerPart
  <2>3. RestPart'
    BY <1>0, <1>10 DEF CheckCode, RestPart, Tap, Offer, HandlerPart, Fits, At
  <2>4. QED
    BY <2>1, <2>2, <2>3 DEF TypeInv
<1>11. ASSUME NEW h \in Handler, TapApplicant(h) PROVE TypeInv'
  <2>1. SessionPart'
    BY <1>0, <1>11, ClearType, GotType, PutType DEF TapApplicant, SessionPart, Session, State,
       ClearedFlowStaysCleared
  <2>2. HandlerPart'
    BY <1>0, <1>11, BeginType, FinishType, CurrentType DEF TapApplicant, Arg, Step, Fits,
       HandlerPart
  <2>3. RestPart'
    BY <1>0, <1>11 DEF TapApplicant, RestPart, Tap, Offer, HandlerPart, Fits, At
  <2>4. QED
    BY <2>1, <2>2, <2>3 DEF TypeInv
<1>12. ASSUME NEW h \in Handler, AskLots(h) PROVE TypeInv'
  <2>1. SessionPart'
    <3>1. handler[h].arg \in Profile
      BY <1>0, <1>12 DEF AskLots, At, HandlerPart, Fits
    <3>2. QED
      BY <1>0, <1>12, <3>1, PutType DEF AskLots, Session, State, SessionPart,
         ClearedFlowStaysCleared
  <2>2. HandlerPart'
    BY <1>0, <1>12, BeginType, FinishType, CurrentType DEF AskLots, Arg, Step, Fits, HandlerPart
  <2>3. RestPart'
    BY <1>0, <1>12 DEF AskLots, RestPart, Tap, Offer, HandlerPart, Fits, At
  <2>4. QED
    BY <2>1, <2>2, <2>3 DEF TypeInv
<1>13. ASSUME NEW h \in Handler, TypeLots(h) PROVE TypeInv'
  <2>0. PICK n \in 1 .. MaxLots :
           /\ Put([session EXCEPT !.state = "apply_confirm", !.lots = n])
           /\ shown' = shown \cup {MessageOf([session EXCEPT !.state = "apply_confirm", !.lots = n])}
    BY <1>13 DEF TypeLots
  <2>9. [session EXCEPT !.state = "apply_confirm", !.lots = n] \in Session
    <3>1. n \in 0 .. MaxLots
      BY BoundsAssumption
    <3>2. QED
      BY <1>0, <3>1 DEF Session, State
  <2>1. SessionPart'
    <3>1. [session EXCEPT !.state = "apply_confirm", !.lots = n].code = session.code
      BY <1>0 DEF Session
    <3>2. QED
      BY <1>0, <1>13, <2>0, <2>9, <3>1, PutType DEF TypeLots
  <2>2. HandlerPart'
    BY <1>0, <1>13, BeginType, FinishType, CurrentType DEF TypeLots, Arg, Step, Fits, HandlerPart
  <2>3. RestPart'
    BY <1>0, <1>13, <2>0, <2>9, MessageType DEF TypeLots, RestPart, Tap, Offer
  <2>4. QED
    BY <2>1, <2>2, <2>3 DEF TypeInv
<1>14. ASSUME NEW h \in Handler, TapCancel(h) PROVE TypeInv'
  <2>1. SessionPart'
    BY <1>0, <1>14, ClearType, GotType, PutType DEF TapCancel, SessionPart, Session, State,
       ClearedFlowStaysCleared
  <2>2. HandlerPart'
    BY <1>0, <1>14, BeginType, FinishType, CurrentType DEF TapCancel, Arg, Step, Fits, HandlerPart
  <2>3. RestPart'
    BY <1>0, <1>14 DEF TapCancel, RestPart, Tap, Offer, HandlerPart, Fits, At
  <2>4. QED
    BY <2>1, <2>2, <2>3 DEF TypeInv
<1>15. ASSUME NEW h \in Handler, TapConfirm(h) PROVE TypeInv'
  <2>1. SessionPart'
    BY <1>0, <1>15, ClearType, GotType, PutType DEF TapConfirm, SessionPart, Session, State,
       ClearedFlowStaysCleared
  <2>2. HandlerPart'
    BY <1>0, <1>15, BeginType, FinishType, CurrentType DEF TapConfirm, Arg, Step, Fits, HandlerPart
  <2>3. RestPart'
    BY <1>0, <1>15 DEF TapConfirm, RestPart, Tap, Offer, HandlerPart, Fits, At
  <2>4. QED
    BY <2>1, <2>2, <2>3 DEF TypeInv
<1>16. ASSUME NEW h \in Handler, Place(h) PROVE TypeInv'
  <2>1. SessionPart'
    BY <1>0, <1>16, ClearType, GotType, PutType DEF Place, SessionPart, Session, State,
       ClearedFlowStaysCleared
  <2>2. HandlerPart'
    BY <1>0, <1>16, BeginType, FinishType, CurrentType DEF Place, Arg, Step, Fits, HandlerPart
  <2>3. RestPart'
    <3>1. handler[h].held \in Session
      BY <1>0 DEF HandlerPart, HandlerState
    <3>2. QED
      BY <1>0, <1>16, <3>1, MessageType DEF Place, RestPart
  <2>4. QED
    BY <2>1, <2>2, <2>3 DEF TypeInv
<1>17. ASSUME NEW h \in Handler, Answer(h) PROVE TypeInv'
  <2>1. SessionPart'
    BY <1>0, <1>17, ClearType, GotType, PutType DEF Answer, SessionPart, Session, State,
       ClearedFlowStaysCleared
  <2>2. HandlerPart'
    BY <1>0, <1>17, BeginType, FinishType, CurrentType DEF Answer, Arg, Step, Fits, HandlerPart
  <2>3. RestPart'
    BY <1>0, <1>17 DEF Answer, RestPart, Tap, Offer, HandlerPart, Fits, At
  <2>4. QED
    BY <2>1, <2>2, <2>3 DEF TypeInv
<1>18. ASSUME SessionIdles PROVE TypeInv'
    BY <1>0, <1>18, ClearType, NoSessionType, NoneAssumption DEF SessionIdles, TypeInv,
       SessionPart, HandlerPart, RestPart, ClearedFlowStaysCleared, Session, Idle, HandlerState,
       Step, Fits
<1>19. ASSUME Sweep PROVE TypeInv'
    BY <1>0, <1>19, ClearType, NoSessionType, NoneAssumption DEF Sweep, TypeInv, SessionPart,
       HandlerPart, RestPart, ClearedFlowStaysCleared, Session, Idle, HandlerState, Step, Fits
<1>20. ASSUME CodeLapses PROVE TypeInv'
    BY <1>0, <1>20, ClearType, NoSessionType, NoneAssumption DEF CodeLapses, TypeInv,
       SessionPart, HandlerPart, RestPart, ClearedFlowStaysCleared, Session, Idle, HandlerState,
       Step, Fits
<1>21. ASSUME DeleteProfile PROVE TypeInv'
    BY <1>0, <1>21, ClearType, NoSessionType, NoneAssumption DEF DeleteProfile, TypeInv,
       SessionPart, HandlerPart, RestPart, ClearedFlowStaysCleared, Session, Idle, HandlerState,
       Step, Fits
<1>22. ASSUME Restart PROVE TypeInv'
    BY <1>0, <1>22, ClearType, NoSessionType, NoneAssumption DEF Restart, TypeInv, SessionPart,
       HandlerPart, RestPart, ClearedFlowStaysCleared, Session, Idle, HandlerState, Step, Fits
<1>23. ASSUME UNCHANGED vars PROVE TypeInv'
    BY <1>0, <1>23 DEF TypeInv, SessionPart, HandlerPart, RestPart, ClearedFlowStaysCleared, vars
<1>24. QED BY <1>1, <1>2, <1>3, <1>4, <1>5, <1>6, <1>7, <1>8, <1>9, <1>10, <1>11, <1>12, <1>13,
   <1>14, <1>15, <1>16, <1>17, <1>18, <1>19, <1>20, <1>21, <1>22, <1>23 DEF Next, Handle

LEMMA InitType == Init => TypeInv
BY NoSessionType, BoundsAssumption DEF Init, TypeInv, SessionPart, HandlerPart, RestPart,
   ClearedFlowStaysCleared, HandlerState, Idle, Step, Fits

\* The variables of the flow keep their types whatever messages overlap.
THEOREM TypeCorrect == Spec => []TypeOK
<1>1. TypeInv => TypeOK
  BY DEF TypeInv, SessionPart, HandlerPart, RestPart, TypeOK
<1>2. QED
  BY InitType, NextType, <1>1, PTL DEF Spec

\* A flow that was cancelled, lapsed or lost to a restart is never brought back by a
\* message that was still being handled, although `set` merges into what it finds.
THEOREM ClearedFlowIsGone == Spec => []ClearedFlowStaysCleared
<1>1. TypeInv => ClearedFlowStaysCleared
  BY DEF TypeInv, SessionPart
<1>2. QED
  BY InitType, NextType, <1>1, PTL DEF Spec

\* Where the flow waits for Confirm, and where a confirmation is being served, what
\* would be placed is what a confirm message showed.
ShownWhenConfirming == session.state = "apply_confirm" => MessageOf(session) \in shown
ShownWhenPlacing == \A h \in Handler : At(h, "confirm") => MessageOf(handler[h].held) \in shown
ConfirmInv == ShownWhenConfirming /\ ShownWhenPlacing /\ AmountShownIsPlaced

\* Every step keeps ConfirmInv; only the lots, the Confirm button and create touch it.
LEMMA NextConfirm == TypeInv /\ ConfirmInv /\ [Next]_vars => ConfirmInv'
<1> SUFFICES ASSUME TypeInv, ConfirmInv, [Next]_vars PROVE ConfirmInv'
  OBVIOUS
<1>0. /\ handler \in [Handler -> HandlerState] /\ session \in Session /\ NoSession.state = "none"
      /\ apps \in Seq(Application) /\ shown \subseteq Message
  BY NoSessionType DEF TypeInv, SessionPart, HandlerPart, RestPart
<1>1. ASSUME NEW h \in Handler, TypeMenu(h) PROVE ConfirmInv'
  BY <1>0, <1>1 DEF TypeMenu, ConfirmInv, ShownWhenConfirming, ShownWhenPlacing,
     AmountShownIsPlaced, MessageOf, Session, At, Put, Clear, Cleared, Got,
     Current, Begin, Finish, Idle, MayPlace, HandlerState
<1>2. ASSUME NEW h \in Handler, TypeList(h) PROVE ConfirmInv'
  BY <1>0, <1>2 DEF TypeList, ConfirmInv, ShownWhenConfirming, ShownWhenPlacing,
     AmountShownIsPlaced, MessageOf, Session, At, Put, Clear, Cleared, Got,
     Current, Begin, Finish, Idle, MayPlace, HandlerState
<1>3. ASSUME NEW h \in Handler, TapList(h) PROVE ConfirmInv'
  BY <1>0, <1>3 DEF TapList, ConfirmInv, ShownWhenConfirming, ShownWhenPlacing,
     AmountShownIsPlaced, MessageOf, Session, At, Put, Clear, Cleared, Got,
     Current, Begin, Finish, Idle, MayPlace, HandlerState
<1>4. ASSUME NEW h \in Handler, ShowList(h) PROVE ConfirmInv'
  BY <1>0, <1>4 DEF ShowList, ConfirmInv, ShownWhenConfirming, ShownWhenPlacing,
     AmountShownIsPlaced, MessageOf, Session, At, Put, Clear, Cleared, Got,
     Current, Begin, Finish, Idle, MayPlace, HandlerState
<1>5. ASSUME NEW h \in Handler, TapIssue(h) PROVE ConfirmInv'
  BY <1>0, <1>5 DEF TapIssue, ConfirmInv, ShownWhenConfirming, ShownWhenPlacing,
     AmountShownIsPlaced, MessageOf, Session, At, Put, Clear, Cleared, Got,
     Current, Begin, Finish, Idle, MayPlace, HandlerState
<1>6. ASSUME NEW h \in Handler, ShowIssue(h) PROVE ConfirmInv'
  BY <1>0, <1>6 DEF ShowIssue, ConfirmInv, ShownWhenConfirming, ShownWhenPlacing,
     AmountShownIsPlaced, MessageOf, Session, At, Put, Clear, Cleared, Got,
     Current, Begin, Finish, Idle, MayPlace, HandlerState
<1>7. ASSUME NEW h \in Handler, TapApply(h) PROVE ConfirmInv'
  BY <1>0, <1>7 DEF TapApply, ConfirmInv, ShownWhenConfirming, ShownWhenPlacing,
     AmountShownIsPlaced, MessageOf, Session, At, Put, Clear, Cleared, Got,
     Current, Begin, Finish, Idle, MayPlace, HandlerState
<1>8. ASSUME NEW h \in Handler, SendCode(h) PROVE ConfirmInv'
  BY <1>0, <1>8 DEF SendCode, ConfirmInv, ShownWhenConfirming, ShownWhenPlacing,
     AmountShownIsPlaced, MessageOf, Session, At, Put, Clear, Cleared, Got,
     Current, Begin, Finish, Idle, MayPlace, HandlerState
<1>9. ASSUME NEW h \in Handler, TypeCode(h) PROVE ConfirmInv'
  <2>1. \A g \in Handler : At(g, "confirm")' => At(g, "confirm") /\ handler'[g] = handler[g]
    <3>1. CASE UNCHANGED handler
      BY <3>1 DEF At
    <3>2. ASSUME NEW answer, Begin(h, "code", answer, NoSession)
          PROVE  \A g \in Handler : At(g, "confirm")' => At(g, "confirm") /\ handler'[g] = handler[g]
      <4>1. \A g \in Handler : handler'[g] = IF g = h THEN [step |-> "code", arg |-> answer, held |-> NoSession] ELSE handler[g]
        BY <1>0, <3>2, BeginEffect
      <4>2. QED
        BY <4>1 DEF At
    <3>3. QED
      BY <1>9, <3>1, <3>2 DEF TypeCode
  <2>2. session' = session \/ session' = NoSession
    BY <1>9 DEF TypeCode, Clear, Cleared
  <2>3. QED
    BY <1>0, <1>9, <2>1, <2>2 DEF TypeCode, ConfirmInv, ShownWhenConfirming, ShownWhenPlacing,
       AmountShownIsPlaced
<1>10. ASSUME NEW h \in Handler, CheckCode(h) PROVE ConfirmInv'
  <2>1. \A g \in Handler : At(g, "confirm")' => At(g, "confirm") /\ handler'[g] = handler[g]
    BY <1>0, <1>10 DEF CheckCode, Finish, Idle, At
  <2>2. session' = session \/ session'.state # "apply_confirm"
    BY <1>0, <1>10 DEF CheckCode, Clear, Cleared, Put, Session
  <2>3. QED
    BY <1>0, <1>10, <2>1, <2>2 DEF CheckCode, ConfirmInv, ShownWhenConfirming, ShownWhenPlacing,
       AmountShownIsPlaced
<1>11. ASSUME NEW h \in Handler, TapApplicant(h) PROVE ConfirmInv'
  <2>1. \A g \in Handler : At(g, "confirm")' => At(g, "confirm") /\ handler'[g] = handler[g]
    <3>1. CASE UNCHANGED handler
      BY <3>1 DEF At
    <3>2. ASSUME NEW p, Begin(h, "choose", p, NoSession)
          PROVE  \A g \in Handler : At(g, "confirm")' => At(g, "confirm") /\ handler'[g] = handler[g]
      <4>1. \A g \in Handler : handler'[g] = IF g = h THEN [step |-> "choose", arg |-> p, held |-> NoSession] ELSE handler[g]
        BY <1>0, <3>2, BeginEffect
      <4>2. QED
        BY <4>1 DEF At
    <3>3. QED
      BY <1>11, <3>1, <3>2 DEF TapApplicant
  <2>2. session' = session \/ session' = NoSession
    BY <1>11 DEF TapApplicant, Clear, Cleared
  <2>3. QED
    BY <1>0, <1>11, <2>1, <2>2 DEF TapApplicant, ConfirmInv, ShownWhenConfirming,
       ShownWhenPlacing, AmountShownIsPlaced
<1>12. ASSUME NEW h \in Handler, AskLots(h) PROVE ConfirmInv'
  BY <1>0, <1>12 DEF AskLots, ConfirmInv, ShownWhenConfirming, ShownWhenPlacing,
     AmountShownIsPlaced, MessageOf, Session, At, Put, Clear, Cleared, Got,
     Current, Begin, Finish, Idle, MayPlace, HandlerState
<1>13. ASSUME NEW h \in Handler, TypeLots(h) PROVE ConfirmInv'
  BY <1>0, <1>13 DEF TypeLots, ConfirmInv, ShownWhenConfirming, ShownWhenPlacing,
     AmountShownIsPlaced, MessageOf, Session, At, Put, Clear, Cleared, Got,
     Current, Begin, Finish, Idle, MayPlace, HandlerState
<1>14. ASSUME NEW h \in Handler, TapCancel(h) PROVE ConfirmInv'
  BY <1>0, <1>14 DEF TapCancel, ConfirmInv, ShownWhenConfirming, ShownWhenPlacing,
     AmountShownIsPlaced, MessageOf, Session, At, Put, Clear, Cleared, Got,
     Current, Begin, Finish, Idle, MayPlace, HandlerState
<1>15. ASSUME NEW h \in Handler, TapConfirm(h) PROVE ConfirmInv'
  <2>1. CASE MayPlace(Current) /\ Begin(h, "confirm", None, Current) /\ UNCHANGED session
    <3>1. Current = session /\ session.state = "apply_confirm"
      BY <1>0, <2>1 DEF MayPlace, Current
    <3>2. MessageOf(session) \in shown
      BY <3>1 DEF ConfirmInv, ShownWhenConfirming
    <3>3. \A g \in Handler : handler'[g] = IF g = h THEN [step |-> "confirm", arg |-> None, held |-> session] ELSE handler[g]
      BY <1>0, <2>1, <3>1, BeginEffect
    <3>4. ShownWhenPlacing'
      BY <1>15, <3>2, <3>3 DEF TapConfirm, ConfirmInv, ShownWhenPlacing, At, MessageOf
    <3>5. QED
      BY <1>15, <2>1, <3>4 DEF TapConfirm, ConfirmInv, ShownWhenConfirming,
         AmountShownIsPlaced, MessageOf
  <2>2. CASE Clear /\ UNCHANGED handler
    BY <1>0, <1>15, <2>2 DEF TapConfirm, ConfirmInv, ShownWhenConfirming, ShownWhenPlacing,
       AmountShownIsPlaced, MessageOf, At, Clear, Cleared
  <2>3. QED
    BY <1>15, <2>1, <2>2 DEF TapConfirm
<1>16. ASSUME NEW h \in Handler, Place(h) PROVE ConfirmInv'
  <2> DEFINE s == handler[h].held
  <2>1. MessageOf(s) \in shown /\ ApplicationOf(s) \in Application
    BY <1>0, <1>16, MessageType DEF HandlerState, Place, ConfirmInv, ShownWhenPlacing
  <2>2. \A g \in Handler : handler'[g] = IF g = h THEN [step |-> "answered", arg |-> None, held |-> NoSession] ELSE handler[g]
    BY <1>0, <1>16, BeginEffect DEF Place
  <2>3. ShownWhenConfirming' /\ ShownWhenPlacing'
    BY <1>16, <2>2 DEF Place, ConfirmInv, ShownWhenConfirming, ShownWhenPlacing, At, MessageOf
  <2>4. CASE apps' = apps
    BY <1>16, <2>3, <2>4 DEF Place, ConfirmInv, AmountShownIsPlaced
  <2>5. CASE apps' = Append(apps, ApplicationOf(s))
    <3>1. /\ DOMAIN apps' = 1 .. Len(apps) + 1 /\ DOMAIN apps = 1 .. Len(apps) /\ Len(apps) \in Nat
          /\ \A i \in DOMAIN apps : apps'[i] = apps[i]
          /\ apps'[Len(apps) + 1] = ApplicationOf(s)
      BY <1>0, <2>1, <2>5
    <3>2. \A i \in DOMAIN apps' : i \in DOMAIN apps \/ i = Len(apps) + 1
      BY <3>1
    <3>3. AmountShownIsPlaced'
      BY <1>16, <2>1, <3>1, <3>2 DEF Place, ConfirmInv, AmountShownIsPlaced, MessageOf, ApplicationOf
    <3>4. QED
      BY <2>3, <3>3 DEF ConfirmInv
  <2>6. QED
    BY <1>16, <2>4, <2>5 DEF Place
<1>17. ASSUME NEW h \in Handler, Answer(h) PROVE ConfirmInv'
  BY <1>0, <1>17 DEF Answer, ConfirmInv, ShownWhenConfirming, ShownWhenPlacing,
     AmountShownIsPlaced, MessageOf, Session, At, Put, Clear, Cleared, Got,
     Current, Begin, Finish, Idle, MayPlace, HandlerState
<1>18. ASSUME SessionIdles PROVE ConfirmInv'
  BY <1>0, <1>18 DEF SessionIdles, ConfirmInv, ShownWhenConfirming, ShownWhenPlacing,
     AmountShownIsPlaced, MessageOf, Session, At, Put, Clear, Cleared,
     Idle, HandlerState
<1>19. ASSUME Sweep PROVE ConfirmInv'
  BY <1>0, <1>19 DEF Sweep, ConfirmInv, ShownWhenConfirming, ShownWhenPlacing,
     AmountShownIsPlaced, MessageOf, Session, At, Put, Clear, Cleared,
     Idle, HandlerState
<1>20. ASSUME CodeLapses PROVE ConfirmInv'
  BY <1>0, <1>20 DEF CodeLapses, ConfirmInv, ShownWhenConfirming, ShownWhenPlacing,
     AmountShownIsPlaced, MessageOf, Session, At, Put, Clear, Cleared,
     Idle, HandlerState
<1>21. ASSUME DeleteProfile PROVE ConfirmInv'
  BY <1>0, <1>21 DEF DeleteProfile, ConfirmInv, ShownWhenConfirming, ShownWhenPlacing,
     AmountShownIsPlaced, MessageOf, Session, At, Put, Clear, Cleared,
     Idle, HandlerState
<1>22. ASSUME Restart PROVE ConfirmInv'
  BY <1>0, <1>22 DEF Restart, ConfirmInv, ShownWhenConfirming, ShownWhenPlacing,
     AmountShownIsPlaced, MessageOf, Session, At, Put, Clear, Cleared,
     Idle, HandlerState
<1>23. ASSUME UNCHANGED vars PROVE ConfirmInv'
    BY <1>0, <1>23 DEF ConfirmInv, ShownWhenConfirming, ShownWhenPlacing, AmountShownIsPlaced, MessageOf, Session, At, vars
<1>24. QED BY <1>1, <1>2, <1>3, <1>4, <1>5, <1>6, <1>7, <1>8, <1>9, <1>10, <1>11, <1>12, <1>13,
   <1>14, <1>15, <1>16, <1>17, <1>18, <1>19, <1>20, <1>21, <1>22, <1>23 DEF Next, Handle

LEMMA InitConfirm == Init => ConfirmInv
BY NoSessionType DEF Init, ConfirmInv, ShownWhenConfirming, ShownWhenPlacing,
   AmountShownIsPlaced, At, Idle

\* Every application is for lots and an amount that one confirm message showed, in
\* whatever order taps arrive and awaits return.  (The symbol beside them may have been
\* another issue's: NamedIssueIsPlaced does not hold.)
THEOREM ConfirmedIsPlaced == Spec => []AmountShownIsPlaced
<1>1. ConfirmInv => AmountShownIsPlaced
  BY DEF ConfirmInv
<1>2. QED
  BY InitType, NextType, InitConfirm, NextConfirm, <1>1, PTL DEF Spec

=============================================================================
