----------------------- MODULE PartnerOnboardingProofs -----------------------
(***************************************************************************)
(* The onboarding for any applications, names, operators and openings of   *)
(* links, openings of one link at once among them.                         *)
(***************************************************************************)
EXTENDS PartnerOnboarding, TLAPS

\* Every link on a row was issued, and only one handler's.
LinksIssued == \A a \in App : app[a].link <= links

\* The tenants are those up to the highest code, each with a slug of its own.
Registered ==
    /\ \A c \in Code : c > codes => tenant[c].slug = NoSlug /\ tenant[c].password = 0
    /\ \A c, d \in Code : c <= codes /\ d <= codes /\ tenant[c].slug = tenant[d].slug => c = d

\* An approval under way has the tenant it registered, and no other approval has it.
Underway(r) ==
    /\ review[r].at # "idle" => review[r].app \in App
    /\ review[r].at = "tenant" => review[r].slug \in Slug
    /\ review[r].at \in {"admin", "finish"} =>
          /\ review[r].code \in Code /\ review[r].code <= codes /\ review[r].slug \in Slug
          /\ tenant[review[r].code].slug = review[r].slug /\ tenant[review[r].code].of = review[r].app
    /\ review[r].at = "admin" => tenant[review[r].code].admin = "none"
    /\ review[r].at = "finish" => tenant[review[r].code].admin = "member"

Apart ==
    \A r, q \in Reviewer :
        review[r].at = "admin" /\ review[q].at = "admin" /\ review[r].code = review[q].code => r = q

\* What is recorded on an application or copied from it is its own finished tenant.
Own(a, c) == c \in Code /\ c <= codes /\ tenant[c].of = a /\ tenant[c].admin = "member"

Recorded == \A a \in App : app[a].tenant # 0 => Own(a, app[a].tenant)

Opened(v) ==
    /\ visit[v].at # "idle" => /\ visit[v].app \in App /\ visit[v].link \in Link
                               /\ Own(visit[v].app, visit[v].tenant)
    /\ visit[v].at = "mark" => tenant[visit[v].tenant].password # 0

Inv ==
    /\ TypeOK /\ LinksIssued /\ Registered
    /\ \A r \in Reviewer : Underway(r)
    /\ Apart /\ Recorded
    /\ \A v \in Visitor : Opened(v)
    /\ ApprovedHasAWayIn /\ ActivatedHasPassword

LEMMA NoSlugIsNone == NoSlug \notin Slug
BY DEF Slug, NoSlug

LEMMA InitInv == Init => Inv
<1> SUFFICES ASSUME Init PROVE Inv
  OBVIOUS
<1> USE BoundsAssumption, PeopleAssumption
<1>1. TypeOK
  BY DEF Init, TypeOK, Row, TenantRow, ReviewState, VisitState, SubmitState, IdleSubmit, IdleReview, IdleVisit, Status
<1>2. LinksIssued /\ Registered /\ Apart /\ Recorded
  BY DEF Init, LinksIssued, Registered, Apart, Recorded, IdleReview, Code
<1>3. (\A r \in Reviewer : Underway(r)) /\ \A v \in Visitor : Opened(v)
  BY DEF Init, Underway, Opened, IdleReview, IdleVisit
<1>4. ApprovedHasAWayIn /\ ActivatedHasPassword
  BY DEF Init, ApprovedHasAWayIn, ActivatedHasPassword
<1>5. QED
  BY <1>1, <1>2, <1>3, <1>4 DEF Inv

-----------------------------------------------------------------------------
(* The types.                                                              *)

LEMMA Numbers == codes \in 0 .. MaxTenants /\ links \in 0 .. MaxLinks =>
    /\ codes < MaxTenants => codes + 1 \in Code /\ codes + 1 \in 0 .. MaxTenants
    /\ links < MaxLinks => links + 1 \in Link /\ links + 1 \in 0 .. MaxLinks /\ links + 1 # 0
    /\ Code \subseteq 0 .. MaxTenants /\ 0 \in 0 .. MaxTenants
BY BoundsAssumption DEF Code, Link

LEMMA IdleTypes == IdleSubmit \in SubmitState /\ IdleReview \in ReviewState /\ IdleVisit \in VisitState
BY BoundsAssumption DEF IdleSubmit, SubmitState, IdleReview, ReviewState, IdleVisit, VisitState

\* A decision on an application leaves its link.
LEMMA RowDecided ==
    ASSUME app \in [App -> Row], NEW a \in App, NEW s \in Status, app' = [app EXCEPT ![a].status = s]
    PROVE  app' \in [App -> Row] /\ \A b \in App : app'[b].link = app[b].link
<1> DEFINE row == [app[a] EXCEPT !.status = s]
<1>1. row \in Row /\ row.link = app[a].link
  BY DEF Row
<1>2. app' = [app EXCEPT ![a] = row]
  OBVIOUS
<1> HIDE DEF row
<1>3. QED
  BY <1>1, <1>2

\* One column of a tenant is written.
LEMMA TenantChanged ==
    ASSUME tenant \in [Code -> TenantRow], NEW c \in Code, NEW row \in TenantRow,
           tenant' = [tenant EXCEPT ![c] = row]
    PROVE  tenant' \in [Code -> TenantRow]
OBVIOUS

\* What an approval has gathered is written.
LEMMA ReviewChanged ==
    ASSUME review \in [Reviewer -> ReviewState], NEW r \in Reviewer, NEW next \in ReviewState,
           review' = [review EXCEPT ![r] = next]
    PROVE  review' \in [Reviewer -> ReviewState]
OBVIOUS

LEMMA SubmitTypes ==
    ASSUME TypeOK, LinksIssued, NEW u \in Account, Apply(u) \/ SaveSubmission(u)
    PROVE  TypeOK' /\ LinksIssued'
<1>1. CASE Apply(u)
  <2>1. submit' \in [Account -> SubmitState]
    BY <1>1 DEF Apply, TypeOK, SubmitState
  <2>2. QED
    BY <1>1, <2>1 DEF Apply, TypeOK, LinksIssued
<1>2. CASE SaveSubmission(u)
  <2>1. submit' \in [Account -> SubmitState]
    BY <1>2, IdleTypes DEF SaveSubmission, TypeOK
  <2>2. app' \in [App -> Row] /\ \A a \in App : app'[a].link = app[a].link
    <3>1. CASE submit[u].at = "update" /\ submit[u].app \in App
      <4>1. app' = [app EXCEPT ![submit[u].app].status = "submitted"] /\ "submitted" \in Status
        BY <1>2, <3>1 DEF SaveSubmission, Status
      <4>2. QED
        BY <3>1, <4>1, RowDecided DEF TypeOK
    <3>2. CASE submit[u].at = "update" /\ submit[u].app \notin App
      <4>1. app' = app
        BY <1>2, <3>2 DEF SaveSubmission, TypeOK
      <4>2. QED
        BY <4>1 DEF TypeOK
    <3>3. CASE submit[u].at = "create"
      <4>1. PICK a \in App : app' = [app EXCEPT ![a].exists = TRUE, ![a].owner = u]
        BY <1>2, <3>3 DEF SaveSubmission
      <4>2. QED
        BY <4>1 DEF TypeOK, Row
    <3>4. QED
      BY <1>2, <3>1, <3>2, <3>3 DEF SaveSubmission
  <2>3. QED
    BY <1>2, <2>1, <2>2 DEF SaveSubmission, TypeOK, LinksIssued
<1>3. QED
  BY <1>1, <1>2

LEMMA DecisionTypes ==
    ASSUME TypeOK, LinksIssued, NEW a \in App, RequestChanges(a) \/ Reject(a)
    PROVE  TypeOK' /\ LinksIssued'
<1>1. PICK s \in Status : app' = [app EXCEPT ![a].status = s]
  BY DEF RequestChanges, Reject, Status
<1>2. app' \in [App -> Row] /\ \A b \in App : app'[b].link = app[b].link
  BY <1>1, RowDecided DEF TypeOK
<1>3. QED
  BY <1>2 DEF RequestChanges, Reject, TypeOK, LinksIssued

\* A new link is on one row only.
LEMMA NewLink ==
    ASSUME TypeOK, LinksIssued, links < MaxLinks, links' = links + 1, NEW a \in App,
           app'[a].link = links + 1, \A b \in App : b # a => app'[b].link = app[b].link
    PROVE  /\ LinksIssued' /\ links' \in 0 .. MaxLinks
           /\ \A b, c \in App : app'[b].link = app'[c].link => b = c \/ app'[b].link = 0
<1>1. links \in Nat /\ links' \in 0 .. MaxLinks
  BY BoundsAssumption DEF TypeOK
<1>2. \A b \in App : app[b].link \in Nat
  BY BoundsAssumption DEF TypeOK, Row, Link
<1>3. QED
  BY <1>1, <1>2 DEF TypeOK, LinksIssued

LEMMA ReviewTypes ==
    ASSUME Inv, NEW r \in Reviewer, (\E a \in App : Approve(r, a) \/ Resend(r, a)) \/ Approval(r)
    PROVE  TypeOK' /\ LinksIssued'
<1>0. TypeOK /\ LinksIssued /\ Underway(r)
  BY DEF Inv
<1>1. CASE \E a \in App : Approve(r, a) \/ Resend(r, a)
  <2>1. review' \in [Reviewer -> ReviewState]
    <3>1. \A a \in App, at \in {"slug", "resend"} : [IdleReview EXCEPT !.at = at, !.app = a] \in ReviewState
      BY IdleTypes DEF ReviewState
    <3>2. QED
      BY <1>0, <1>1, <3>1 DEF Approve, Resend, TypeOK
  <2>2. UNCHANGED <<app, tenant, codes, links, submit, visit>>
    BY <1>1 DEF Approve, Resend
  <2>3. QED
    BY <1>0, <2>1, <2>2 DEF TypeOK, LinksIssued
<1>2. CASE PickSlug(r)
  <2>1. review' \in [Reviewer -> ReviewState]
    <3>1. PICK s \in Slug : review' = [review EXCEPT ![r].at = "tenant", ![r].slug = s]
      BY <1>2 DEF PickSlug, Slug
    <3> DEFINE next == [review[r] EXCEPT !.at = "tenant", !.slug = s]
    <3>2. review[r] \in ReviewState /\ review \in [Reviewer -> ReviewState]
      BY <1>0 DEF TypeOK
    <3>3. next \in ReviewState
      BY <3>2 DEF ReviewState
    <3>4. review' = [review EXCEPT ![r] = next]
      BY <3>1
    <3> HIDE DEF next
    <3>5. QED
      BY <3>2, <3>3, <3>4, ReviewChanged
  <2>2. QED
    BY <1>0, <1>2, <2>1 DEF PickSlug, TypeOK, LinksIssued
<1>3. CASE CreateTenant(r)
  <2>1. CASE EndReview(r) /\ UNCHANGED <<tenant, codes>>
    <3>1. review' \in [Reviewer -> ReviewState]
      BY <1>0, <2>1, IdleTypes DEF EndReview, TypeOK
    <3>2. QED
      BY <1>0, <1>3, <2>1, <3>1 DEF CreateTenant, TypeOK, LinksIssued
  <2>2. CASE Register(r)
    <3>1. review[r].app \in App /\ review[r].slug \in Slug
      BY <1>0, <1>3 DEF Underway, CreateTenant
    <3>2. codes + 1 \in Code /\ codes' \in 0 .. MaxTenants /\ codes + 1 \in 0 .. MaxTenants
      BY <1>0, <2>2, Numbers DEF Register, TypeOK
    <3>3. tenant' \in [Code -> TenantRow]
      BY <1>0, <2>2, <3>1, <3>2 DEF Register, TypeOK, TenantRow
    <3>4. review' \in [Reviewer -> ReviewState]
      <4> DEFINE next == [review[r] EXCEPT !.at = "admin", !.code = codes + 1]
      <4>1. review[r] \in ReviewState /\ review \in [Reviewer -> ReviewState]
        BY <1>0 DEF TypeOK
      <4>2. next \in ReviewState
        BY <3>2, <4>1 DEF ReviewState
      <4>3. review' = [review EXCEPT ![r] = next]
        BY <2>2 DEF Register
      <4> HIDE DEF next
      <4>4. QED
        BY <4>1, <4>2, <4>3, ReviewChanged
    <3>5. QED
      BY <1>0, <1>3, <3>2, <3>3, <3>4 DEF CreateTenant, TypeOK, LinksIssued
  <2>3. QED
    BY <1>3, <2>1, <2>2 DEF CreateTenant
<1>4. CASE CreateAdmin(r)
  <2>1. tenant' \in [Code -> TenantRow]
    <3>1. tenant \in [Code -> TenantRow] /\ review[r].code \in Code
      BY <1>0, <1>4 DEF CreateAdmin, Underway, TypeOK
    <3> DEFINE c == review[r].code
               row(admin) == [tenant[c] EXCEPT !.admin = admin]
    <3>2. \A admin \in {"user", "member"} : row(admin) \in TenantRow
      BY <3>1 DEF TenantRow
    <3>3. UNCHANGED tenant \/ \E admin \in {"user", "member"} : tenant' = [tenant EXCEPT ![c] = row(admin)]
      BY <1>4 DEF CreateAdmin, AddAdmin
    <3> HIDE DEF c, row
    <3>4. QED
      BY <3>1, <3>2, <3>3, TenantChanged DEF c
  <2>2. review' \in [Reviewer -> ReviewState]
    <3> DEFINE next == [review[r] EXCEPT !.at = "finish"]
    <3>1. review[r] \in ReviewState /\ review \in [Reviewer -> ReviewState] /\ IdleReview \in ReviewState
      BY <1>0, IdleTypes DEF TypeOK
    <3>2. next \in ReviewState
      BY <3>1 DEF ReviewState
    <3>3. review' = [review EXCEPT ![r] = next] \/ review' = [review EXCEPT ![r] = IdleReview]
      BY <1>4 DEF CreateAdmin, AddAdmin, EndReview
    <3> HIDE DEF next
    <3>4. QED
      BY <3>1, <3>2, <3>3, ReviewChanged
  <2>3. QED
    BY <1>0, <1>4, <2>1, <2>2 DEF CreateAdmin, TypeOK, LinksIssued
<1>5. CASE Finish(r)
  <2>1. links < MaxLinks /\ links' = links + 1 /\ review[r].app \in App /\ links + 1 \in Link
    BY <1>0, <1>5, Numbers DEF Finish, Underway, TypeOK
  <2> DEFINE a == review[r].app
             next(c) == [app[a] EXCEPT !.status = "approved", !.tenant = c, !.link = links + 1]
  <2>2. PICK c \in Code : app' = [app EXCEPT ![a] = next(c)]
    BY <1>5 DEF Finish
  <2>3. app \in [App -> Row] /\ a \in App /\ app[a] \in Row
    BY <1>0, <2>1 DEF TypeOK
  <2>4. next(c) \in Row /\ next(c).link = links + 1
    <3> HIDE DEF a
    <3>1. QED
      BY <2>1, <2>3 DEF Row, Status
  <2> HIDE DEF next
  <2>5. app' \in [App -> Row]
    BY <2>2, <2>4, <2>3
  <2>6. app'[review[r].app].link = links + 1 /\ \A b \in App : b # review[r].app => app'[b].link = app[b].link
    BY <2>2, <2>4, <2>3
  <2>7. review' \in [Reviewer -> ReviewState]
    BY <1>0, <1>5, IdleTypes DEF Finish, EndReview, TypeOK
  <2>8. QED
    BY <1>0, <1>5, <2>1, <2>5, <2>6, <2>7, NewLink DEF Finish, TypeOK
<1>6. CASE IssueLink(r)
  <2>1. links < MaxLinks /\ links' = links + 1 /\ review[r].app \in App /\ links + 1 \in Link
    BY <1>0, <1>6, Numbers DEF IssueLink, Underway, TypeOK
  <2>2. app' \in [App -> Row]
    BY <1>0, <1>6, <2>1 DEF IssueLink, TypeOK, Row
  <2>3. app'[review[r].app].link = links + 1 /\ \A b \in App : b # review[r].app => app'[b].link = app[b].link
    BY <1>0, <1>6, <2>1 DEF IssueLink, TypeOK, Row
  <2>4. review' \in [Reviewer -> ReviewState]
    BY <1>0, <1>6, IdleTypes DEF IssueLink, EndReview, TypeOK
  <2>5. QED
    BY <1>0, <1>6, <2>1, <2>2, <2>3, <2>4, NewLink DEF IssueLink, TypeOK
<1>7. QED
  BY <1>1, <1>2, <1>3, <1>4, <1>5, <1>6 DEF Approval

LEMMA VisitTypes ==
    ASSUME Inv, NEW v \in Visitor, (\E l \in Link : Activate(v, l)) \/ SetPassword(v) \/ MarkActivated(v)
    PROVE  TypeOK' /\ LinksIssued'
<1>0. TypeOK /\ LinksIssued /\ Opened(v)
  BY DEF Inv
<1>1. CASE \E l \in Link : Activate(v, l)
  <2>1. visit' \in [Visitor -> VisitState]
    BY <1>0, <1>1 DEF Activate, TypeOK, Row, VisitState
  <2>2. QED
    BY <1>0, <1>1, <2>1 DEF Activate, TypeOK, LinksIssued
<1>2. CASE SetPassword(v)
  <2>1. visit' \in [Visitor -> VisitState]
    BY <1>0, <1>2, IdleTypes DEF SetPassword, TypeOK, VisitState
  <2>2. tenant' \in [Code -> TenantRow]
    <3>1. visit[v].tenant \in Code /\ visit[v].link \in Link
      BY <1>0, <1>2 DEF SetPassword, Opened, Own
    <3>2. QED
      <4> DEFINE c == visit[v].tenant
                 row == [tenant[c] EXCEPT !.password = visit[v].link]
      <4>1. tenant \in [Code -> TenantRow]
        BY <1>0 DEF TypeOK
      <4>2. row \in TenantRow
        BY <3>1, <4>1 DEF TenantRow
      <4>3. UNCHANGED tenant \/ tenant' = [tenant EXCEPT ![c] = row]
        BY <1>2 DEF SetPassword
      <4> HIDE DEF row
      <4>4. QED
        BY <3>1, <4>1, <4>2, <4>3, TenantChanged
  <2>3. QED
    BY <1>0, <1>2, <2>1, <2>2 DEF SetPassword, TypeOK, LinksIssued
<1>3. CASE MarkActivated(v)
  <2>1. visit' \in [Visitor -> VisitState] /\ visit[v].app \in App
    BY <1>0, <1>3, IdleTypes DEF MarkActivated, TypeOK, Opened
  <2>2. app' \in [App -> Row]
    <3>1. app' = [app EXCEPT ![visit[v].app].activated = TRUE, ![visit[v].app].link = 0]
      BY <1>3 DEF MarkActivated
    <3>2. app[visit[v].app] \in Row
      BY <1>0, <2>1 DEF TypeOK
    <3>3. [app[visit[v].app] EXCEPT !.activated = TRUE, !.link = 0] \in Row
      BY <3>2 DEF Row
    <3>4. app' = [app EXCEPT ![visit[v].app] = [app[visit[v].app] EXCEPT !.activated = TRUE, !.link = 0]]
      BY <3>1
    <3>5. QED
      BY <1>0, <3>3, <3>4 DEF TypeOK
  <2>3. \A b \in App : app'[b].link = IF b = visit[v].app THEN 0 ELSE app[b].link
    BY <1>0, <1>3 DEF MarkActivated, TypeOK, Row
  <2>4. links \in Nat
    BY <1>0, BoundsAssumption DEF TypeOK
  <2>5. QED
    BY <1>0, <1>3, <2>1, <2>2, <2>3, <2>4 DEF MarkActivated, TypeOK, LinksIssued
<1>4. QED
  BY <1>1, <1>2, <1>3

LEMMA FailTypes ==
    ASSUME TypeOK, LinksIssued, Fails
    PROVE  TypeOK' /\ LinksIssued'
<1>1. /\ submit' \in [Account -> SubmitState] /\ review' \in [Reviewer -> ReviewState]
      /\ visit' \in [Visitor -> VisitState]
  BY IdleTypes DEF Fails, EndReview, TypeOK
<1>2. QED
  BY <1>1 DEF Fails, TypeOK, LinksIssued

-----------------------------------------------------------------------------
(* Each part of the invariant, by what a step leaves alone.                *)

\* What a step may not do to a registered tenant.
TenantsStay ==
    \A c \in Code : c <= codes =>
        /\ c <= codes' /\ tenant'[c].slug = tenant[c].slug /\ tenant'[c].of = tenant[c].of
        /\ tenant[c].admin = "member" => tenant'[c].admin = "member"
        /\ tenant[c].password # 0 => tenant'[c].password # 0

\* What a step that is no approval and no activation may not do to a row.
RowsStay ==
    \A a \in App :
        /\ app'[a].tenant = app[a].tenant /\ app'[a].activated = app[a].activated /\ app'[a].link = app[a].link
        /\ app'[a].status = "approved" => app[a].status = "approved"

LEMMA OwnStays ==
    ASSUME TenantsStay, NEW a, NEW c, Own(a, c)
    PROVE  /\ c \in Code /\ c <= codes' /\ tenant'[c].of = a /\ tenant'[c].admin = "member"
           /\ tenant[c].password # 0 => tenant'[c].password # 0
BY DEF TenantsStay, Own

LEMMA SameTenants == UNCHANGED <<tenant, codes>> => TenantsStay
BY DEF TenantsStay

LEMMA RecordedStays ==
    ASSUME Recorded, TenantsStay, \A a \in App : app'[a].tenant = app[a].tenant
    PROVE  Recorded'
<1> SUFFICES ASSUME NEW a \in App, app'[a].tenant # 0 PROVE Own(a, app[a].tenant)'
  BY DEF Recorded
<1>1. Own(a, app[a].tenant)
  BY DEF Recorded
<1>2. QED
  BY <1>1, OwnStays DEF Own

LEMMA OpenedStays ==
    ASSUME TenantsStay, NEW v \in Visitor, Opened(v), visit'[v] = visit[v]
    PROVE  Opened(v)'
<1>1. CASE visit[v].at = "idle"
  BY <1>1 DEF Opened
<1>2. CASE visit[v].at # "idle"
  <2>1. Own(visit[v].app, visit[v].tenant)
    BY <1>2 DEF Opened
  <2>2. QED
    BY <1>2, <2>1, OwnStays DEF Opened, Own
<1>3. QED
  BY <1>1, <1>2

LEMMA PasswordsStay ==
    ASSUME TypeOK, Registered, ActivatedHasPassword, TenantsStay,
           \A a \in App : app'[a].activated = app[a].activated
    PROVE  ActivatedHasPassword'
<1> SUFFICES ASSUME NEW a \in App, app[a].activated
             PROVE  \E c \in Code : tenant'[c].of = a /\ tenant'[c].password # 0
  BY DEF ActivatedHasPassword
<1>1. PICK c \in Code : tenant[c].of = a /\ tenant[c].password # 0
  BY DEF ActivatedHasPassword
<1>2. c <= codes
  BY <1>1, BoundsAssumption DEF Registered, TypeOK, Code
<1>3. QED
  BY <1>1, <1>2 DEF TenantsStay

LEMMA RegisteredStays == Registered /\ UNCHANGED <<codes, tenant>> => Registered'
BY DEF Registered

\* A handler that takes up no registered tenant.
LEMMA ReviewReplaced ==
    ASSUME Inv, UNCHANGED <<tenant, codes>>, NEW r \in Reviewer, NEW w, review' = [review EXCEPT ![r] = w],
           w.at \notin {"admin", "finish"}, w.at # "idle" => w.app \in App, w.at = "tenant" => w.slug \in Slug
    PROVE  (\A q \in Reviewer : Underway(q)') /\ Apart'
<1>1. \A q \in Reviewer : review'[q] = IF q = r THEN w ELSE review[q]
  BY DEF Inv, TypeOK
<1>2. Apart'
  BY <1>1 DEF Inv, Apart
<1>3. \A q \in Reviewer : Underway(q)'
  BY <1>1 DEF Inv, Underway
<1>4. QED
  BY <1>2, <1>3

LEMMA ReviewsSame ==
    ASSUME Inv, UNCHANGED <<tenant, codes, review>>
    PROVE  (\A q \in Reviewer : Underway(q)') /\ Apart'
BY DEF Inv, Underway, Apart

\* An applicant's step or a decision.
LEMMA QuietStep ==
    ASSUME Inv, UNCHANGED <<tenant, codes, review, visit>>, RowsStay, TypeOK', LinksIssued'
    PROVE  Inv'
<1>1. TenantsStay
  BY SameTenants
<1>2. Registered' /\ Recorded' /\ (\A v \in Visitor : Opened(v)') /\ ActivatedHasPassword'
  BY <1>1, RegisteredStays, RecordedStays, OpenedStays, PasswordsStay DEF Inv, RowsStay
<1>3. ApprovedHasAWayIn'
  BY DEF Inv, RowsStay, ApprovedHasAWayIn
<1>4. QED
  BY <1>2, <1>3, ReviewsSame DEF Inv

\* A step of an operator that only moves the handler.
LEMMA HandlerStep ==
    ASSUME Inv, UNCHANGED <<app, tenant, codes, visit>>, (\A q \in Reviewer : Underway(q)') /\ Apart',
           TypeOK', LinksIssued'
    PROVE  Inv'
<1>1. TenantsStay
  BY SameTenants
<1>2. Registered' /\ Recorded' /\ (\A v \in Visitor : Opened(v)') /\ ActivatedHasPassword'
  BY <1>1, RegisteredStays, RecordedStays, OpenedStays, PasswordsStay DEF Inv
<1>3. ApprovedHasAWayIn'
  BY DEF Inv, ApprovedHasAWayIn
<1>4. QED
  BY <1>2, <1>3 DEF Inv

LEMMA IdleShape == IdleReview.at = "idle" /\ IdleVisit.at = "idle" /\ IdleSubmit.at = "idle"
BY DEF IdleReview, IdleVisit, IdleSubmit

-----------------------------------------------------------------------------
(* The actions.                                                            *)

\* A submission changes no tenant, link or activation of a row, and approves none.
LEMMA SubmitRows == ASSUME Inv, NEW u \in Account, Apply(u) \/ SaveSubmission(u) PROVE RowsStay
<1>1. app' = app \/ (\E a \in App : app' = [app EXCEPT ![a].status = "submitted"])
                   \/ (\E a \in App : app' = [app EXCEPT ![a].exists = TRUE, ![a].owner = u])
  <2>1. CASE submit[u].app \notin App /\ app' = [app EXCEPT ![submit[u].app].status = "submitted"]
    BY <2>1 DEF Inv, TypeOK
  <2>2. QED
    BY <2>1 DEF Apply, SaveSubmission
<1>2. CASE \E a \in App : app' = [app EXCEPT ![a].status = "submitted"]
  BY <1>2 DEF Inv, TypeOK, Row, RowsStay
<1>3. CASE \E a \in App : app' = [app EXCEPT ![a].exists = TRUE, ![a].owner = u]
  BY <1>3 DEF Inv, TypeOK, Row, RowsStay
<1>4. QED
  BY <1>1, <1>2, <1>3 DEF RowsStay

LEMMA SubmitKeeps == ASSUME Inv, NEW u \in Account, Apply(u) \/ SaveSubmission(u) PROVE Inv'
<1>1. TypeOK' /\ LinksIssued'
  BY SubmitTypes DEF Inv
<1>2. RowsStay
  BY SubmitRows
<1>3. QED
  BY <1>1, <1>2, QuietStep DEF Apply, SaveSubmission

LEMMA DecisionKeeps == ASSUME Inv, NEW a \in App, RequestChanges(a) \/ Reject(a) PROVE Inv'
<1>1. TypeOK' /\ LinksIssued'
  BY DecisionTypes DEF Inv
<1>2. RowsStay
  BY DEF Inv, TypeOK, Row, RowsStay, RequestChanges, Reject
<1>3. QED
  BY <1>1, <1>2, QuietStep DEF RequestChanges, Reject

LEMMA StartKeeps ==
    ASSUME Inv, NEW r \in Reviewer, (\E a \in App : Approve(r, a) \/ Resend(r, a)) \/ PickSlug(r)
    PROVE  Inv'
<1>1. TypeOK' /\ LinksIssued'
  BY ReviewTypes DEF Approval
<1>2. CASE \E a \in App : Approve(r, a) \/ Resend(r, a)
  <2>1. PICK a \in App, at \in {"slug", "resend"} : review' = [review EXCEPT ![r] = [IdleReview EXCEPT !.at = at, !.app = a]]
    BY <1>2 DEF Approve, Resend
  <2> DEFINE w == [IdleReview EXCEPT !.at = at, !.app = a]
  <2>2. w.at = at /\ w.app = a
    BY DEF IdleReview
  <2>3. UNCHANGED <<app, tenant, codes, visit>>
    BY <1>2 DEF Approve, Resend
  <2> HIDE DEF w
  <2>4. QED
    BY <1>1, <2>1, <2>2, <2>3, ReviewReplaced, HandlerStep DEF w
<1>3. CASE PickSlug(r)
  <2>1. PICK s \in Slug : review' = [review EXCEPT ![r].at = "tenant", ![r].slug = s]
    BY <1>3 DEF PickSlug, Slug
  <2> DEFINE w == [review[r] EXCEPT !.at = "tenant", !.slug = s]
  <2>2. review[r] \in ReviewState /\ review[r].app \in App
    BY <1>3 DEF Inv, TypeOK, PickSlug, Underway
  <2>3. w.at = "tenant" /\ w.app \in App /\ w.slug \in Slug
    BY <2>2 DEF ReviewState
  <2>4. UNCHANGED <<app, tenant, codes, visit>> /\ review' = [review EXCEPT ![r] = w]
    BY <1>3, <2>1 DEF PickSlug
  <2> HIDE DEF w
  <2>5. QED
    BY <1>1, <2>3, <2>4, ReviewReplaced, HandlerStep
<1>4. QED
  BY <1>2, <1>3

LEMMA EndKeeps ==
    ASSUME Inv, NEW r \in Reviewer, EndReview(r), UNCHANGED <<app, tenant, codes, visit>>, TypeOK', LinksIssued'
    PROVE  Inv'
<1>1. (\A q \in Reviewer : Underway(q)') /\ Apart'
  BY IdleShape, ReviewReplaced DEF EndReview
<1>2. QED
  BY <1>1, HandlerStep

LEMMA RegisterKeeps ==
    ASSUME Inv, NEW r \in Reviewer, CreateTenant(r)
    PROVE  Inv'
<1>1. TypeOK' /\ LinksIssued'
  BY ReviewTypes DEF Approval
<1>2. CASE EndReview(r) /\ UNCHANGED <<tenant, codes>>
  BY <1>1, <1>2, EndKeeps DEF CreateTenant
<1>3. CASE Register(r) /\ ~Taken(review[r].slug)
  <2> DEFINE k == codes + 1
  <2>1. k \in Code /\ codes' = k /\ codes \in Nat /\ codes < MaxTenants
    BY <1>3, Numbers, BoundsAssumption DEF Inv, TypeOK, Register
  <2>2. review[r].app \in App /\ review[r].slug \in Slug /\ review[r] \in ReviewState
    BY <1>3 DEF Inv, TypeOK, Underway, CreateTenant
  <2>3. /\ \A c \in Code : c # k => tenant'[c] = tenant[c]
        /\ tenant'[k].slug = review[r].slug /\ tenant'[k].of = review[r].app
        /\ tenant'[k].admin = "none" /\ tenant'[k].password = 0
    BY <1>3, <2>1 DEF Register, Inv, TypeOK
  <2>4. /\ \A q \in Reviewer : q # r => review'[q] = review[q]
        /\ review'[r].at = "admin" /\ review'[r].code = k /\ review'[r].app = review[r].app
        /\ review'[r].slug = review[r].slug
    BY <1>3, <2>2 DEF Register, Inv, TypeOK, ReviewState
  <2>5. \A c \in Code : (c <= k <=> c <= codes \/ c = k) /\ (c <= codes => c # k)
    BY <2>1 DEF Code
  <2> HIDE DEF k
  <2>6. TenantsStay
    BY <2>1, <2>3, <2>5 DEF TenantsStay
  <2>7. Registered'
    <3>1. \A c \in Code : tenant[c].slug # review[r].slug
      BY <1>3 DEF Taken
    <3>2. \A c \in Code : c > codes' => tenant'[c].slug = NoSlug /\ tenant'[c].password = 0
      BY <2>1, <2>3, <2>5 DEF Inv, Registered, Code
    <3>3. \A c, d \in Code : c <= codes' /\ d <= codes' /\ tenant'[c].slug = tenant'[d].slug => c = d
      BY <2>1, <2>3, <2>5, <3>1 DEF Inv, Registered
    <3>4. QED
      BY <3>2, <3>3 DEF Registered
  <2>8. \A q \in Reviewer : Underway(q)'
    <3>1. Underway(r)'
      BY <2>1, <2>2, <2>3, <2>4, <2>5 DEF Underway
    <3>2. ASSUME NEW q \in Reviewer, q # r PROVE Underway(q)'
      <4>1. Underway(q) /\ review'[q] = review[q]
        BY <2>4, <3>2 DEF Inv
      <4>2. review[q].at \in {"admin", "finish"} => review[q].code \in Code /\ review[q].code # k /\ review[q].code <= codes'
        BY <2>1, <2>5, <4>1 DEF Underway
      <4>3. QED
        BY <2>3, <4>1, <4>2 DEF Underway
    <3>3. QED
      BY <3>1, <3>2
  <2>9. Apart'
    <3>1. \A q \in Reviewer : q # r /\ review[q].at = "admin" => review[q].code # k
      BY <2>5 DEF Inv, Underway
    <3>2. QED
      BY <2>4, <3>1 DEF Inv, Apart
  <2>10. UNCHANGED <<app, visit>>
    BY <1>3 DEF CreateTenant
  <2>11. Recorded' /\ (\A v \in Visitor : Opened(v)') /\ ActivatedHasPassword' /\ ApprovedHasAWayIn'
    BY <2>6, <2>10, RecordedStays, OpenedStays, PasswordsStay DEF Inv, ApprovedHasAWayIn
  <2>12. QED
    BY <1>1, <2>7, <2>8, <2>9, <2>11 DEF Inv
<1>4. QED
  BY <1>2, <1>3 DEF CreateTenant

LEMMA AdminKeeps ==
    ASSUME Inv, NEW r \in Reviewer, CreateAdmin(r)
    PROVE  Inv'
<1>1. TypeOK' /\ LinksIssued'
  BY ReviewTypes DEF Approval
<1>2. CASE EndReview(r) /\ UNCHANGED tenant
  BY <1>1, <1>2, EndKeeps DEF CreateAdmin
<1>3. CASE AddAdmin(r)
  <2> DEFINE k == review[r].code
  <2>1. /\ k \in Code /\ k <= codes /\ review[r].app \in App /\ review[r].slug \in Slug
        /\ tenant[k].slug = review[r].slug /\ tenant[k].of = review[r].app /\ tenant[k].admin = "none"
        /\ review[r].at = "admin" /\ review[r] \in ReviewState /\ tenant[k] \in TenantRow
    BY <1>3 DEF CreateAdmin, Inv, TypeOK, Underway
  <2>2. PICK adm \in {"user", "member"} :
          /\ tenant' = [tenant EXCEPT ![k].admin = adm]
          /\ adm = "member" => review' = [review EXCEPT ![r].at = "finish"]
          /\ adm = "user" => EndReview(r)
    BY <1>3 DEF AddAdmin
  <2>3. UNCHANGED <<app, codes, visit>>
    BY <1>3 DEF CreateAdmin
  <2> HIDE DEF k
  <2>4. /\ \A c \in Code : c # k => tenant'[c] = tenant[c]
        /\ tenant'[k].slug = tenant[k].slug /\ tenant'[k].of = tenant[k].of
        /\ tenant'[k].admin = adm /\ tenant'[k].password = tenant[k].password
    BY <2>1, <2>2 DEF Inv, TypeOK, TenantRow
  <2>5. TenantsStay
    BY <2>1, <2>3, <2>4 DEF TenantsStay
  <2>6. Registered'
    BY <2>1, <2>3, <2>4 DEF Inv, Registered
  <2>7. \A q \in Reviewer : q # r => review'[q] = review[q]
    BY <2>2 DEF EndReview, Inv, TypeOK
  <2>8. /\ adm = "member" => /\ review'[r].at = "finish" /\ review'[r].code = k
                             /\ review'[r].app = review[r].app /\ review'[r].slug = review[r].slug
        /\ adm = "user" => review'[r].at = "idle"
    BY <2>1, <2>2, IdleShape DEF EndReview, Inv, TypeOK, ReviewState, k
  <2>9. \A q \in Reviewer : Underway(q)'
    <3>1. Underway(r)'
      BY <2>1, <2>3, <2>4, <2>8 DEF Underway
    <3>2. ASSUME NEW q \in Reviewer, q # r PROVE Underway(q)'
      <4>1. Underway(q) /\ review'[q] = review[q]
        BY <2>7, <3>2 DEF Inv
      <4>2. review[q].at \in {"admin", "finish"} => review[q].code # k
        BY <2>1, <3>2, <4>1 DEF Underway, Inv, Apart, k
      <4>3. QED
        BY <2>3, <2>4, <4>1, <4>2 DEF Underway
    <3>3. QED
      BY <3>1, <3>2
  <2>10. Apart'
    BY <2>7, <2>8 DEF Inv, Apart
  <2>11. Recorded' /\ (\A v \in Visitor : Opened(v)') /\ ActivatedHasPassword' /\ ApprovedHasAWayIn'
    BY <2>3, <2>5, RecordedStays, OpenedStays, PasswordsStay DEF Inv, ApprovedHasAWayIn
  <2>12. QED
    BY <1>1, <2>6, <2>9, <2>10, <2>11 DEF Inv
<1>4. QED
  BY <1>2, <1>3 DEF CreateAdmin

\* A new link, and for an approval the tenant the slug finds: the one it registered.
LEMMA LinkKeeps ==
    ASSUME Inv, NEW r \in Reviewer, Finish(r) \/ IssueLink(r)
    PROVE  Inv'
<1>1. TypeOK' /\ LinksIssued'
  BY ReviewTypes DEF Approval
<1> DEFINE a == review[r].app
<1>2. UNCHANGED <<tenant, codes, visit>> /\ EndReview(r) /\ links + 1 # 0 /\ a \in App
  BY Numbers DEF Finish, IssueLink, Inv, TypeOK, Underway
<1>3. (\A q \in Reviewer : Underway(q)') /\ Apart'
  BY <1>2, IdleShape, ReviewReplaced DEF EndReview
<1>4. /\ \A b \in App : b # a => app'[b] = app[b]
      /\ app'[a].link = links + 1 /\ app'[a].activated = app[a].activated
      /\ \/ app'[a].tenant = app[a].tenant /\ app'[a].status = app[a].status
         \/ Own(a, app'[a].tenant)
  <2>1. CASE Finish(r)
    <3>1. PICK c \in Code :
            /\ tenant[c].slug = review[r].slug
            /\ app' = [app EXCEPT ![a].status = "approved", ![a].tenant = c, ![a].link = links + 1]
      BY <2>1 DEF Finish
    <3>2. review[r].code \in Code /\ review[r].code <= codes /\ review[r].slug \in Slug
          /\ tenant[review[r].code].slug = review[r].slug /\ tenant[review[r].code].of = a
          /\ tenant[review[r].code].admin = "member"
      BY <2>1 DEF Finish, Inv, Underway
    <3>3. c <= codes
      <4>1. tenant[c].slug # NoSlug /\ codes \in Nat /\ c \in Nat
        BY <3>1, <3>2, NoSlugIsNone, BoundsAssumption DEF Inv, TypeOK, Code
      <4>2. ~(c > codes)
        BY <4>1 DEF Inv, Registered
      <4>3. QED
        BY <4>1, <4>2
    <3>4. c = review[r].code
      BY <3>1, <3>2, <3>3 DEF Inv, Registered
    <3>5. Own(a, c)
      BY <3>2, <3>4 DEF Own
    <3>6. app'[a].tenant = c /\ app'[a].link = links + 1 /\ app'[a].activated = app[a].activated
          /\ \A b \in App : b # a => app'[b] = app[b]
      BY <1>2, <3>1 DEF Inv, TypeOK, Row
    <3>7. QED
      BY <3>5, <3>6
  <2>2. CASE IssueLink(r)
    BY <1>2, <2>2 DEF IssueLink, Inv, TypeOK, Row
  <2>3. QED
    BY <2>1, <2>2
<1> HIDE DEF a
<1>5. TenantsStay
  BY <1>2, SameTenants
<1>6. Registered' /\ (\A v \in Visitor : Opened(v)') /\ ActivatedHasPassword'
  BY <1>2, <1>4, <1>5, RegisteredStays, OpenedStays, PasswordsStay DEF Inv
<1>7. Recorded'
  <2> SUFFICES ASSUME NEW b \in App, app'[b].tenant # 0 PROVE Own(b, app[b].tenant)'
    BY DEF Recorded
  <2>1. Own(b, app'[b].tenant)
    BY <1>4 DEF Inv, Recorded
  <2>2. QED
    BY <1>2, <2>1 DEF Own
<1>8. ApprovedHasAWayIn'
  <2>1. \A c \in Code : c # 0
    BY BoundsAssumption DEF Code
  <2>2. app'[a].status = "approved" /\ ~app'[a].activated => app'[a].link # 0 /\ app'[a].tenant # 0
    BY <1>2, <1>4, <2>1 DEF Inv, ApprovedHasAWayIn, Own
  <2>3. QED
    BY <1>4, <2>2 DEF Inv, ApprovedHasAWayIn
<1>9. QED
  BY <1>1, <1>3, <1>6, <1>7, <1>8 DEF Inv

-----------------------------------------------------------------------------
LEMMA ActivateKeeps ==
    ASSUME Inv, NEW v \in Visitor, NEW l \in Link, Activate(v, l)
    PROVE  Inv'
<1>1. TypeOK' /\ LinksIssued'
  BY VisitTypes
<1>2. UNCHANGED <<app, tenant, codes, review>>
  BY DEF Activate
<1>3. TenantsStay
  BY <1>2, SameTenants
<1>4. Registered' /\ Recorded' /\ ActivatedHasPassword' /\ ApprovedHasAWayIn'
  BY <1>2, <1>3, RegisteredStays, RecordedStays, PasswordsStay DEF Inv, ApprovedHasAWayIn
<1>5. PICK a \in App : Opens(l, a) /\ visit' = [visit EXCEPT ![v] = [at |-> "password", app |-> a, tenant |-> app[a].tenant, link |-> l]]
  BY DEF Activate
<1>6. Own(a, app[a].tenant)
  BY <1>5 DEF Inv, Recorded, Opens
<1>7. \A w \in Visitor : Opened(w)'
  <2>1. /\ visit'[v].at = "password" /\ visit'[v].app = a /\ visit'[v].tenant = app[a].tenant /\ visit'[v].link = l
        /\ \A w \in Visitor : w # v => visit'[w] = visit[w]
    BY <1>5 DEF Inv, TypeOK
  <2>2. Opened(v)'
    BY <1>2, <1>6, <2>1 DEF Opened, Own
  <2>3. QED
    BY <1>3, <2>1, <2>2, OpenedStays DEF Inv
<1>8. QED
  BY <1>1, <1>2, <1>4, <1>7, ReviewsSame DEF Inv

LEMMA SetKeeps ==
    ASSUME Inv, NEW v \in Visitor, SetPassword(v)
    PROVE  Inv'
<1>1. TypeOK' /\ LinksIssued'
  BY VisitTypes
<1> DEFINE k == visit[v].tenant
<1>2. /\ k \in Code /\ k <= codes /\ tenant[k].admin = "member" /\ visit[v].link \in Link /\ visit[v].link # 0
      /\ visit[v].app \in App /\ tenant[k].of = visit[v].app /\ tenant[k] \in TenantRow /\ visit[v] \in VisitState
  BY BoundsAssumption DEF SetPassword, Inv, TypeOK, Opened, Own, Link
<1>3. /\ tenant' = [tenant EXCEPT ![k].password = visit[v].link] /\ visit' = [visit EXCEPT ![v].at = "mark"]
      /\ UNCHANGED <<app, codes, review>>
  BY <1>2 DEF SetPassword
<1>4. /\ \A c \in Code : tenant'[c].slug = tenant[c].slug /\ tenant'[c].of = tenant[c].of /\ tenant'[c].admin = tenant[c].admin
      /\ \A c \in Code : c # k => tenant'[c].password = tenant[c].password
      /\ tenant'[k].password = visit[v].link
  BY <1>2, <1>3 DEF Inv, TypeOK, TenantRow
<1>5. /\ \A w \in Visitor : w # v => visit'[w] = visit[w]
      /\ visit'[v].at = "mark" /\ visit'[v].app = visit[v].app /\ visit'[v].tenant = k /\ visit'[v].link = visit[v].link
  BY <1>2, <1>3 DEF Inv, TypeOK, VisitState
<1> HIDE DEF k
<1>6. TenantsStay
  BY <1>2, <1>3, <1>4 DEF TenantsStay
<1>7. Registered'
  BY <1>2, <1>3, <1>4, BoundsAssumption DEF Inv, TypeOK, Registered, Code
<1>8. (\A q \in Reviewer : Underway(q)') /\ Apart'
  BY <1>3, <1>4 DEF Inv, Underway, Apart
<1>9. Recorded' /\ ActivatedHasPassword' /\ ApprovedHasAWayIn'
  BY <1>3, <1>6, RecordedStays, PasswordsStay DEF Inv, ApprovedHasAWayIn
<1>10. \A w \in Visitor : Opened(w)'
  <2>1. Opened(v)'
    BY <1>2, <1>3, <1>4, <1>5 DEF Opened, Own
  <2>2. QED
    BY <1>5, <1>6, <2>1, OpenedStays DEF Inv
<1>11. QED
  BY <1>1, <1>7, <1>8, <1>9, <1>10 DEF Inv

LEMMA MarkKeeps ==
    ASSUME Inv, NEW v \in Visitor, MarkActivated(v)
    PROVE  Inv'
<1>1. TypeOK' /\ LinksIssued'
  BY VisitTypes
<1> DEFINE a == visit[v].app
<1>2. a \in App /\ Own(a, visit[v].tenant) /\ tenant[visit[v].tenant].password # 0
  BY DEF MarkActivated, Inv, Opened
<1>3. UNCHANGED <<tenant, codes, review>>
  BY DEF MarkActivated
<1>4. /\ \A b \in App : b # a => app'[b] = app[b]
      /\ app'[a].activated /\ app'[a].tenant = app[a].tenant
  BY <1>2 DEF MarkActivated, Inv, TypeOK, Row
<1>5. \A w \in Visitor : visit'[w] = visit[w] \/ visit'[w].at = "idle"
  BY IdleShape DEF MarkActivated, Inv, TypeOK
<1> HIDE DEF a
<1>6. TenantsStay
  BY <1>3, SameTenants
<1>7. Registered' /\ Recorded'
  BY <1>3, <1>4, <1>6, RegisteredStays, RecordedStays DEF Inv
<1>8. \A w \in Visitor : Opened(w)'
  BY <1>5, <1>6, OpenedStays DEF Inv, Opened
<1>9. ApprovedHasAWayIn'
  BY <1>4 DEF Inv, ApprovedHasAWayIn
<1>10. ActivatedHasPassword'
  BY <1>2, <1>3, <1>4 DEF Inv, ActivatedHasPassword, Own
<1>11. QED
  BY <1>1, <1>3, <1>7, <1>8, <1>9, <1>10, ReviewsSame DEF Inv

LEMMA FailKeeps == ASSUME Inv, Fails PROVE Inv'
<1>1. TypeOK' /\ LinksIssued'
  BY FailTypes DEF Inv
<1>2. CASE \E r \in Reviewer : EndReview(r) /\ UNCHANGED <<app, tenant, codes, links, submit, visit>>
  BY <1>1, <1>2, EndKeeps
<1>3. CASE UNCHANGED <<app, tenant, codes, review, visit>>
  BY <1>1, <1>3, QuietStep DEF RowsStay
<1>4. CASE \E v \in Visitor : visit' = [visit EXCEPT ![v] = IdleVisit] /\ UNCHANGED <<app, tenant, codes, links, submit, review>>
  <2>1. \A w \in Visitor : visit'[w] = visit[w] \/ visit'[w].at = "idle"
    BY <1>4, IdleShape DEF Inv, TypeOK
  <2>2. TenantsStay
    BY <1>4, SameTenants
  <2>3. \A w \in Visitor : Opened(w)'
    BY <2>1, <2>2, OpenedStays DEF Inv, Opened
  <2>4. Registered' /\ Recorded' /\ ActivatedHasPassword' /\ ApprovedHasAWayIn'
    BY <1>4, <2>2, RegisteredStays, RecordedStays, PasswordsStay DEF Inv, ApprovedHasAWayIn
  <2>5. QED
    BY <1>1, <1>4, <2>3, <2>4, ReviewsSame DEF Inv
<1>5. QED
  BY <1>2, <1>3, <1>4 DEF Fails

LEMMA NextInv == Inv /\ [Next]_vars => Inv'
<1> SUFFICES ASSUME Inv, [Next]_vars PROVE Inv'
  OBVIOUS
<1>1. CASE UNCHANGED vars
  <2>1. TypeOK' /\ LinksIssued'
    BY <1>1 DEF vars, Inv, TypeOK, LinksIssued
  <2>2. QED
    BY <1>1, <2>1, QuietStep DEF vars, RowsStay
<1>2. CASE Next
  BY <1>2, SubmitKeeps, DecisionKeeps, StartKeeps, RegisterKeeps, AdminKeeps, LinkKeeps,
     ActivateKeeps, SetKeeps, MarkKeeps, FailKeeps DEF Next, Approval
<1>3. QED
  BY <1>1, <1>2

-----------------------------------------------------------------------------
\* The tables and handlers keep their types, and no two rows hold one link, for any
\* number of operators, applicants and openings.
THEOREM TypeCorrect == Spec => []TypeOK
<1>1. Inv => TypeOK
  BY DEF Inv
<1>2. QED
  BY <1>1, InitInv, NextInv, PTL DEF Spec

\* No overlap of approvals and no failure half-way records another's or an unfinished
\* tenant on an application.
THEOREM OwnTenant == Spec => []TenantIsOwnAndReady
<1>1. Inv => TenantIsOwnAndReady
  BY DEF Inv, Recorded, Own, TenantIsOwnAndReady
<1>2. QED
  BY <1>1, InitInv, NextInv, PTL DEF Spec

\* An approved application not activated yet always has a tenant and a link.
THEOREM WayIn == Spec => []ApprovedHasAWayIn
<1>1. Inv => ApprovedHasAWayIn
  BY DEF Inv
<1>2. QED
  BY <1>1, InitInv, NextInv, PTL DEF Spec

\* An application marked activated has a tenant whose password somebody set, wherever
\* an activation died.
THEOREM PasswordChosen == Spec => []ActivatedHasPassword
<1>1. Inv => ActivatedHasPassword
  BY DEF Inv
<1>2. QED
  BY <1>1, InitInv, NextInv, PTL DEF Spec
=============================================================================
