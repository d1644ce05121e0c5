-------------------------- MODULE PartnerOnboarding --------------------------
(***************************************************************************)
(* How a business becomes a partner (partner-onboarding.module.ts and      *)
(* AdminService.registerTenant).  It applies; an operator sends the        *)
(* application back, rejects or approves it; approving registers a tenant, *)
(* write by write and outside any transaction, and mails a link; whoever   *)
(* opens the link sets the password of the tenant's admin.                 *)
(*                                                                         *)
(* Several operators may act on one application, each from a screen drawn  *)
(* earlier, so any decision may be posted at any time.  Every handler is a *)
(* chain of awaits; each may fail, which ends that handler where it is.  A *)
(* restart of the process is all handlers failing at once, and a link that *)
(* has expired is one that is not opened any more.                         *)
(***************************************************************************)
EXTENDS Naturals

CONSTANTS
    App,         \* the rows of PartnerApplication there may come to be
    Account,     \* the people who apply, one browser each
    Base,        \* what a business name becomes as a slug
    Long,        \* bases so long that a username has no room for the suffix
    Reviewer,    \* approvals and resends that may be under way at once
    Visitor,     \* openings of links that may be under way at once
    MaxTenants,  \* bound: tenants registered
    MaxLinks     \* bound: links issued

ASSUME BoundsAssumption == MaxTenants \in Nat /\ MaxLinks \in Nat
ASSUME LongAssumption == Long \subseteq Base
ASSUME PeopleAssumption == App # {} /\ Account # {}

-----------------------------------------------------------------------------
\* 0 stands for null: no tenant, no link, the temporary password.
Code == 1 .. MaxTenants
Link == 1 .. MaxLinks
Slug == Base \X (1 .. MaxTenants + 1)
Status == {"submitted", "changes_requested", "approved", "rejected"}
NoSlug == <<CHOOSE b \in Base : TRUE, 0>>
NoApp == <<>>

Row == [exists: BOOLEAN, owner: Account, status: Status, tenant: {0} \cup Code,
        link: {0} \cup Link, activated: BOOLEAN]

\* A tenant by its channel code, its admin account, and the application in its profile.
TenantRow == [slug: Slug \cup {NoSlug}, of: App \cup {NoApp}, admin: {"none", "user", "member"},
              password: {0} \cup Link]

ReviewState == [at: {"idle", "slug", "tenant", "admin", "finish", "resend"},
                app: App \cup {NoApp}, slug: Slug \cup {NoSlug}, code: 0 .. MaxTenants]
VisitState == [at: {"idle", "password", "mark"}, app: App \cup {NoApp}, tenant: {0} \cup Code, link: {0} \cup Link]
SubmitState == [at: {"idle", "update", "create"}, app: App \cup {NoApp}]

VARIABLES
    app,      \* PartnerApplication
    tenant,   \* Tenant, its admin's User and Membership, by channel code
    codes,    \* the highest channel code in use
    links,    \* links issued so far
    submit,   \* the submission under way, by account
    review,   \* approvals and resends under way
    visit     \* openings of links under way

vars == <<app, tenant, codes, links, submit, review, visit>>

IdleSubmit == [at |-> "idle", app |-> NoApp]
IdleReview == [at |-> "idle", app |-> NoApp, slug |-> NoSlug, code |-> 0]
IdleVisit == [at |-> "idle", app |-> NoApp, tenant |-> 0, link |-> 0]

\* The types of the tables and the handlers, and that no two rows hold one link.
TypeOK ==
    /\ app \in [App -> Row] /\ tenant \in [Code -> TenantRow]
    /\ codes \in 0 .. MaxTenants /\ links \in 0 .. MaxLinks
    /\ submit \in [Account -> SubmitState]
    /\ review \in [Reviewer -> ReviewState]
    /\ visit \in [Visitor -> VisitState]
    /\ \A a, b \in App : app[a].link = app[b].link => a = b \/ app[a].link = 0

Init ==
    /\ \E u \in Account : app = [a \in App |-> [exists |-> FALSE, owner |-> u, status |-> "submitted",
                                                tenant |-> 0, link |-> 0, activated |-> FALSE]]
    /\ tenant = [c \in Code |-> [slug |-> NoSlug, of |-> NoApp, admin |-> "none", password |-> 0]]
    /\ codes = 0 /\ links = 0
    /\ submit = [u \in Account |-> IdleSubmit]
    /\ review = [r \in Reviewer |-> IdleReview]
    /\ visit = [v \in Visitor |-> IdleVisit]

-----------------------------------------------------------------------------
(* The applicant: look for a live application, then replace it or add one. *)

Live(a) == app[a].exists /\ app[a].status \in {"submitted", "changes_requested"}

Apply(u) ==
    /\ submit[u].at = "idle"
    /\ \/ \E a \in App : /\ Live(a) /\ app[a].owner = u
                         /\ submit' = [submit EXCEPT ![u] = [at |-> "update", app |-> a]]
       \/ /\ \A a \in App : Live(a) => app[a].owner # u
          /\ submit' = [submit EXCEPT ![u] = [at |-> "create", app |-> NoApp]]
    /\ UNCHANGED <<app, tenant, codes, links, review, visit>>

SaveSubmission(u) ==
    /\ \/ /\ submit[u].at = "update"
          /\ app' = [app EXCEPT ![submit[u].app].status = "submitted"]
       \/ /\ submit[u].at = "create"
          /\ \E a \in App : /\ ~app[a].exists
                            /\ app' = [app EXCEPT ![a].exists = TRUE, ![a].owner = u]
    /\ submit' = [submit EXCEPT ![u] = IdleSubmit]
    /\ UNCHANGED <<tenant, codes, links, review, visit>>

-----------------------------------------------------------------------------
(* The operators.  Sending back and rejecting look at nothing.             *)

RequestChanges(a) ==
    /\ app[a].exists
    /\ app' = [app EXCEPT ![a].status = "changes_requested"]
    /\ UNCHANGED <<tenant, codes, links, submit, review, visit>>

Reject_Misspelt(a) ==
    /\ app[a].exists
    /\ app' = [app EXCEPT ![a].status = "declined"]
    /\ UNCHANGED <<tenant, codes, links, submit, review, visit>>

Reject(a) ==
    /\ app[a].exists
    /\ app' = [app EXCEPT ![a].status = "rejected"]
    /\ UNCHANGED <<tenant, codes, links, submit, review, visit>>

\* What would stop two approvals by writing the status first.
Approve_StatusFirst(r, a) ==
    /\ review[r].at = "idle"
    /\ app[a].exists /\ app[a].status # "approved"
    /\ app' = [app EXCEPT ![a].status = "approved"]
    /\ review' = [review EXCEPT ![r] = [IdleReview EXCEPT !.at = "slug", !.app = a]]
    /\ UNCHANGED <<tenant, codes, links, submit, visit>>

Approve(r, a) ==
    /\ review[r].at = "idle"
    /\ app[a].exists /\ app[a].status # "approved"
    /\ review' = [review EXCEPT ![r] = [IdleReview EXCEPT !.at = "slug", !.app = a]]
    /\ UNCHANGED <<app, tenant, codes, links, submit, visit>>

Taken(slug) == \E c \in Code : tenant[c].slug = slug

\* The name's own slug, or the first suffix nobody has.
PickSlug(r) ==
    /\ review[r].at = "slug"
    /\ \E b \in Base, n \in 1 .. MaxTenants + 1 :
          /\ ~Taken(<<b, n>>) /\ \A m \in 1 .. n - 1 : Taken(<<b, m>>)
          /\ review' = [review EXCEPT ![r].at = "tenant", ![r].slug = <<b, n>>]
    /\ UNCHANGED <<app, tenant, codes, links, submit, visit>>

EndReview(r) == review' = [review EXCEPT ![r] = IdleReview]

Register(r) ==
    /\ codes < MaxTenants
    /\ codes' = codes + 1
    /\ tenant' = [tenant EXCEPT ![codes + 1] = [slug |-> review[r].slug, of |-> review[r].app,
                                               admin |-> "none", password |-> 0]]
    /\ review' = [review EXCEPT ![r].at = "admin", ![r].code = codes + 1]

\* What the unique index on slug prevents.
CreateTenant_SlugNotUnique(r) ==
    /\ review[r].at = "tenant"
    /\ Register(r)
    /\ UNCHANGED <<app, links, submit, visit>>

\* The tenant, its roles and settings, under the next channel code; a slug that is
\* taken by now is a 409.  (So is a code another registration took since it was
\* read: a failed await like any other.)
CreateTenant(r) ==
    /\ review[r].at = "tenant"
    /\ IF Taken(review[r].slug) THEN EndReview(r) /\ UNCHANGED <<tenant, codes>> ELSE Register(r)
    /\ UNCHANGED <<app, links, submit, visit>>

\* `<slug>-admin` cut to 40 characters.
Username(slug) == IF slug[1] \in Long THEN <<slug[1], 1>> ELSE slug

UsernameTaken(name) == \E c \in Code : tenant[c].admin # "none" /\ Username(tenant[c].slug) = name

\* The admin's user and its membership; either may fail.
AddAdmin(r) ==
    \/ /\ tenant' = [tenant EXCEPT ![review[r].code].admin = "member"]
       /\ review' = [review EXCEPT ![r].at = "finish"]
    \/ /\ tenant' = [tenant EXCEPT ![review[r].code].admin = "user"]
       /\ EndReview(r)

\* What a failure to create the admin would do if it were only logged.
CreateAdmin_Swallowed(r) ==
    /\ review[r].at = "admin"
    /\ IF UsernameTaken(Username(review[r].slug))
       THEN review' = [review EXCEPT ![r].at = "finish"] /\ UNCHANGED tenant
       ELSE AddAdmin(r)
    /\ UNCHANGED <<app, codes, links, submit, visit>>

CreateAdmin(r) ==
    /\ review[r].at = "admin"
    /\ IF UsernameTaken(Username(review[r].slug)) THEN EndReview(r) /\ UNCHANGED tenant ELSE AddAdmin(r)
    /\ UNCHANGED <<app, codes, links, submit, visit>>

\* The tenant is looked up again by its slug; the row gets it and a new link.
Finish(r) ==
    /\ review[r].at = "finish" /\ links < MaxLinks
    /\ links' = links + 1
    /\ \E c \in Code :
          /\ tenant[c].slug = review[r].slug
          /\ app' = [app EXCEPT ![review[r].app].status = "approved", ![review[r].app].tenant = c,
                               ![review[r].app].link = links + 1]
    /\ EndReview(r)
    /\ UNCHANGED <<tenant, codes, submit, visit>>

Resend(r, a) ==
    /\ review[r].at = "idle"
    /\ app[a].exists /\ app[a].status = "approved" /\ ~app[a].activated /\ app[a].tenant # 0
    /\ review' = [review EXCEPT ![r] = [IdleReview EXCEPT !.at = "resend", !.app = a]]
    /\ UNCHANGED <<app, tenant, codes, links, submit, visit>>

IssueLink(r) ==
    /\ review[r].at = "resend" /\ links < MaxLinks
    /\ links' = links + 1
    /\ app' = [app EXCEPT ![review[r].app].link = links + 1]
    /\ EndReview(r)
    /\ UNCHANGED <<tenant, codes, submit, visit>>

-----------------------------------------------------------------------------
(* The partner: the link is checked, the password set, the link used up.   *)

\* Another opening of the same link passes as well until the first is marked.
Opens(l, a) ==
    /\ app[a].link = l /\ app[a].status = "approved"
    /\ ~app[a].activated /\ app[a].tenant # 0

\* What would keep two openings of one link apart by claiming it first.
Activate_ClaimFirst(v, l) ==
    /\ visit[v].at = "idle"
    /\ \E a \in App : /\ Opens(l, a)
                      /\ visit' = [visit EXCEPT ![v] = [at |-> "password", app |-> a, tenant |-> app[a].tenant, link |-> l]]
                      /\ app' = [app EXCEPT ![a].activated = TRUE, ![a].link = 0]
    /\ UNCHANGED <<tenant, codes, links, submit, review>>

Activate(v, l) ==
    /\ visit[v].at = "idle"
    /\ \E a \in App : /\ Opens(l, a)
                      /\ visit' = [visit EXCEPT ![v] = [at |-> "password", app |-> a, tenant |-> app[a].tenant, link |-> l]]
    /\ UNCHANGED <<app, tenant, codes, links, submit, review>>

SetPassword(v) ==
    /\ visit[v].at = "password"
    /\ IF tenant[visit[v].tenant].admin = "none"
       THEN visit' = [visit EXCEPT ![v] = IdleVisit] /\ UNCHANGED tenant
       ELSE /\ tenant' = [tenant EXCEPT ![visit[v].tenant].password = visit[v].link]
            /\ visit' = [visit EXCEPT ![v].at = "mark"]
    /\ UNCHANGED <<app, codes, links, submit, review>>

MarkActivated(v) ==
    /\ visit[v].at = "mark"
    /\ app' = [app EXCEPT ![visit[v].app].activated = TRUE, ![visit[v].app].link = 0]
    /\ visit' = [visit EXCEPT ![v] = IdleVisit]
    /\ UNCHANGED <<tenant, codes, links, submit, review>>

-----------------------------------------------------------------------------
(* An await fails and its handler ends.                                    *)

Fails ==
    \/ \E u \in Account : submit[u].at # "idle" /\ submit' = [submit EXCEPT ![u] = IdleSubmit]
                          /\ UNCHANGED <<app, tenant, codes, links, review, visit>>
    \/ \E r \in Reviewer : review[r].at # "idle" /\ EndReview(r)
                           /\ UNCHANGED <<app, tenant, codes, links, submit, visit>>
    \/ \E v \in Visitor : visit[v].at # "idle" /\ visit' = [visit EXCEPT ![v] = IdleVisit]
                          /\ UNCHANGED <<app, tenant, codes, links, submit, review>>

Approval(r) ==
    PickSlug(r) \/ CreateTenant(r) \/ CreateAdmin(r) \/ Finish(r) \/ IssueLink(r)

Next ==
    \/ \E u \in Account : Apply(u) \/ SaveSubmission(u)
    \/ \E a \in App : RequestChanges(a) \/ Reject(a)
    \/ \E r \in Reviewer, a \in App : Approve(r, a) \/ Resend(r, a)
    \/ \E r \in Reviewer : Approval(r)
    \/ \E v \in Visitor, l \in Link : Activate(v, l)
    \/ \E v \in Visitor : SetPassword(v) \/ MarkActivated(v)
    \/ Fails

Spec == Init /\ [][Next]_vars

-----------------------------------------------------------------------------
(* Properties.                                                             *)

\* The tenant recorded on an application was registered for that application and
\* for no other, and its admin can sign in: no overlap of two approvals of one
\* name, and no failure half-way, links an application to another's tenant or to
\* one left unfinished.
TenantIsOwnAndReady ==
    \A a \in App : app[a].tenant # 0 =>
        tenant[app[a].tenant].of = a /\ tenant[app[a].tenant].admin = "member"

\* An approved application that nobody has activated yet has a tenant and a link:
\* whichever handlers overlapped or died, the partner's way in is not lost.
ApprovedHasAWayIn ==
    \A a \in App : app[a].status = "approved" /\ ~app[a].activated => app[a].link # 0 /\ app[a].tenant # 0

\* Whoever is told that the account is activated has set a password: an activation
\* that dies half-way leaves the link working.
ActivatedHasPassword ==
    \A a \in App : app[a].activated => \E c \in Code : tenant[c].of = a /\ tenant[c].password # 0
=============================================================================
