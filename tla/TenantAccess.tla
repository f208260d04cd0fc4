---------------------------- MODULE TenantAccess ----------------------------
(***************************************************************************)
(* Who may act for which tenant: the session of a browser, the portal's    *)
(* pages that give it an active organization (portal/web/src/lib/          *)
(* auth-client.ts, routes/login.tsx, routes/_app.tsx, lib/api.ts), and the *)
(* middleware every request passes (portal/api/src/middleware/tenant.ts),  *)
(* with the roles of auth.ts.  POST /api/tenant (routes/tenants.ts), which *)
(* provisions a tenant from the portal, is modelled to its end; of other   *)
(* requests only that they are let through.                                *)
(*                                                                         *)
(* Command lines set tenants up meanwhile (Provisioning), and memberships  *)
(* change: by better-auth's own endpoints, or by hand.                     *)
(***************************************************************************)
EXTENDS Provisioning

CONSTANTS
    Asked,      \* the requests modelled: pairs of a resource and a method
    Given,      \* the roles given to members by hand
    MaxEdits,   \* bound of a behaviour: changes of memberships
    MaxSignIns,  \* bound of a behaviour: sign-ins
    MaxRequests \* bound of a behaviour: requests

ASSUME GivenRoles == Given \subseteq Role
ASSUME AccessBounds == MaxEdits \in Nat /\ MaxSignIns \in Nat /\ MaxRequests \in Nat

VARIABLES
    session,    \* activeOrganizationId of each user's session, or Unscoped, or None
    page,       \* what each user's browser shows
    req,        \* each user's request
    held,       \* history: organizations that granted the request its right
    edits, signins, requests

avars == <<session, page, req, held, edits, signins, requests>>
vars == <<pvars, avars>>

-----------------------------------------------------------------------------
(* auth.ts: the roles. *)

All == {"create", "read", "update", "delete"}

Grants ==
    [role \in {"viewer", "member", "admin", "owner"} |->
       CASE role = "viewer" ->
              {"extension", "trunk", "route", "callflow", "cdr", "tenant"} \X {"read"}
         [] role = "member" ->
              ({"extension", "callflow"} \X All)
                \cup ({"trunk", "route", "cdr", "recording", "tenant"} \X {"read"})
         [] OTHER ->
              ({"extension", "trunk", "route", "callflow"} \X All)
                \cup ({"cdr"} \X {"read", "export"}) \cup ({"recording"} \X {"read", "delete"})
                \cup ({"tenant"} \X {"read", "update"}) \cup {<<"audit", "read">>}]

ActionForMethod(m) ==
    CASE m \in {"GET", "HEAD"} -> "read" [] m = "POST" -> "create"
      [] m \in {"PUT", "PATCH"} -> "update" [] m = "DELETE" -> "delete" [] OTHER -> "unknown"

\* A role that auth.ts does not define is granted nothing.
RequirePermission(role, resource, action) ==
    role \in DOMAIN Grants /\ <<resource, action>> \in Grants[role]

RequireRole(role) == role \in {"owner", "admin"}

\* What a route asks of the role: /api/tenant names roles, the others permissions.
Allowed(role, what) ==
    IF what[1] = "tenant" THEN RequireRole(role)
    ELSE RequirePermission(role, what[1], ActionForMethod(what[2]))

-----------------------------------------------------------------------------
(* Browsers. *)

Unscoped == "unscoped"

ASSUME AccessApart == Unscoped \notin Orgs /\ None \notin Asked

\* at: the await of ensureActiveOrganization, or what is shown; first: called
\* by the login page; pick: the organization about to be made active; known:
\* the answer the layout's query remembers; sure: since the layout asked,
\* no call has failed.
PageAt == {"login", "ask", "list", "set", "app", "noTenant"}
Page == [at : PageAt, first : BOOLEAN, pick : Orgs \cup {None},
         known : {"nothing", "yes", "no"}, sure : BOOLEAN]
Login == [at |-> "login", first |-> FALSE, pick |-> None, known |-> "nothing", sure |-> TRUE]

NoRequest == [at |-> "idle", org |-> None, what |-> None, dom |-> None, set |-> 1]
Request == [at : {"idle", "session", "member", "act", "upsert", "sync", "rebuild"},
            org : Orgs \cup {None}, what : Asked \cup {None}, dom : Domains \cup {None}, set : 0..1]

Init ==
    /\ PInit
    /\ session = [u \in Users |-> None]
    /\ page = [u \in Users |-> Login]
    /\ req = [u \in Users |-> NoRequest]
    /\ held = [u \in Users |-> {}]
    /\ edits = 0 /\ signins = 0 /\ requests = 0

Show(u, p) == page' = [page EXCEPT ![u] = p]
Browsing == UNCHANGED <<pvars, req, edits, requests>>

\* AppLayout mounts: it shows what its query remembers, or asks.
Layout(p) ==
    CASE p.known = "yes" -> [p EXCEPT !.at = "app", !.first = FALSE, !.pick = None, !.sure = FALSE]
      [] p.known = "no" -> [p EXCEPT !.at = "noTenant", !.first = FALSE, !.pick = None, !.sure = FALSE]
      [] OTHER -> [p EXCEPT !.at = "ask", !.first = FALSE, !.pick = None, !.sure = TRUE]

\* ensureActiveOrganization returns: the login page does not look at the
\* answer, the layout's query remembers it (staleTime: Infinity).
Answer(p, yes, sure) ==
    IF p.first THEN Layout(p)
    ELSE [p EXCEPT !.at = IF yes THEN "app" ELSE "noTenant", !.pick = None,
                   !.known = IF yes THEN "yes" ELSE "no", !.sure = sure]

SignIn(u) ==
    /\ page[u].at = "login" /\ session[u] = None
    /\ u \in user /\ signins < MaxSignIns
    /\ signins' = signins + 1
    /\ session' = [session EXCEPT ![u] = Unscoped]
    /\ Show(u, [page[u] EXCEPT !.at = "ask", !.first = TRUE])
    /\ Browsing

AskSession(u) ==
    /\ page[u].at = "ask"
    /\ Show(u, IF session[u] \in Orgs THEN Answer(page[u], TRUE, TRUE)
               ELSE [page[u] EXCEPT !.at = "list"])
    /\ UNCHANGED <<session, signins>> /\ Browsing

OrgsOf(u) == {m.org : m \in {r \in member : r.user = u}}

\* Mutant: the page opens on a list that is not empty.
ListOrganizationsOnly(u) ==
    /\ page[u].at = "list"
    /\ Show(u, Answer(page[u], session[u] # None /\ OrgsOf(u) # {}, session[u] # None))
    /\ UNCHANGED <<session, signins>> /\ Browsing

\* The first of the list is taken; without a session the call fails, and a
\* failed call looks like an empty list.
ListOrganizations(u) ==
    /\ page[u].at = "list"
    /\ IF session[u] = None \/ OrgsOf(u) = {}
       THEN Show(u, Answer(page[u], FALSE, session[u] # None))
       ELSE \E o \in OrgsOf(u) : Show(u, [page[u] EXCEPT !.at = "set", !.pick = o])
    /\ UNCHANGED <<session, signins>> /\ Browsing

\* Whether set-active was accepted is not looked at.
SetActive(u) ==
    LET accepted == session[u] # None /\ page[u].pick \in OrgsOf(u) IN
    /\ page[u].at = "set"
    /\ session' = IF accepted THEN [session EXCEPT ![u] = page[u].pick] ELSE session
    /\ Show(u, Answer(page[u], TRUE, accepted))
    /\ UNCHANGED signins /\ Browsing

CallFails(u) ==
    /\ page[u].at \in {"list", "set"}
    /\ faults < MaxFaults /\ faults' = faults + 1
    /\ Show(u, Answer(page[u], page[u].at = "set", FALSE))
    /\ UNCHANGED <<user, org, member, settings, domain, warm, flag, cli, invited, broken, runs,
                   session, signins, req, edits, requests>>

\* beforeLoad of /_app finds no session: a navigation within the page, which
\* keeps what queries remember.
BeforeLoad(u) ==
    /\ page[u].at \in {"app", "noTenant"} /\ session[u] = None
    /\ Show(u, [page[u] EXCEPT !.at = "login"])
    /\ UNCHANGED <<session, signins>> /\ Browsing

\* A query nobody shows is forgotten after five minutes.
Forget(u) ==
    /\ page[u].at = "login"
    /\ Show(u, Login)
    /\ UNCHANGED <<session, signins>> /\ Browsing

\* A full load of the page.
Reload(u) ==
    /\ page[u].at \in {"app", "noTenant"}
    /\ Show(u, IF session[u] = None THEN Login ELSE Layout(Login))
    /\ UNCHANGED <<session, signins>> /\ Browsing

SignOut(u) ==
    /\ page[u].at \in {"app", "noTenant"}
    /\ session' = [session EXCEPT ![u] = None]
    /\ Show(u, Login)
    /\ UNCHANGED signins /\ Browsing

\* Eight hours after sign-in, or by signing out elsewhere.
SessionEnds(u) ==
    /\ session[u] # None
    /\ session' = [session EXCEPT ![u] = None]
    /\ UNCHANGED <<page, signins>> /\ Browsing

-----------------------------------------------------------------------------
(* Requests. *)

Answered(u) == req' = [req EXCEPT ![u] = NoRequest]
Goes(u, at) == req' = [req EXCEPT ![u].at = at]
Serving == UNCHANGED <<session, page, edits, signins>>

Send(u, what, d, set) ==
    /\ page[u].at = "app" /\ req[u] = NoRequest
    /\ requests < MaxRequests /\ requests' = requests + 1
    /\ (what[1] = "tenant") = (d # None) /\ (d = None => set = 1)
    /\ req' = [req EXCEPT ![u] = [at |-> "session", org |-> None, what |-> what,
                                  dom |-> d, set |-> set]]
    /\ UNCHANGED pvars /\ Serving

\* requireTenant reads the session: 401 makes api.ts load the login page, 403
\* is an error on the page shown.
ReadSession(u) ==
    /\ req[u].at = "session"
    /\ IF session[u] \in Orgs
       THEN req' = [req EXCEPT ![u].at = "member", ![u].org = session[u]] /\ UNCHANGED page
       ELSE /\ Answered(u)
            /\ IF session[u] = None THEN Show(u, Login) ELSE UNCHANGED page
    /\ UNCHANGED <<pvars, session, edits, signins, requests>>

\* Mutant: the role is taken to be that of a member, without looking.
AnyMember(u) == {[id |-> 0, user |-> u, org |-> req[u].org, role |-> "member"]}

\* The row of the user's membership; of several, the database returns any.
MembershipOf(u) == {m \in member : m.user = u /\ m.org = req[u].org}

\* requireTenant reads the membership; requireRole and requirePermission
\* follow without another await.
ReadMembership(u) ==
    /\ req[u].at = "member"
    /\ \/ MembershipOf(u) = {} /\ Answered(u)
       \/ \E m \in MembershipOf(u) :
            IF Allowed(m.role, req[u].what) THEN Goes(u, "act") ELSE Answered(u)
    /\ UNCHANGED <<pvars, requests>> /\ Serving

\* The handler runs: of POST /api/tenant, its look at who has the domain.
Act(u) ==
    LET r == req[u] IN
    /\ r.at = "act"
    /\ IF r.dom = None \/ Taken(r.dom, r.org) THEN Answered(u) ELSE Goes(u, "upsert")
    /\ UNCHANGED <<pvars, requests>> /\ Serving

\* The whole row is set; a dedicated tenant is left there, with answer 202.
PostSettings(u) ==
    LET r == req[u] IN
    /\ r.at = "upsert"
    /\ IF Refused(r.dom, r.org) THEN Answered(u) /\ UNCHANGED settings
       ELSE /\ settings' = [settings EXCEPT ![r.org] = [dom |-> r.dom, set |-> r.set]]
            /\ IF r.set = 0 THEN Answered(u) ELSE Goes(u, "sync")
    /\ UNCHANGED <<user, org, member, domain, warm, flag, cli, invited, broken, runs, faults, requests>>
    /\ Serving

PostDomain(u) ==
    /\ req[u].at = "sync"
    /\ domain' = domain \cup {req[u].dom}
    /\ Goes(u, "rebuild")
    /\ UNCHANGED <<user, org, member, settings, warm, flag, cli, invited, broken, runs, faults, requests>>
    /\ Serving

PostRebuild(u) ==
    /\ req[u].at = "rebuild"
    /\ warm' = warm \cup {req[u].org}
    /\ Answered(u)
    /\ UNCHANGED <<user, org, member, settings, domain, flag, cli, invited, broken, runs, faults, requests>>
    /\ Serving

\* The API dies, or a query of the handler throws.
RequestDies(u) ==
    /\ req[u].at \in {"act", "upsert", "sync", "rebuild"}
    /\ PFault(req[u].org)
    /\ Answered(u)
    /\ UNCHANGED <<tables, flag, cli, invited, runs, requests>> /\ Serving

PostDomainFails(u) ==
    /\ req[u].at = "sync"
    /\ PFault(req[u].org)
    /\ Goes(u, "rebuild")
    /\ UNCHANGED <<tables, flag, cli, invited, runs, requests>> /\ Serving

-----------------------------------------------------------------------------
(* Memberships change. *)

Edit(rows) ==
    /\ edits < MaxEdits /\ edits' = edits + 1
    /\ member' = rows
    /\ UNCHANGED <<user, org, settings, domain, warm, flag, cli, invited, broken, runs, faults,
                   session, page, req, signins, requests>>

SetRole(m, role) == m.role # role /\ Edit((member \ {m}) \cup {[m EXCEPT !.role = role]})
RemoveMember(m) == Edit(member \ {m})
Join(u, o, role) ==
    /\ o \in org /\ u \in user /\ o \notin OrgsOf(u)
    /\ Edit(member \cup {[id |-> MaxRuns + edits + 1, user |-> u, org |-> o, role |-> role]})

-----------------------------------------------------------------------------
Browser(u) ==
    \/ SignIn(u) \/ AskSession(u) \/ ListOrganizations(u) \/ SetActive(u)
    \/ CallFails(u) \/ BeforeLoad(u) \/ Forget(u) \/ Reload(u) \/ SignOut(u) \/ SessionEnds(u)

Server(u) ==
    \/ \E what \in Asked, d \in Domains \cup {None}, set \in 0..1 : Send(u, what, d, set)
    \/ ReadSession(u) \/ ReadMembership(u) \/ Act(u) \/ PostSettings(u) \/ PostDomain(u)
    \/ PostRebuild(u) \/ RequestDies(u) \/ PostDomainFails(u)

Membership ==
    \/ \E m \in member, role \in Given : SetRole(m, role)
    \/ \E m \in member : RemoveMember(m)
    \/ \E u \in Users, o \in Orgs, role \in Given : Join(u, o, role)

\* The organizations that grant u's request its right.
Granting(u) ==
    {m.org : m \in {r \in member : r.user = u /\ req[u].what # None /\ Allowed(r.role, req[u].what)}}

Next ==
    /\ \/ PNext /\ UNCHANGED <<session, page, req, edits, signins, requests>>
       \/ \E u \in Users : Browser(u) \/ Server(u)
       \/ Membership
    /\ held' = [u \in Users |-> (IF req[u] = NoRequest THEN {} ELSE held[u]) \cup Granting(u)']

Spec == Init /\ [][Next]_vars

-----------------------------------------------------------------------------
(* Properties. *)

\* The variables hold values of their types, and each process that is done is
\* back where it began: no path leaves half a request or half a page behind.
TypeOK ==
    /\ PTypeOK
    /\ \A p \in Clis : On(p, "idle") => cli[p] = Quiet
    /\ session \in [Users -> Orgs \cup {Unscoped, None}]
    /\ page \in [Users -> Page]
    /\ \A u \in Users : (page[u].at = "set") = (page[u].pick # None)
    /\ req \in [Users -> Request]
    /\ held \in [Users -> SUBSET Orgs]
    /\ edits \in 0..MaxEdits /\ signins \in 0..MaxSignIns /\ requests \in 0..MaxRequests

\* middleware/tenant.ts: a handler runs for an organization only if, at some
\* moment since its request began, a membership of the caller in that very
\* organization granted what the route asks; however sessions, active
\* organizations, roles and memberships change around it.
ActsWithRight == \A u \in Users :
    req[u].at \in {"act", "upsert", "sync", "rebuild"} => req[u].org \in held[u]

\* tenants.ts:4-8 and provision-tenant.ts: an organization with a SIP domain and
\* a dispatcher set is known to Kamailio and to the cache once nobody works on
\* it, whatever command lines and portal requests set it up together, unless a
\* fault hit one of them.
NoHalfTenant == \A o \in Orgs :
    /\ settings[o].dom # None /\ settings[o].set # 0 /\ o \notin broken
    /\ \A p \in Clis : cli[p].org # o
    /\ \A u \in Users : req[u].org # o
    => settings[o].dom \in domain /\ o \in warm

\* _app.tsx:215: pages are held back until the session has an organization: one
\* that the layout asked for, and no call failed, has one as long as it lasts.
AppIsScoped == \A u \in Users :
    page[u].at = "app" /\ page[u].sure /\ session[u] # None => session[u] # Unscoped
=============================================================================
