------------------------- MODULE TenantAccessProofs -------------------------
(***************************************************************************)
(* Proofs about Provisioning and TenantAccess for any number of users,     *)
(* organizations, SIP domains and command lines, and any bounds.           *)
(***************************************************************************)
EXTENDS TenantAccess, TLAPS

\* What a command line carries to its later queries.
CliInv(c) ==
    /\ c.at = "idle" => c = Quiet
    /\ c.at # "idle" => c.owner \in Users
    /\ c.at \notin {"idle", "hook"} => c.org \in Orgs /\ c.dom \in Domains

\* What a request carries to the handler's later queries.
ReqInv(r) ==
    /\ r.at # "idle" => r.what \in Asked
    /\ r.at \notin {"idle", "session"} => r.org \in Orgs
    /\ r.at \in {"upsert", "sync", "rebuild"} => r.dom \in Domains

\* The API never has permission for a sign-up; a command line that has it asks
\* for the account of an operator's choice.
GateInv ==
    /\ ~flag["api"]
    /\ \A p \in Clis : cli[p].at = "hook" => cli[p].owner \in invited
    /\ user \subseteq invited

\* w is about to register d for o; w is about to build o's cache.
Registers(w, o, d) == w.at = "sync" /\ w.org = o /\ w.dom = d
Warms(w, o) == w.at \in {"sync", "rebuild"} /\ w.org = o

\* Whoever wrote the row of o last goes on to register the domain it wrote.
Known(o) ==
    \/ settings[o].dom \in domain
    \/ \E p \in Clis : Registers(cli[p], o, settings[o].dom)
    \/ \E u \in Users : Registers(req[u], o, settings[o].dom)
Warm(o) ==
    \/ o \in warm
    \/ \E p \in Clis : Warms(cli[p], o)
    \/ \E u \in Users : Warms(req[u], o)
SetUp(o) ==
    settings[o].dom # None /\ settings[o].set # 0 /\ o \notin broken => Known(o) /\ Warm(o)

TypeInv ==
    /\ TypeOK
    /\ \A p \in Clis : CliInv(cli[p])
    /\ \A u \in Users : ReqInv(req[u])

IInv ==
    /\ TypeInv
    /\ GateInv
    /\ ActsWithRight
    /\ \A o \in Orgs : SetUp(o)
    /\ AppIsScoped

-----------------------------------------------------------------------------
(* The steps of a process, and what they leave alone. *)

LEMMA Going ==
    ASSUME TypeInv, NEW p \in Clis, NEW s \in Stage \ {"idle"}, Go(p, s),
           cli[p].at \notin {"idle", "hook"}
    PROVE  /\ cli' \in [Clis -> Cli]
           /\ \A q \in Clis \ {p} : cli'[q] = cli[q]
           /\ cli'[p].at = s /\ cli'[p].id = cli[p].id /\ cli'[p].owner = cli[p].owner
           /\ cli'[p].org = cli[p].org /\ cli'[p].dom = cli[p].dom
           /\ \A q \in Clis : CliInv(cli'[q])
  BY DEF TypeInv, TypeOK, PTypeOK, Go, Cli, CliInv

LEMMA Exiting ==
    ASSUME TypeInv, NEW p \in Clis, Exit(p)
    PROVE  /\ cli' \in [Clis -> Cli]
           /\ \A q \in Clis \ {p} : cli'[q] = cli[q]
           /\ cli'[p] = Quiet
           /\ \A q \in Clis : CliInv(cli'[q])
  BY RunBounds DEF TypeInv, TypeOK, PTypeOK, Exit, Cli, CliInv, Quiet, Stage

LEMMA ReqGoing ==
    ASSUME TypeInv, NEW u \in Users,
           NEW s \in {"member", "act", "upsert", "sync", "rebuild"}, Goes(u, s),
           req[u].at \notin {"idle", "session"},
           s \in {"upsert", "sync", "rebuild"} => req[u].dom \in Domains
    PROVE  /\ req' \in [Users -> Request]
           /\ \A v \in Users \ {u} : req'[v] = req[v]
           /\ req'[u].at = s /\ req'[u].org = req[u].org /\ req'[u].dom = req[u].dom
           /\ req'[u].what = req[u].what /\ req'[u].set = req[u].set
           /\ \A v \in Users : ReqInv(req'[v])
  BY DEF TypeInv, TypeOK, Goes, Request, ReqInv

LEMMA ReqAnswered ==
    ASSUME TypeInv, NEW u \in Users, Answered(u)
    PROVE  /\ req' \in [Users -> Request]
           /\ \A v \in Users \ {u} : req'[v] = req[v]
           /\ req'[u] = NoRequest
           /\ \A v \in Users : ReqInv(req'[v])
  BY DEF TypeInv, TypeOK, Answered, Request, NoRequest, ReqInv

-----------------------------------------------------------------------------
(* Types. *)

LEMMA FaultTypes ==
    ASSUME PTypeOK, NEW o \in Orgs \cup {None}, PFault(o)
    PROVE  faults' \in 0..MaxFaults /\ broken' \subseteq Orgs
  BY RunBounds DEF PFault, PTypeOK

LEMMA CliTypes ==
    ASSUME TypeInv, NEW p \in Clis, CommandLine(p)
    PROVE  PTypeOK' /\ \A q \in Clis : CliInv(cli'[q])
  <1>0. /\ PTypeOK
        /\ cli[p] \in Cli
        /\ CliInv(cli[p])
        /\ \A q \in Clis : CliInv(cli[q])
    BY DEF TypeInv, TypeOK, PTypeOK
  <1>1. ASSUME NEW u \in Users, CreateUser(p, u)
        PROVE  PTypeOK' /\ \A q \in Clis : CliInv(cli'[q])
    <2>1. runs' \in 0..MaxRuns
      BY <1>0, <1>1, RunBounds DEF CreateUser, PTypeOK
    <2> DEFINE c == [at |-> "hook", id |-> 0, owner |-> u, org |-> None, dom |-> None]
    <2>2. c \in Cli /\ CliInv(c)
      BY RunBounds DEF Cli, CliInv, Stage
    <2>4. cli' = [cli EXCEPT ![p] = c]
      BY <1>1 DEF CreateUser
    <2> HIDE DEF c
    <2>5. cli' \in [Clis -> Cli] /\ \A q \in Clis : CliInv(cli'[q])
      BY <1>0, <2>2, <2>4 DEF PTypeOK
    <2>3. flag' \in [Process -> BOOLEAN] /\ invited' \subseteq Users
      BY <1>0, <1>1 DEF CreateUser, PTypeOK
    <2> QED
      BY <1>0, <1>1, <2>1, <2>3, <2>5 DEF CreateUser, PTypeOK, tables
  <1>2. CASE SignUpOnce(p)
    <2>1. cli' \in [Clis -> Cli] /\ \A q \in Clis : CliInv(cli'[q])
      BY <1>2, Exiting DEF SignUpOnce
    <2>2. cli[p].owner \in Users
      BY <1>0, <1>2 DEF SignUpOnce, On, CliInv
    <2> QED
      BY <1>0, <1>2, <2>1, <2>2 DEF SignUpOnce, Hook, PTypeOK
  <1>3. ASSUME NEW u \in Users, NEW o \in Orgs, NEW d \in Domains, Provision(p, u, o, d)
        PROVE  PTypeOK' /\ \A q \in Clis : CliInv(cli'[q])
    <2>1. runs' \in 0..MaxRuns
      BY <1>0, <1>3, RunBounds DEF Provision, PTypeOK
    <2>2. cli' \in [Clis -> Cli] /\ \A q \in Clis : CliInv(cli'[q])
      BY <1>0, <1>3, <2>1 DEF Provision, PTypeOK, Cli, CliInv, Stage
    <2> QED
      BY <1>0, <1>3, <2>1, <2>2 DEF Provision, PTypeOK, tables
  <1>4. CASE FindClash(p) \/ FindOrganization(p) \/ FindMembership(p)
    <2>1. cli' \in [Clis -> Cli] /\ \A q \in Clis : CliInv(cli'[q])
      BY <1>4, Going, Exiting DEF FindClash, FindOrganization, FindMembership, On, Stage
    <2> QED
      BY <1>0, <1>4, <2>1
      DEF FindClash, FindOrganization, FindMembership, PTypeOK, tables
  <1>5. CASE InsertOrganization(p)
    <2>1. cli' \in [Clis -> Cli] /\ \A q \in Clis : CliInv(cli'[q])
      BY <1>5, Going, Exiting DEF InsertOrganization, On, Stage
    <2>2. cli[p].org \in Orgs
      BY <1>0, <1>5 DEF InsertOrganization, On, CliInv
    <2> QED
      BY <1>0, <1>5, <2>1, <2>2 DEF InsertOrganization, PTypeOK
  <1>6. CASE InsertMember(p)
    <2>1. cli' \in [Clis -> Cli] /\ \A q \in Clis : CliInv(cli'[q])
      BY <1>6, Going DEF InsertMember, On, Stage
    <2>2. member' \subseteq Row
      BY <1>0, <1>6, RunBounds DEF InsertMember, On, CliInv, Cli, Row, Role, PTypeOK
    <2> QED
      BY <1>0, <1>6, <2>1, <2>2 DEF InsertMember, PTypeOK
  <1>7. CASE UpsertSettings(p)
    <2>1. cli' \in [Clis -> Cli] /\ \A q \in Clis : CliInv(cli'[q])
      BY <1>7, Going, Exiting DEF UpsertSettings, On, Stage
    <2>2. settings' \in [Orgs -> Setting]
      BY <1>0, <1>7 DEF UpsertSettings, On, CliInv, Setting, PTypeOK
    <2> QED
      BY <1>0, <1>7, <2>1, <2>2 DEF UpsertSettings, PTypeOK
  <1>8. CASE SyncDomain(p) \/ Rebuild(p)
    <2>1. cli' \in [Clis -> Cli] /\ \A q \in Clis : CliInv(cli'[q])
      BY <1>8, Going, Exiting DEF SyncDomain, Rebuild, On, Stage
    <2>2. cli[p].org \in Orgs /\ cli[p].dom \in Domains
      BY <1>0, <1>8 DEF SyncDomain, Rebuild, On, CliInv
    <2> QED
      BY <1>0, <1>8, <2>1, <2>2 DEF SyncDomain, Rebuild, PTypeOK
  <1>9. CASE Kill(p) \/ SyncFails(p)
    <2>1. cli' \in [Clis -> Cli] /\ \A q \in Clis : CliInv(cli'[q])
      BY <1>9, Going, Exiting DEF Kill, SyncFails, On, Stage
    <2>2. faults' \in 0..MaxFaults /\ broken' \subseteq Orgs
      BY <1>0, <1>9, FaultTypes DEF Kill, SyncFails, Cli
    <2> QED
      BY <1>0, <1>9, <2>1, <2>2 DEF Kill, SyncFails, PTypeOK, tables
  <1> QED
    BY <1>1, <1>2, <1>3, <1>4, <1>5, <1>6, <1>7, <1>8, <1>9 DEF CommandLine

LEMMA PTypes ==
    ASSUME TypeInv, PNext
    PROVE  PTypeOK' /\ \A q \in Clis : CliInv(cli'[q])
  <1>1. ASSUME NEW u \in Users, PublicSignUp(u)
        PROVE  PTypeOK' /\ \A q \in Clis : CliInv(cli'[q])
    BY <1>1 DEF PublicSignUp, Hook, TypeInv, TypeOK, PTypeOK
  <1> QED
    BY <1>1, CliTypes DEF PNext

LEMMA BrowserTypes ==
    ASSUME TypeInv, NEW u \in Users, Browser(u)
    PROVE  /\ session' \in [Users -> Orgs \cup {Unscoped, None}]
           /\ page' \in [Users -> Page]
           /\ \A v \in Users : (page'[v].at = "set") = (page'[v].pick # None)
           /\ signins' \in 0..MaxSignIns /\ faults' \in 0..MaxFaults
           /\ UNCHANGED <<user, org, member, settings, domain, warm, flag, cli, invited,
                          broken, runs, req, edits, requests>>
  <1>0. /\ page \in [Users -> Page]
        /\ \A v \in Users : (page[v].at = "set") = (page[v].pick # None)
        /\ session \in [Users -> Orgs \cup {Unscoped, None}]
        /\ signins \in 0..MaxSignIns /\ faults \in 0..MaxFaults
        /\ member \subseteq Row
    BY DEF TypeInv, TypeOK, PTypeOK
  <1>1. ASSUME NEW p \in Page, p.at # "set" => p.pick = None, p.at = "set" => p.pick \in Orgs,
               Show(u, p)
        PROVE  /\ page' \in [Users -> Page]
               /\ \A v \in Users : (page'[v].at = "set") = (page'[v].pick # None)
    BY <1>0, <1>1, NoneIsApart DEF Show
  <1>2. ASSUME NEW p \in Page
        PROVE  Layout(p) \in Page /\ Layout(p).at # "set" /\ Layout(p).pick = None
    BY DEF Layout, Page, PageAt
  <1>3. ASSUME NEW p \in Page, NEW yes \in BOOLEAN, NEW sure \in BOOLEAN
        PROVE  /\ Answer(p, yes, sure) \in Page
               /\ Answer(p, yes, sure).at # "set" /\ Answer(p, yes, sure).pick = None
    BY <1>2 DEF Answer, Page, PageAt
  <1>4. Login \in Page /\ Login.at # "set" /\ Login.pick = None
    BY DEF Login, Page, PageAt
  <1>5. CASE SignIn(u)
    <2>1. [page[u] EXCEPT !.at = "ask", !.first = TRUE] \in Page
      BY <1>0 DEF Page, PageAt
    <2>2. [page[u] EXCEPT !.at = "ask", !.first = TRUE].pick = None
      BY <1>0, <1>5 DEF SignIn, Page
    <2>3. [page[u] EXCEPT !.at = "ask", !.first = TRUE].at = "ask"
      BY <1>0 DEF Page
    <2>4. /\ page' \in [Users -> Page]
          /\ \A v \in Users : (page'[v].at = "set") = (page'[v].pick # None)
      BY <1>1, <1>5, <2>1, <2>2, <2>3 DEF SignIn
    <2>5. signins' \in 0..MaxSignIns
      BY <1>0, <1>5, AccessBounds DEF SignIn
    <2>6. session' \in [Users -> Orgs \cup {Unscoped, None}]
      BY <1>0, <1>5 DEF SignIn
    <2> QED
      BY <1>0, <1>5, <2>4, <2>5, <2>6 DEF SignIn, Browsing, pvars
  <1>6. CASE AskSession(u)
    <2>1. /\ [page[u] EXCEPT !.at = "list"] \in Page
          /\ [page[u] EXCEPT !.at = "list"].at = "list"
          /\ [page[u] EXCEPT !.at = "list"].pick = None
      BY <1>0, <1>6 DEF AskSession, Page, PageAt
    <2> QED
      BY <1>0, <1>1, <1>3, <1>6, <2>1 DEF AskSession, Browsing, pvars
  <1>7. CASE ListOrganizations(u)
    <2>1. OrgsOf(u) \subseteq Orgs
      BY <1>0 DEF OrgsOf, Row
    <2>2. ASSUME NEW o \in OrgsOf(u)
          PROVE  /\ [page[u] EXCEPT !.at = "set", !.pick = o] \in Page
                 /\ [page[u] EXCEPT !.at = "set", !.pick = o].at = "set"
                 /\ [page[u] EXCEPT !.at = "set", !.pick = o].pick = o
      BY <1>0, <2>1 DEF Page, PageAt
    <2>3. CASE session[u] = None \/ OrgsOf(u) = {}
      BY <1>0, <1>1, <1>3, <1>7, <2>3 DEF ListOrganizations, Browsing, pvars
    <2>4. CASE ~(session[u] = None \/ OrgsOf(u) = {})
      <3>1. PICK o \in OrgsOf(u) : Show(u, [page[u] EXCEPT !.at = "set", !.pick = o])
        BY <1>7, <2>4 DEF ListOrganizations
      <3>2. o \in Orgs
        BY <2>1
      <3> QED
        BY <1>0, <1>1, <1>7, <2>2, <3>1, <3>2 DEF ListOrganizations, Browsing, pvars
    <2> QED
      BY <2>3, <2>4
  <1>8. CASE SetActive(u)
    <2>1. page[u].pick \in Orgs
      BY <1>0, <1>8 DEF SetActive, Page
    <2>2. session' \in [Users -> Orgs \cup {Unscoped, None}]
      BY <1>0, <1>8, <2>1 DEF SetActive
    <2>3. (session[u] # None /\ page[u].pick \in OrgsOf(u)) \in BOOLEAN
      OBVIOUS
    <2> QED
      BY <1>0, <1>1, <1>3, <1>8, <2>2, <2>3 DEF SetActive, Browsing, pvars
  <1>9. CASE CallFails(u)
    <2>1. faults' \in 0..MaxFaults
      BY <1>0, <1>9, RunBounds DEF CallFails
    <2>2. (page[u].at = "set") \in BOOLEAN
      OBVIOUS
    <2>3. /\ page' \in [Users -> Page]
          /\ \A v \in Users : (page'[v].at = "set") = (page'[v].pick # None)
      BY <1>0, <1>1, <1>3, <1>9, <2>2 DEF CallFails
    <2> QED
      BY <1>0, <1>9, <2>1, <2>3 DEF CallFails
  <1>10. CASE BeforeLoad(u)
    <2>1. /\ [page[u] EXCEPT !.at = "login"] \in Page
          /\ [page[u] EXCEPT !.at = "login"].at = "login"
          /\ [page[u] EXCEPT !.at = "login"].pick = None
      BY <1>0, <1>10 DEF BeforeLoad, Page, PageAt
    <2> QED
      BY <1>0, <1>1, <1>10, <2>1 DEF BeforeLoad, Browsing, pvars
  <1>11. CASE Forget(u) \/ Reload(u)
    BY <1>0, <1>1, <1>2, <1>4, <1>11 DEF Forget, Reload, Browsing, pvars
  <1>12. CASE SignOut(u)
    BY <1>0, <1>1, <1>4, <1>12 DEF SignOut, Browsing, pvars
  <1>13. CASE SessionEnds(u)
    BY <1>0, <1>13 DEF SessionEnds, Browsing, pvars
  <1> QED
    BY <1>5, <1>6, <1>7, <1>8, <1>9, <1>10, <1>11, <1>12, <1>13 DEF Browser

LEMMA ServerTypes ==
    ASSUME TypeInv, NEW u \in Users, Server(u)
    PROVE  /\ PTypeOK'
           /\ page' \in [Users -> Page]
           /\ \A v \in Users : (page'[v].at = "set") = (page'[v].pick # None)
           /\ req' \in [Users -> Request]
           /\ \A v \in Users : ReqInv(req'[v])
           /\ requests' \in 0..MaxRequests
           /\ UNCHANGED <<user, org, member, flag, cli, invited, session, edits, signins>>
  <1> DEFINE PageTyped ==
               /\ page \in [Users -> Page]
               /\ \A v \in Users : (page[v].at = "set") = (page[v].pick # None)
             ReqTyped == req \in [Users -> Request] /\ \A v \in Users : ReqInv(req[v])
             r == req[u]
  <1>0. /\ PTypeOK
        /\ PageTyped
        /\ ReqTyped
        /\ r \in Request /\ ReqInv(r)
        /\ requests \in 0..MaxRequests
    BY DEF TypeInv, TypeOK
  <1>1. ASSUME NEW what \in Asked, NEW d \in Domains \cup {None}, NEW set \in 0..1,
               Send(u, what, d, set)
        PROVE  PTypeOK' /\ PageTyped' /\ ReqTyped' /\ requests' \in 0..MaxRequests
    <2> DEFINE n == [at |-> "session", org |-> None, what |-> what, dom |-> d, set |-> set]
    <2>1. n \in Request /\ ReqInv(n)
      BY DEF Request, ReqInv
    <2>2. req' = [req EXCEPT ![u] = n]
      BY <1>1 DEF Send
    <2> HIDE DEF n
    <2>3. ReqTyped'
      BY <1>0, <2>1, <2>2
    <2>4. requests' \in 0..MaxRequests
      BY <1>0, <1>1, AccessBounds DEF Send
    <2> QED
      BY <1>0, <1>1, <2>3, <2>4 DEF Send, Serving, PTypeOK, pvars
  <1>2. CASE ReadSession(u)
    <2>1. ReqTyped'
      <3>1. CASE session[u] \in Orgs
        <4>1. req' = [req EXCEPT ![u].at = "member", ![u].org = session[u]]
          BY <1>2, <3>1 DEF ReadSession
        <4>2. [r EXCEPT !.at = "member", !.org = session[u]] \in Request
          BY <1>0, <3>1 DEF Request
        <4>3. ReqInv([r EXCEPT !.at = "member", !.org = session[u]])
          BY <1>0, <1>2, <3>1 DEF Request, ReqInv, ReadSession
        <4> QED
          BY <1>0, <4>1, <4>2, <4>3
      <3>2. CASE session[u] \notin Orgs
        BY <1>2, <3>2, ReqAnswered DEF ReadSession
      <3> QED
        BY <3>1, <3>2
    <2>2. Login \in Page /\ Login.at # "set" /\ Login.pick = None
      BY DEF Login, Page, PageAt
    <2>3. PageTyped'
      BY <1>0, <1>2, <2>2 DEF ReadSession, Show
    <2> QED
      BY <1>0, <1>2, <2>1, <2>3 DEF ReadSession, PTypeOK, pvars
  <1>3. CASE ReadMembership(u)
    <2>1. ReqTyped'
      BY <1>3, ReqAnswered, ReqGoing DEF ReadMembership
    <2> QED
      BY <1>0, <1>3, <2>1 DEF ReadMembership, PTypeOK, pvars, Serving
  <1>4. CASE Act(u)
    <2>1. r.dom # None => r.dom \in Domains
      BY <1>0 DEF Request
    <2>2. ReqTyped'
      BY <1>4, <2>1, ReqAnswered, ReqGoing DEF Act
    <2> QED
      BY <1>0, <1>4, <2>2 DEF Act, PTypeOK, pvars, Serving
  <1>5. CASE PostSettings(u)
    <2>1. r.dom \in Domains /\ r.org \in Orgs /\ r.set \in 0..1
      BY <1>0, <1>5 DEF PostSettings, Request, ReqInv
    <2>2. ReqTyped'
      BY <1>5, <2>1, ReqAnswered, ReqGoing DEF PostSettings
    <2>3. settings' \in [Orgs -> Setting]
      BY <1>0, <1>5, <2>1 DEF PostSettings, PTypeOK, Setting
    <2> QED
      BY <1>0, <1>5, <2>2, <2>3 DEF PostSettings, PTypeOK, Serving
  <1>6. CASE PostDomain(u) \/ PostRebuild(u)
    <2>1. r.dom \in Domains /\ r.org \in Orgs
      BY <1>0, <1>6 DEF PostDomain, PostRebuild, Request, ReqInv
    <2>2. ReqTyped'
      BY <1>6, <2>1, ReqAnswered, ReqGoing DEF PostDomain, PostRebuild
    <2> QED
      BY <1>0, <1>6, <2>1, <2>2 DEF PostDomain, PostRebuild, PTypeOK, Serving
  <1>7. CASE RequestDies(u) \/ PostDomainFails(u)
    <2>1. r.org \in Orgs /\ (r.at = "sync" => r.dom \in Domains)
      BY <1>0, <1>7 DEF RequestDies, PostDomainFails, Request, ReqInv
    <2>2. ReqTyped'
      BY <1>7, <2>1, ReqAnswered, ReqGoing DEF RequestDies, PostDomainFails
    <2>3. faults' \in 0..MaxFaults /\ broken' \subseteq Orgs
      BY <1>0, <1>7, <2>1, FaultTypes DEF RequestDies, PostDomainFails
    <2> QED
      BY <1>0, <1>7, <2>2, <2>3 DEF RequestDies, PostDomainFails, PTypeOK, Serving, tables
  <1>8. UNCHANGED <<user, org, member, flag, cli, invited, session, edits, signins>>
    BY DEF Server, Send, ReadSession, ReadMembership, Act, PostSettings, PostDomain,
           PostRebuild, RequestDies, PostDomainFails, Serving, pvars, tables
  <1> QED
    BY <1>0, <1>1, <1>2, <1>3, <1>4, <1>5, <1>6, <1>7, <1>8 DEF Server

LEMMA MembershipTypes ==
    ASSUME TypeInv, Membership
    PROVE  /\ member' \subseteq Row
           /\ edits' \in 0..MaxEdits
           /\ UNCHANGED <<user, org, settings, domain, warm, flag, cli, invited, broken, runs,
                          faults, session, page, req, signins, requests>>
  <1>0. member \subseteq Row /\ edits \in 0..MaxEdits
    BY DEF TypeInv, TypeOK, PTypeOK
  <1>1. ASSUME NEW rows, rows \subseteq Row, Edit(rows)
        PROVE  /\ member' \subseteq Row
               /\ edits' \in 0..MaxEdits
               /\ UNCHANGED <<user, org, settings, domain, warm, flag, cli, invited, broken, runs,
                              faults, session, page, req, signins, requests>>
    BY <1>0, <1>1, AccessBounds DEF Edit
  <1>2. ASSUME NEW m \in member, NEW role \in Given
        PROVE  (member \ {m}) \cup {[m EXCEPT !.role = role]} \subseteq Row
    BY <1>0, <1>2, GivenRoles DEF Row
  <1>3. ASSUME NEW u \in Users, NEW o \in Orgs, NEW role \in Given
        PROVE  member \cup {[id |-> MaxRuns + edits + 1, user |-> u, org |-> o, role |-> role]}
                 \subseteq Row
    BY <1>0, <1>3, GivenRoles, AccessBounds, RunBounds DEF Row
  <1>4. \A m \in member : member \ {m} \subseteq Row
    BY <1>0
  <1> QED
    BY <1>1, <1>2, <1>3, <1>4 DEF Membership, SetRole, RemoveMember, Join

LEMMA HeldTypes ==
    ASSUME TypeInv, member' \subseteq Row,
           held' = [u \in Users |-> (IF req[u] = NoRequest THEN {} ELSE held[u]) \cup Granting(u)']
    PROVE  held' \in [Users -> SUBSET Orgs]
  <1>1. \A u \in Users : Granting(u)' \subseteq Orgs
    BY DEF Granting, Row
  <1> QED
    BY <1>1 DEF TypeInv, TypeOK


LEMMA TypeStep ==
    ASSUME TypeInv, [Next]_vars
    PROVE  TypeInv'
  <1> DEFINE Typed ==
               /\ PTypeOK
               /\ \A p \in Clis : CliInv(cli[p])
               /\ session \in [Users -> Orgs \cup {Unscoped, None}]
               /\ page \in [Users -> Page]
               /\ \A v \in Users : (page[v].at = "set") = (page[v].pick # None)
               /\ req \in [Users -> Request]
               /\ \A v \in Users : ReqInv(req[v])
               /\ edits \in 0..MaxEdits /\ signins \in 0..MaxSignIns
               /\ requests \in 0..MaxRequests
  <1>0. Typed
    BY DEF TypeInv, TypeOK
  <1>1. CASE UNCHANGED vars
    BY <1>1 DEF TypeInv, TypeOK, PTypeOK, vars, pvars, avars, On
  <1>2. CASE Next
    <2>1. ASSUME PNext, UNCHANGED <<session, page, req, edits, signins, requests>>
          PROVE  Typed'
      BY <1>0, <2>1, PTypes
    <2>2. ASSUME NEW u \in Users, Browser(u)
          PROVE  Typed'
      BY <1>0, <2>2, BrowserTypes DEF PTypeOK
    <2>3. ASSUME NEW u \in Users, Server(u)
          PROVE  Typed'
      BY <1>0, <2>3, ServerTypes
    <2>4. ASSUME Membership
          PROVE  Typed'
      BY <1>0, <2>4, MembershipTypes DEF PTypeOK
    <2>5. Typed'
      BY <1>2, <2>1, <2>2, <2>3, <2>4 DEF Next
    <2>6. held' \in [Users -> SUBSET Orgs]
      BY <1>2, <2>5, HeldTypes DEF Next, PTypeOK
    <2>7. \A p \in Clis : (On(p, "idle") => cli[p] = Quiet)'
      BY <2>5 DEF On, CliInv
    <2> QED
      BY <2>5, <2>6, <2>7 DEF TypeInv, TypeOK
  <1> QED
    BY <1>1, <1>2

-----------------------------------------------------------------------------
(* The gate of sign-ups. *)

LEMMA GateStep ==
    ASSUME TypeInv, GateInv, [Next]_vars
    PROVE  GateInv'
  <1>0. /\ flag \in [Process -> BOOLEAN]
        /\ cli \in [Clis -> Cli]
    BY DEF TypeInv, TypeOK, PTypeOK
  <1>1. CASE UNCHANGED <<user, flag, cli, invited>>
    BY <1>1 DEF GateInv
  <1>2. ASSUME NEW u \in Users, PublicSignUp(u)
        PROVE  GateInv'
    BY <1>0, <1>2 DEF PublicSignUp, Hook, Permission, GateInv, Process
  <1>3. ASSUME NEW p \in Clis, CommandLine(p)
        PROVE  GateInv'
    <2>1. ASSUME NEW u \in Users, CreateUser(p, u)
          PROVE  GateInv'
      BY <1>0, <2>1, ApiIsApart DEF CreateUser, GateInv, tables, Process
    <2>2. CASE SignUpOnce(p)
      <3>1. cli'[p].at = "idle" /\ \A q \in Clis \ {p} : cli'[q] = cli[q]
        BY <2>2, Exiting DEF SignUpOnce, Quiet
      <3>2. ~flag'["api"]
        BY <1>0, <2>2, ApiIsApart DEF SignUpOnce, Hook, GateInv, Process
      <3>3. user' \subseteq invited' /\ invited' = invited
        BY <2>2 DEF SignUpOnce, Hook, GateInv, On
      <3> QED
        BY <3>1, <3>2, <3>3 DEF GateInv
    <2>3. ASSUME NEW u \in Users, NEW o \in Orgs, NEW d \in Domains, Provision(p, u, o, d)
          PROVE  GateInv'
      BY <1>0, <2>3 DEF Provision, GateInv, tables
    <2>4. CASE \/ FindClash(p) \/ FindOrganization(p) \/ InsertOrganization(p)
               \/ FindMembership(p) \/ InsertMember(p) \/ UpsertSettings(p) \/ SyncDomain(p)
               \/ Rebuild(p) \/ SyncFails(p)
      <3>1. UNCHANGED <<user, flag, invited>>
        BY <2>4 DEF FindClash, FindOrganization, InsertOrganization, FindMembership,
                    InsertMember, UpsertSettings, SyncDomain, Rebuild, SyncFails, tables
      <3>2. cli'[p].at # "hook" /\ \A q \in Clis \ {p} : cli'[q] = cli[q]
        BY <2>4, Going, Exiting
        DEF FindClash, FindOrganization, InsertOrganization, FindMembership, InsertMember,
            UpsertSettings, SyncDomain, Rebuild, SyncFails, On, Stage, Quiet
      <3> QED
        BY <3>1, <3>2 DEF GateInv
    <2>5. CASE Kill(p)
      <3>1. cli'[p].at = "idle" /\ \A q \in Clis \ {p} : cli'[q] = cli[q]
        BY <2>5, Exiting DEF Kill, Quiet
      <3>2. ~flag'["api"]
        BY <1>0, <2>5, ApiIsApart DEF Kill, GateInv, Process
      <3> QED
        BY <2>5, <3>1, <3>2 DEF Kill, GateInv, tables
    <2> QED
      BY <1>3, <2>1, <2>2, <2>3, <2>4, <2>5 DEF CommandLine
  <1>4. ASSUME NEW u \in Users, Browser(u) \/ Server(u)
        PROVE  GateInv'
    BY <1>1, <1>4, BrowserTypes, ServerTypes
  <1>5. ASSUME Membership
        PROVE  GateInv'
    BY <1>1, <1>5, MembershipTypes
  <1> QED
    BY <1>1, <1>2, <1>3, <1>4, <1>5 DEF Next, PNext, vars, pvars

-----------------------------------------------------------------------------
(* The right to act. *)

Acting == {"act", "upsert", "sync", "rebuild"}

\* A request that acts after a step did so before, for the same organization, or
\* has just been granted its right.
LEMMA RightSource ==
    ASSUME TypeInv, [Next]_vars, NEW u \in Users, req'[u].at \in Acting
    PROVE  \/ req[u].at \in Acting /\ req'[u].org = req[u].org
           \/ /\ member' = member
              /\ \E m \in member : /\ m.user = u /\ m.org = req'[u].org
                                   /\ req'[u].what # None /\ Allowed(m.role, req'[u].what)
  <1> USE DEF Acting
  <1>1. CASE UNCHANGED req
    BY <1>1
  <1>2. ASSUME NEW v \in Users, Server(v)
        PROVE  \/ UNCHANGED req
               \/ \A w \in Users \ {v} : req'[w] = req[w]
    <2>1. req \in [Users -> Request]
      BY DEF TypeInv, TypeOK
    <2> QED
      BY <1>2, <2>1 DEF Server, Send, ReadSession, ReadMembership, Act, PostSettings, PostDomain,
           PostRebuild, RequestDies, PostDomainFails, Answered, Goes
  <1>3. CASE Server(u)
    <2>0. req \in [Users -> Request] /\ ReqInv(req[u])
      BY DEF TypeInv, TypeOK
    <2>1. ASSUME NEW what \in Asked, NEW d \in Domains \cup {None}, NEW set \in 0..1,
                 Send(u, what, d, set)
          PROVE  FALSE
      BY <2>0, <2>1 DEF Send
    <2>2. CASE ReadSession(u)
      <3>1. CASE Answered(u)
        BY <2>0, <3>1 DEF Answered, NoRequest
      <3>2. CASE req' = [req EXCEPT ![u].at = "member", ![u].org = session[u]]
        <4>1. req'[u].at = "member"
          BY <2>0, <3>2 DEF Request
        <4> QED
          BY <4>1
      <3> QED
        BY <2>2, <3>1, <3>2 DEF ReadSession
    <2>3. CASE ReadMembership(u)
      <3>1. req'[u] # NoRequest
        BY DEF NoRequest
      <3>2. ~Answered(u)
        BY <2>0, <3>1 DEF Answered
      <3>3. PICK m \in MembershipOf(u) : Allowed(m.role, req[u].what) /\ Goes(u, "act")
        BY <2>3, <3>2 DEF ReadMembership
      <3>4. req'[u].org = req[u].org /\ req'[u].what = req[u].what
        BY <2>0, <3>3 DEF Goes, Request
      <3>5. req[u].what # None
        BY <2>0, <2>3, AccessApart DEF ReadMembership, ReqInv
      <3> QED
        BY <2>3, <3>3, <3>4, <3>5 DEF MembershipOf, ReadMembership, pvars
    <2>4. CASE Act(u) \/ PostSettings(u) \/ PostDomain(u) \/ PostRebuild(u) \/ RequestDies(u)
               \/ PostDomainFails(u)
      <3>1. req'[u] # NoRequest
        BY DEF NoRequest
      <3>2. ~Answered(u)
        BY <2>0, <3>1 DEF Answered
      <3>3. PICK s \in {"upsert", "sync", "rebuild"} : Goes(u, s) /\ req[u].at \in Acting
        BY <2>4, <3>2 DEF Act, PostSettings, PostDomain, PostRebuild, RequestDies,
                          PostDomainFails
      <3> QED
        BY <2>0, <3>3 DEF Goes, Request
    <2> QED
      BY <1>3, <2>1, <2>2, <2>3, <2>4 DEF Server
  <1> QED
    BY <1>1, <1>2, <1>3, BrowserTypes, MembershipTypes DEF Next, vars, avars

LEMMA RightStep ==
    ASSUME TypeInv, ActsWithRight, [Next]_vars
    PROVE  ActsWithRight'
  <1>1. CASE UNCHANGED vars
    BY <1>1 DEF ActsWithRight, vars, avars
  <1>2. CASE Next
    <2> SUFFICES ASSUME NEW u \in Users, req'[u].at \in Acting
                 PROVE  req'[u].org \in held'[u]
      BY DEF ActsWithRight, Acting
    <2>1. held'[u] = (IF req[u] = NoRequest THEN {} ELSE held[u]) \cup Granting(u)'
      BY <1>2 DEF Next
    <2>2. CASE req[u].at \in Acting /\ req'[u].org = req[u].org
      BY <2>1, <2>2 DEF ActsWithRight, Acting, NoRequest
    <2>3. ASSUME member' = member,
                 NEW m \in member, m.user = u, m.org = req'[u].org,
                 req'[u].what # None, Allowed(m.role, req'[u].what)
          PROVE  req'[u].org \in held'[u]
      <3>1. req'[u].org \in Granting(u)'
        BY <2>3 DEF Granting
      <3> QED
        BY <2>1, <3>1
    <2> QED
      BY <2>2, <2>3, RightSource
  <1> QED
    BY <1>1, <1>2

-----------------------------------------------------------------------------
(* Setting a tenant up. *)

\* From w to z, a process forgets nothing it owes o: it registers the domain and
\* builds the cache, or a fault is on record.
Pays(w, z, o) ==
    /\ \A d \in Domains : Registers(w, o, d) => Registers(z, o, d) \/ d \in domain' \/ o \in broken'
    /\ Warms(w, o) => Warms(z, o) \/ o \in warm' \/ o \in broken'

LEMMA SetUpKept ==
    ASSUME TypeInv, NEW o \in Orgs, SetUp(o),
           settings'[o] = settings[o], domain \subseteq domain', warm \subseteq warm',
           broken \subseteq broken',
           \A p \in Clis : Pays(cli[p], cli'[p], o),
           \A u \in Users : Pays(req[u], req'[u], o)
    PROVE  SetUp(o)'
  <1> SUFFICES ASSUME settings[o].dom # None, settings[o].set # 0, o \notin broken'
               PROVE  Known(o)' /\ Warm(o)'
    BY DEF SetUp
  <1>1. settings[o].dom \in Domains
    BY DEF TypeInv, TypeOK, PTypeOK, Setting
  <1>2. Known(o) /\ Warm(o)
    BY DEF SetUp
  <1>3. Known(o)'
    BY <1>1, <1>2 DEF Known, Pays
  <1>4. Warm(o)'
    BY <1>2 DEF Warm, Pays
  <1> QED
    BY <1>3, <1>4

LEMMA PaysNothing == \A w, o : Pays(w, w, o)
  BY DEF Pays

LEMMA PaysIdle ==
    ASSUME NEW w, NEW z, NEW o, w.at \notin {"sync", "rebuild"}
    PROVE  Pays(w, z, o)
  BY DEF Pays, Registers, Warms

\* One command line moves, and the settings stay.
LEMMA CliKeeps ==
    ASSUME TypeInv, NEW o \in Orgs, SetUp(o), NEW p \in Clis, Pays(cli[p], cli'[p], o),
           \A q \in Clis \ {p} : cli'[q] = cli[q],
           settings' = settings, domain \subseteq domain', warm \subseteq warm',
           broken \subseteq broken', req' = req
    PROVE  SetUp(o)'
  BY SetUpKept, PaysNothing

LEMMA CliSetUp ==
    ASSUME TypeInv, NEW o \in Orgs, SetUp(o), NEW p \in Clis, CommandLine(p), req' = req
    PROVE  SetUp(o)'
  <1>0. /\ cli \in [Clis -> Cli]
        /\ settings \in [Orgs -> Setting]
        /\ CliInv(cli[p])
    BY DEF TypeInv, TypeOK, PTypeOK
  <1>1. ASSUME NEW u \in Users, CreateUser(p, u)
        PROVE  SetUp(o)'
    <2>1. cli[p].at = "idle" /\ \A q \in Clis \ {p} : cli'[q] = cli[q]
      BY <1>0, <1>1 DEF CreateUser, On
    <2> QED
      BY <1>1, <2>1, PaysIdle, CliKeeps DEF CreateUser, tables
  <1>2. ASSUME NEW u \in Users, NEW g \in Orgs, NEW d \in Domains, Provision(p, u, g, d)
        PROVE  SetUp(o)'
    <2>1. cli[p].at = "idle" /\ \A q \in Clis \ {p} : cli'[q] = cli[q]
      BY <1>0, <1>2 DEF Provision, On
    <2> QED
      BY <1>2, <2>1, PaysIdle, CliKeeps DEF Provision, tables
  <1>3. CASE \/ SignUpOnce(p) \/ FindClash(p) \/ FindOrganization(p) \/ InsertOrganization(p)
             \/ FindMembership(p) \/ InsertMember(p)
    <2>1. cli[p].at \notin {"sync", "rebuild"}
      BY <1>3 DEF SignUpOnce, FindClash, FindOrganization, InsertOrganization, FindMembership,
                  InsertMember, On
    <2>2. \A q \in Clis \ {p} : cli'[q] = cli[q]
      BY <1>0, <1>3
      DEF SignUpOnce, FindClash, FindOrganization, InsertOrganization, FindMembership,
          InsertMember, Go, Exit
    <2>3. UNCHANGED <<settings, domain, warm, broken>>
      BY <1>3 DEF SignUpOnce, FindClash, FindOrganization, InsertOrganization, FindMembership,
                  InsertMember, tables
    <2> QED
      BY <2>1, <2>2, <2>3, PaysIdle, CliKeeps
  <1>4. CASE UpsertSettings(p)
    <2>1. cli[p].at = "upsert" /\ UNCHANGED <<domain, warm, broken>>
      BY <1>4 DEF UpsertSettings, On
    <2>2. \A q \in Clis \ {p} : cli'[q] = cli[q]
      BY <1>0, <1>4 DEF UpsertSettings, Go, Exit
    <2>3. Pays(cli[p], cli'[p], o)
      BY <2>1, PaysIdle
    <2>4. CASE settings' = settings
      BY <2>1, <2>2, <2>3, <2>4, CliKeeps
    <2>5. CASE settings' = [settings EXCEPT ![cli[p].org].dom = cli[p].dom] /\ Go(p, "sync")
      <3>1. CASE o = cli[p].org
        <4>1. cli'[p].at = "sync" /\ cli'[p].org = o /\ cli'[p].dom = cli[p].dom
          BY <2>1, <2>5, <3>1, Going DEF Stage
        <4>2. settings'[o].dom = cli[p].dom
          BY <1>0, <2>5, <3>1 DEF Setting
        <4> QED
          BY <4>1, <4>2 DEF SetUp, Known, Warm, Registers, Warms
      <3>2. CASE o # cli[p].org
        <4>1. settings'[o] = settings[o]
          BY <1>0, <2>5, <3>2
        <4> QED
          BY <2>1, <2>2, <2>3, <4>1, SetUpKept, PaysNothing
      <3> QED
        BY <3>1, <3>2
    <2> QED
      BY <1>4, <2>4, <2>5 DEF UpsertSettings
  <1>5. CASE SyncDomain(p)
    <2>1. /\ cli[p].at = "sync" /\ cli'[p].at = "rebuild" /\ cli'[p].org = cli[p].org
          /\ \A q \in Clis \ {p} : cli'[q] = cli[q]
      BY <1>5, Going DEF SyncDomain, On, Stage
    <2>2. Pays(cli[p], cli'[p], o)
      BY <1>5, <2>1 DEF SyncDomain, Pays, Registers, Warms
    <2> QED
      BY <1>5, <2>1, <2>2, CliKeeps DEF SyncDomain
  <1>6. CASE Rebuild(p)
    <2>1. cli[p].at = "rebuild" /\ \A q \in Clis \ {p} : cli'[q] = cli[q]
      BY <1>6, Exiting DEF Rebuild, On
    <2>2. Pays(cli[p], cli'[p], o)
      BY <1>6, <2>1 DEF Rebuild, Pays, Registers, Warms
    <2> QED
      BY <1>6, <2>1, <2>2, CliKeeps DEF Rebuild
  <1>7. CASE Kill(p) \/ SyncFails(p)
    <2>1. \A q \in Clis \ {p} : cli'[q] = cli[q]
      BY <1>0, <1>7 DEF Kill, SyncFails, Go, Exit
    <2>2. broken' = broken \cup ({cli[p].org} \ {None})
      BY <1>7 DEF Kill, SyncFails, PFault
    <2>3. Pays(cli[p], cli'[p], o)
      BY <2>2, NoneIsApart DEF Pays, Registers, Warms
    <2> QED
      BY <1>7, <2>1, <2>2, <2>3, CliKeeps DEF Kill, SyncFails, tables
  <1> QED
    BY <1>1, <1>2, <1>3, <1>4, <1>5, <1>6, <1>7 DEF CommandLine

\* One request moves, and the settings stay.
LEMMA ReqKeeps ==
    ASSUME TypeInv, NEW o \in Orgs, SetUp(o), NEW u \in Users, Pays(req[u], req'[u], o),
           \A v \in Users \ {u} : req'[v] = req[v],
           settings' = settings, domain \subseteq domain', warm \subseteq warm',
           broken \subseteq broken', cli' = cli
    PROVE  SetUp(o)'
  BY SetUpKept, PaysNothing

LEMMA ServerSetUp ==
    ASSUME TypeInv, NEW o \in Orgs, SetUp(o), NEW u \in Users, Server(u)
    PROVE  SetUp(o)'
  <1>0. /\ req \in [Users -> Request]
        /\ settings \in [Orgs -> Setting]
        /\ ReqInv(req[u])
        /\ cli' = cli
    BY ServerTypes DEF TypeInv, TypeOK, PTypeOK
  <1>1. \A v \in Users \ {u} : req'[v] = req[v]
    BY <1>0 DEF Server, Send, ReadSession, ReadMembership, Act, PostSettings, PostDomain,
                PostRebuild, RequestDies, PostDomainFails, Answered, Goes
  <1>2. ASSUME NEW what \in Asked, NEW d \in Domains \cup {None}, NEW set \in 0..1,
               Send(u, what, d, set)
        PROVE  SetUp(o)'
    <2>1. req[u].at = "idle"
      BY <1>2 DEF Send, NoRequest
    <2> QED
      BY <1>0, <1>1, <1>2, <2>1, PaysIdle, ReqKeeps DEF Send, pvars
  <1>3. CASE ReadSession(u) \/ ReadMembership(u) \/ Act(u)
    <2>1. req[u].at \notin {"sync", "rebuild"} /\ UNCHANGED pvars
      BY <1>3 DEF ReadSession, ReadMembership, Act
    <2> QED
      BY <1>0, <1>1, <2>1, PaysIdle, ReqKeeps DEF pvars
  <1>4. CASE PostSettings(u)
    <2>1. req[u].at = "upsert" /\ UNCHANGED <<domain, warm, broken>>
      BY <1>4 DEF PostSettings
    <2>2. Pays(req[u], req'[u], o)
      BY <2>1, PaysIdle
    <2>3. CASE settings' = settings
      BY <1>0, <1>1, <2>1, <2>2, <2>3, ReqKeeps
    <2>4. CASE /\ settings' = [settings EXCEPT ![req[u].org]
                                 = [dom |-> req[u].dom, set |-> req[u].set]]
               /\ IF req[u].set = 0 THEN Answered(u) ELSE Goes(u, "sync")
      <3>1. CASE o = req[u].org /\ req[u].set # 0
        <4>1. req'[u].at = "sync" /\ req'[u].org = o /\ req'[u].dom = req[u].dom
          BY <1>0, <2>1, <2>4, <3>1, ReqGoing DEF ReqInv
        <4>2. settings'[o].dom = req[u].dom
          BY <1>0, <2>4, <3>1
        <4> QED
          BY <4>1, <4>2 DEF SetUp, Known, Warm, Registers, Warms
      <3>2. CASE o = req[u].org /\ req[u].set = 0
        <4>1. settings'[o].set = 0
          BY <1>0, <2>4, <3>2
        <4> QED
          BY <4>1 DEF SetUp
      <3>3. CASE o # req[u].org
        <4>1. settings'[o] = settings[o]
          BY <1>0, <2>4, <3>3
        <4> QED
          BY <1>0, <1>1, <2>1, <2>2, <4>1, SetUpKept, PaysNothing
      <3> QED
        BY <3>1, <3>2, <3>3
    <2> QED
      BY <1>4, <2>3, <2>4 DEF PostSettings
  <1>5. CASE PostDomain(u)
    <2>1. req[u].at = "sync" /\ req'[u].at = "rebuild" /\ req'[u].org = req[u].org
      BY <1>0, <1>5, ReqGoing DEF PostDomain, ReqInv
    <2>2. Pays(req[u], req'[u], o)
      BY <1>5, <2>1 DEF PostDomain, Pays, Registers, Warms
    <2> QED
      BY <1>0, <1>1, <1>5, <2>2, ReqKeeps DEF PostDomain
  <1>6. CASE PostRebuild(u)
    <2>1. Pays(req[u], req'[u], o)
      BY <1>6 DEF PostRebuild, Pays, Registers, Warms
    <2> QED
      BY <1>0, <1>1, <1>6, <2>1, ReqKeeps DEF PostRebuild
  <1>7. CASE RequestDies(u) \/ PostDomainFails(u)
    <2>1. broken' = broken \cup ({req[u].org} \ {None})
      BY <1>7 DEF RequestDies, PostDomainFails, PFault
    <2>2. Pays(req[u], req'[u], o)
      BY <2>1, NoneIsApart DEF Pays, Registers, Warms
    <2> QED
      BY <1>0, <1>1, <1>7, <2>1, <2>2, ReqKeeps DEF RequestDies, PostDomainFails, tables
  <1> QED
    BY <1>2, <1>3, <1>4, <1>5, <1>6, <1>7 DEF Server

LEMMA SetUpStep ==
    ASSUME TypeInv, [Next]_vars, NEW o \in Orgs, SetUp(o)
    PROVE  SetUp(o)'
  <1>1. CASE UNCHANGED <<settings, domain, warm, broken, cli, req>>
    BY <1>1, SetUpKept, PaysNothing
  <1>2. ASSUME NEW u \in Users, PublicSignUp(u), req' = req
        PROVE  SetUp(o)'
    BY <1>1, <1>2 DEF PublicSignUp
  <1>3. ASSUME NEW u \in Users, Browser(u)
        PROVE  SetUp(o)'
    BY <1>1, <1>3, BrowserTypes
  <1>4. ASSUME Membership
        PROVE  SetUp(o)'
    BY <1>1, <1>4, MembershipTypes
  <1> QED
    BY <1>1, <1>2, <1>3, <1>4, CliSetUp, ServerSetUp DEF Next, PNext, vars, pvars, avars

-----------------------------------------------------------------------------
(* What the page shows. *)

LEMMA ScopeStep ==
    ASSUME TypeInv, AppIsScoped, [Next]_vars
    PROVE  AppIsScoped'
  <1>0. /\ session \in [Users -> Orgs \cup {Unscoped, None}]
        /\ page \in [Users -> Page]
        /\ Unscoped \notin Orgs
    BY AccessApart DEF TypeInv, TypeOK
  <1>1. ASSUME NEW p \in Page
        PROVE  ~(Layout(p).at = "app" /\ Layout(p).sure)
    BY DEF Layout, Page
  <1>2. ASSUME NEW p \in Page, NEW yes \in BOOLEAN, NEW sure \in BOOLEAN,
               Answer(p, yes, sure).at = "app", Answer(p, yes, sure).sure
        PROVE  yes /\ sure
    BY <1>1, <1>2 DEF Answer, Page
  <1>3. ASSUME NEW u \in Users, \A v \in Users \ {u} : page'[v] = page[v] /\ session'[v] = session[v],
               page'[u].at = "app" /\ page'[u].sure /\ session'[u] # None => session'[u] # Unscoped
        PROVE  AppIsScoped'
    BY <1>3 DEF AppIsScoped
  <1>4. CASE UNCHANGED <<session, page>>
    BY <1>4 DEF AppIsScoped
  <1>5. ASSUME NEW u \in Users, Browser(u)
        PROVE  AppIsScoped'
    <2>1. \A v \in Users \ {u} : page'[v] = page[v] /\ session'[v] = session[v]
      BY <1>0, <1>5 DEF Browser, SignIn, AskSession, ListOrganizations, SetActive, CallFails,
                        BeforeLoad, Forget, Reload, SignOut, SessionEnds, Show
    <2> SUFFICES ASSUME page'[u].at = "app", page'[u].sure, session'[u] # None
                 PROVE  session'[u] # Unscoped
      BY <1>3, <2>1
    <2>2. Login.at = "login" /\ Login \in Page
      BY DEF Login, Page, PageAt
    <2>3. ~SignIn(u) /\ ~BeforeLoad(u) /\ ~Forget(u) /\ ~Reload(u) /\ ~SignOut(u)
      <3>1. ~SignIn(u) /\ ~BeforeLoad(u)
        <4>1. /\ [page[u] EXCEPT !.at = "ask", !.first = TRUE].at = "ask"
              /\ [page[u] EXCEPT !.at = "login"].at = "login"
          BY <1>0 DEF Page
        <4> QED
          BY <1>0, <4>1 DEF SignIn, BeforeLoad, Show
      <3>2. ~Forget(u) /\ ~SignOut(u)
        BY <1>0, <2>2 DEF Forget, SignOut, Show
      <3>3. ~Reload(u)
        BY <1>0, <1>1, <2>2 DEF Reload, Show
      <3> QED
        BY <3>1, <3>2, <3>3
    <2>4. CASE AskSession(u)
      <3>1. CASE session[u] \in Orgs
        BY <1>0, <2>4, <3>1 DEF AskSession
      <3>2. CASE session[u] \notin Orgs
        BY <1>0, <2>4, <3>2 DEF AskSession, Show, Page
      <3> QED
        BY <3>1, <3>2
    <2>5. CASE ListOrganizations(u)
      <3>1. ASSUME NEW o, Show(u, [page[u] EXCEPT !.at = "set", !.pick = o])
            PROVE  FALSE
        BY <1>0, <3>1 DEF Show, Page
      <3>2. page'[u] = Answer(page[u], FALSE, session[u] # None)
        BY <1>0, <2>5, <3>1 DEF ListOrganizations, Show
      <3> QED
        BY <1>0, <1>2, <3>2
    <2>6. CASE SetActive(u)
      <3> DEFINE accepted == session[u] # None /\ page[u].pick \in OrgsOf(u)
      <3>1. page'[u] = Answer(page[u], TRUE, accepted)
        BY <1>0, <2>6 DEF SetActive, Show
      <3>2. accepted
        BY <1>0, <1>2, <3>1
      <3>3. session'[u] = page[u].pick
        BY <1>0, <2>6, <3>2 DEF SetActive
      <3>4. OrgsOf(u) \subseteq Orgs
        BY DEF OrgsOf, Row, TypeInv, TypeOK, PTypeOK
      <3> QED
        BY <1>0, <3>2, <3>3, <3>4
    <2>7. CASE CallFails(u)
      <3>1. page'[u] = Answer(page[u], page[u].at = "set", FALSE)
        BY <1>0, <2>7 DEF CallFails, Show
      <3>2. page[u] \in Page /\ (page[u].at = "set") \in BOOLEAN
        BY <1>0
      <3> QED
        BY <1>2, <3>1, <3>2
    <2>8. CASE SessionEnds(u)
      BY <1>0, <2>8 DEF SessionEnds
    <2> QED
      BY <1>5, <2>3, <2>4, <2>5, <2>6, <2>7, <2>8 DEF Browser
  <1>6. ASSUME NEW u \in Users, Server(u)
        PROVE  AppIsScoped'
    <2>1. session' = session
      BY <1>6, ServerTypes
    <2>2. \/ page' = page
          \/ page' = [page EXCEPT ![u] = Login]
      BY <1>6 DEF Server, Send, ReadSession, ReadMembership, Act, PostSettings, PostDomain,
                  PostRebuild, RequestDies, PostDomainFails, Serving, Show
    <2>3. Login.at = "login"
      BY DEF Login
    <2> QED
      BY <1>0, <1>3, <1>4, <2>1, <2>2, <2>3
  <1>7. ASSUME Membership
        PROVE  AppIsScoped'
    BY <1>4, <1>7, MembershipTypes
  <1> QED
    BY <1>4, <1>5, <1>6, <1>7 DEF Next, vars, avars

-----------------------------------------------------------------------------
(* The invariant, and the theorems. *)

LEMMA InitIInv == Init => IInv
  <1> SUFFICES ASSUME Init PROVE IInv
    OBVIOUS
  <1>1. TypeOK
    BY RunBounds, AccessBounds
    DEF Init, PInit, TypeOK, PTypeOK, Setting, NoSetting, Cli, Quiet, Stage, On, Page, PageAt,
        Login, Request, NoRequest
  <1>2. /\ \A p \in Clis : CliInv(cli[p])
        /\ \A u \in Users : ReqInv(req[u])
    BY DEF Init, PInit, CliInv, ReqInv, Quiet, NoRequest
  <1>3. GateInv
    BY DEF Init, PInit, GateInv, Process, Quiet
  <1>4. ActsWithRight
    BY DEF Init, ActsWithRight, NoRequest
  <1>5. \A o \in Orgs : SetUp(o)
    BY DEF Init, PInit, SetUp, NoSetting
  <1>6. AppIsScoped
    BY DEF Init, AppIsScoped, Login
  <1> QED
    BY <1>1, <1>2, <1>3, <1>4, <1>5, <1>6 DEF IInv, TypeInv

LEMMA StepIInv == IInv /\ [Next]_vars => IInv'
  BY TypeStep, GateStep, RightStep, SetUpStep, ScopeStep DEF IInv

LEMMA Inductive == Spec => []IInv
  BY InitIInv, StepIInv, PTL DEF Spec

\* Types, and that a process which is done is back where it began, for every
\* number of users, organizations, domains and command lines.
THEOREM TypeCorrect == Spec => []TypeOK
  <1>1. IInv => TypeOK
    BY DEF IInv, TypeInv
  <1> QED
    BY <1>1, Inductive, PTL

\* signup-gate.ts: no account exists that no operator asked for, however many
\* command lines run while the API takes sign-ups.
THEOREM NoSelfServiceEver == Spec => []NoSelfService
  <1>1. IInv => NoSelfService
    BY DEF IInv, GateInv, NoSelfService
  <1> QED
    BY <1>1, Inductive, PTL

\* middleware/tenant.ts: whoever acts for an organization was granted it since
\* the request began, whatever roles and memberships become meanwhile.
THEOREM NobodyActsUngranted == Spec => []ActsWithRight
  <1>1. IInv => ActsWithRight
    BY DEF IInv
  <1> QED
    BY <1>1, Inductive, PTL

\* tenants.ts and provision-tenant.ts: command lines and requests that set one
\* tenant up together leave it known to Kamailio and the cache, or a fault is on
\* record.
THEOREM NoTenantLeftHalf == Spec => []NoHalfTenant
  <1>1. ASSUME NEW o \in Orgs, SetUp(o),
               \A p \in Clis : cli[p].org # o, \A u \in Users : req[u].org # o,
               settings[o].dom # None, settings[o].set # 0, o \notin broken
        PROVE  settings[o].dom \in domain /\ o \in warm
    BY <1>1 DEF SetUp, Known, Warm, Registers, Warms
  <1>2. IInv => NoHalfTenant
    BY <1>1 DEF IInv, NoHalfTenant
  <1> QED
    BY <1>2, Inductive, PTL

\* _app.tsx: an app page that was reached by asking, without a failed call, has
\* an organization as long as there is a session.
THEOREM PagesAreScoped == Spec => []AppIsScoped
  <1>1. IInv => AppIsScoped
    BY DEF IInv
  <1> QED
    BY <1>1, Inductive, PTL
=============================================================================
