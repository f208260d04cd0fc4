---------------------------- MODULE Provisioning ----------------------------
(***************************************************************************)
(* How accounts and tenants come into being: the operator's command lines  *)
(* portal/api/src/cli/create-user.ts and cli/provision-tenant.ts, and the  *)
(* gate in lib/signup-gate.ts that the hook of auth.ts asks.               *)
(*                                                                         *)
(* A command line is a process of its own: one query after the other on    *)
(* the database the API uses, without a transaction, and it may be run     *)
(* twice, stopped halfway, or overlap another one.  An organization is     *)
(* known by its slug here, which is unique in the database.                *)
(***************************************************************************)
EXTENDS Naturals

CONSTANTS
    Users,      \* e-mail addresses
    Orgs,       \* slugs of organizations
    Domains,    \* SIP domains
    Clis,       \* command lines that can be running
    None,
    MaxRuns,    \* bound of a behaviour: command lines started
    MaxFaults   \* bound of a behaviour: failed queries and killed processes

ASSUME NoneIsApart == None \notin Orgs \cup Domains \cup Users
ASSUME ApiIsApart == "api" \notin Clis
ASSUME RunBounds == MaxRuns \in Nat /\ MaxFaults \in Nat

VARIABLES
    user,       \* accounts
    org,        \* organizations
    member,     \* membership rows
    settings,   \* tenant_settings by organization: SIP domain and dispatcher set
    domain,     \* Kamailio's domain table
    warm,       \* organizations whose cache has been built
    flag,       \* allowed, of signup-gate.ts, in each process
    cli,        \* what each command line is at
    invited,    \* history: accounts an operator asked for
    broken,     \* history: organizations a fault hit while they were set up
    runs, faults

tables == <<user, org, member, settings, domain, warm>>
pvars == <<user, org, member, settings, domain, warm, flag, cli, invited, broken, runs, faults>>

Process == Clis \cup {"api"}

Role == {"owner", "admin", "member", "viewer", "other"}

\* Nothing but its id distinguishes two rows of one user in one organization.
Row == [id : Nat, user : Users, org : Orgs, role : Role]
Setting == [dom : Domains \cup {None}, set : 0..1]
NoSetting == [dom |-> None, set |-> 1]

Stage == {"idle", "hook", "clash", "org", "insertOrg", "membership", "insertMember", "upsert",
          "sync", "rebuild"}
Quiet == [at |-> "idle", id |-> 0, owner |-> None, org |-> None, dom |-> None]
Cli == [at : Stage, id : 0..MaxRuns, owner : Users \cup {None}, org : Orgs \cup {None},
        dom : Domains \cup {None}]

PInit ==
    /\ user = {} /\ org = {} /\ member = {}
    /\ settings = [o \in Orgs |-> NoSetting]
    /\ domain = {} /\ warm = {}
    /\ flag = [p \in Process |-> FALSE]
    /\ cli = [p \in Clis |-> Quiet]
    /\ invited = {} /\ broken = {}
    /\ runs = 0 /\ faults = 0

On(p, at) == cli[p].at = at
Go(p, at) == cli' = [cli EXCEPT ![p].at = at]
\* Mutant: the process is not told it is done.
Linger(p) == cli' = [cli EXCEPT ![p].at = "idle"]

Exit(p) == cli' = [cli EXCEPT ![p] = Quiet]

-----------------------------------------------------------------------------
(* create-user.ts *)

\* allowOneSignup, once no account with the address is found.
CreateUser(p, u) ==
    /\ On(p, "idle") /\ runs < MaxRuns
    /\ u \notin user
    /\ runs' = runs + 1
    /\ flag' = [flag EXCEPT ![p] = TRUE]
    /\ cli' = [cli EXCEPT ![p] = [at |-> "hook", id |-> 0, owner |-> u, org |-> None,
                               dom |-> None]]
    /\ invited' = invited \cup {u}
    /\ UNCHANGED <<tables, broken, faults>>

\* Mutant: the permission is kept where every process finds it.
SharedPermission(p) == \E q \in Process : flag[q]

\* consumeSignupPermission reads and clears the flag of its own process.
Permission(p) == flag[p]

\* auth.ts, before a user is created; user.email is unique.
Hook(p, u) ==
    /\ user' = IF Permission(p) THEN user \cup {u} ELSE user
    /\ flag' = [flag EXCEPT ![p] = FALSE]

SignUpOnce(p) ==
    /\ On(p, "hook")
    /\ Hook(p, cli[p].owner)
    /\ Exit(p)
    /\ UNCHANGED <<org, member, settings, domain, warm, invited, broken, runs, faults>>

\* A sign-up that reaches the API over HTTP runs the same hook, in its process.
PublicSignUp(u) ==
    /\ u \notin user
    /\ Hook("api", u)
    /\ UNCHANGED <<org, member, settings, domain, warm, cli, invited, broken, runs, faults>>

-----------------------------------------------------------------------------
(* provision-tenant.ts *)

Provision(p, u, o, d) ==
    /\ On(p, "idle") /\ runs < MaxRuns
    /\ u \in user
    /\ runs' = runs + 1
    /\ cli' = [cli EXCEPT ![p] = [at |-> "clash", id |-> runs', owner |-> u, org |-> o, dom |-> d]]
    /\ UNCHANGED <<tables, flag, invited, broken, faults>>

\* The SIP domain must be no organization's, its own included.
FindClash(p) ==
    /\ On(p, "clash")
    /\ IF \E o \in Orgs : settings[o].dom = cli[p].dom THEN Exit(p) ELSE Go(p, "org")
    /\ UNCHANGED <<tables, flag, invited, broken, runs, faults>>

FindOrganization(p) ==
    /\ On(p, "org")
    /\ Go(p, IF cli[p].org \in org THEN "membership" ELSE "insertOrg")
    /\ UNCHANGED <<tables, flag, invited, broken, runs, faults>>

\* organization.slug is unique: the second of two inserts ends its process.
InsertOrganization(p) ==
    /\ On(p, "insertOrg")
    /\ org' = org \cup {cli[p].org}
    /\ IF cli[p].org \in org THEN Exit(p) ELSE Go(p, "membership")
    /\ UNCHANGED <<user, member, settings, domain, warm, flag, invited, broken, runs, faults>>

\* Any member will do: the owner asked for is added to an empty organization only.
FindMembership(p) ==
    /\ On(p, "membership")
    /\ Go(p, IF \E m \in member : m.org = cli[p].org THEN "upsert" ELSE "insertMember")
    /\ UNCHANGED <<tables, flag, invited, broken, runs, faults>>

InsertMember(p) ==
    /\ On(p, "insertMember")
    /\ member' = member \cup {[id |-> cli[p].id, user |-> cli[p].owner, org |-> cli[p].org,
                               role |-> "owner"]}
    /\ Go(p, "upsert")
    /\ UNCHANGED <<user, org, settings, domain, warm, flag, invited, broken, runs, faults>>

\* Another organization than o has the domain.
Taken(d, o) == \E other \in Orgs \ {o} : settings[other].dom = d

\* The unique index on sip_domain.
Refused(d, o) == Taken(d, o)

\* On a conflict the upsert leaves the dispatcher set as it is.
UpsertSettings(p) ==
    LET c == cli[p] IN
    /\ On(p, "upsert")
    /\ IF Refused(c.dom, c.org)
       THEN Exit(p) /\ UNCHANGED settings
       ELSE settings' = [settings EXCEPT ![c.org].dom = c.dom] /\ Go(p, "sync")
    /\ UNCHANGED <<user, org, member, domain, warm, flag, invited, broken, runs, faults>>

\* Mutant: the domain is left for the portal to register.
SyncDomainNot(p) ==
    /\ On(p, "sync")
    /\ Go(p, "rebuild")
    /\ UNCHANGED <<tables, flag, invited, broken, runs, faults>>

SyncDomain(p) ==
    /\ On(p, "sync")
    /\ domain' = domain \cup {cli[p].dom}
    /\ Go(p, "rebuild")
    /\ UNCHANGED <<user, org, member, settings, warm, flag, invited, broken, runs, faults>>

\* reloadKamailio and rebuildTenant.
Rebuild(p) ==
    /\ On(p, "rebuild")
    /\ warm' = warm \cup {cli[p].org}
    /\ Exit(p)
    /\ UNCHANGED <<user, org, member, settings, domain, flag, invited, broken, runs, faults>>

PFault(o) ==
    /\ faults < MaxFaults /\ faults' = faults + 1
    /\ broken' = broken \cup ({o} \ {None})

\* A query throws and ends the process, or the operator stops it.
Kill(p) ==
    /\ ~On(p, "idle")
    /\ PFault(cli[p].org)
    /\ Exit(p)
    /\ flag' = [flag EXCEPT ![p] = FALSE]
    /\ UNCHANGED <<tables, invited, runs>>

\* syncDomain does not throw: its failure is logged, and the run reports success.
SyncFails(p) ==
    /\ On(p, "sync")
    /\ PFault(cli[p].org)
    /\ Go(p, "rebuild")
    /\ UNCHANGED <<tables, flag, invited, runs>>

-----------------------------------------------------------------------------
CommandLine(p) ==
    \/ \E u \in Users : CreateUser(p, u)
    \/ SignUpOnce(p)
    \/ \E u \in Users, o \in Orgs, d \in Domains : Provision(p, u, o, d)
    \/ FindClash(p) \/ FindOrganization(p) \/ InsertOrganization(p) \/ FindMembership(p)
    \/ InsertMember(p) \/ UpsertSettings(p) \/ SyncDomain(p) \/ Rebuild(p)
    \/ Kill(p) \/ SyncFails(p)

PNext == (\E p \in Clis : CommandLine(p)) \/ (\E u \in Users : PublicSignUp(u))

-----------------------------------------------------------------------------
PTypeOK ==
    /\ user \subseteq Users /\ org \subseteq Orgs
    /\ member \subseteq Row
    /\ settings \in [Orgs -> Setting]
    /\ domain \subseteq Domains /\ warm \subseteq Orgs
    /\ flag \in [Process -> BOOLEAN]
    /\ cli \in [Clis -> Cli]
    /\ invited \subseteq Users /\ broken \subseteq Orgs
    /\ runs \in 0..MaxRuns /\ faults \in 0..MaxFaults

\* signup-gate.ts: every account was asked for by an operator, whatever reaches
\* the API's own sign-up while a command line has its permission set.
NoSelfService == user \subseteq invited
=============================================================================
