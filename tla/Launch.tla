------------------------------- MODULE Launch -------------------------------
(***************************************************************************)
(* Starting a release: every process creates the tables its release knows  *)
(* and that are missing, registers the checksum of each group of           *)
(* statements its release has unless that group is registered, and then    *)
(* serves.  Releases append groups, or change a definition in an old one.  *)
(* A serving process answers launchReadiness and operationalAlerts, which  *)
(* make their reads one after the other; each read may fail and then       *)
(* counts as nothing found.                                                *)
(***************************************************************************)
EXTENDS Integers, Sequences

CONSTANTS Procs, Requests,
          Releases,        \* versions of the program
          Tables, Groups,  \* of all releases
          Group,           \* the group each table belongs to
          Definition,      \* Definition[r][t]: what release r says of table t, or None
          Configs,         \* configurations a process may be started with
          ComplianceTypes, \* requiredProductionComplianceTasks
          Placeholder,     \* internal_test_evidence, which bootstrap completes
          None

VARIABLES
    schema,     \* definition each table was created with, or None
    registry,   \* schema_migrations: the checksum each group was registered with
    admins,     \* whether there is an active user with role admin
    providers,  \* whether there is an active provider configuration
    completed,  \* task types with a completed compliance task
    procs,      \* the processes
    asks,       \* requests for the readiness or the alerts of a process
    mixed       \* history: tables about which releases disagreed before they were registered

business == <<admins, providers, completed>>
vars == <<schema, registry, business, procs, asks, mixed>>

Gateway == INSTANCE QualityGate

\* The tables and the groups that a release knows: those of its expectedMigrations.
Expected(r) == {t \in Tables : Definition[r][t] # None}
GroupsOf(r) == {Group[t] : t \in Expected(r)}

\* checksumStrings of the statements of a group.
Checksum(r, g) == [t \in {u \in Tables : Group[u] = g} |-> Definition[r][t]]
Checksums == {Checksum(r, g) : r \in Releases, g \in Groups}

\* The reads of a request, in their order.
Signals == {"migrations", "admins", "providers", "tasks", "types"}
ReadinessReads == <<"migrations", "admins", "providers", "tasks", "types">>
AlertReads == <<"migrations", "providers", "tasks", "types">>
Reads(kind, config) ==
    CASE kind = "readiness"                      -> ReadinessReads
      [] kind = "alerts" /\ config.production  -> AlertReads
      [] kind = "alerts" /\ ~config.production -> <<"migrations">>

Off == [pc |-> "off"]
Process ==
    {Off}
    \union [pc : {"creating"}, release : Releases, config : Configs, todo : SUBSET Tables]
    \union [pc : {"registering"}, release : Releases, config : Configs,
            todo : SUBSET Groups]
    \union [pc : {"serving"}, release : Releases, config : Configs,
            ready : BOOLEAN]     \* history: it answered that it was ready

\* wasReady and failed are history: whether the process had answered that it was ready
\* when the request came, and whether a read of the request failed.
Unasked == [kind |-> "none"]
Ask == {Unasked}
       \union [kind : {"readiness", "alerts"}, proc : Procs, next : 1 .. 6,
               seen : SUBSET Signals, wasReady : BOOLEAN, failed : BOOLEAN]

TypeOK ==
    /\ schema \in [Tables -> {Definition[r][t] : r \in Releases, t \in Tables} \union {None}]
    /\ registry \in [Groups -> Checksums \union {None}]
    /\ admins \in BOOLEAN /\ providers \in BOOLEAN
    /\ completed \subseteq ComplianceTypes \union {Placeholder}
    /\ procs \in [Procs -> Process]
    /\ asks \in [Requests -> Ask]
    /\ \A q \in Requests : asks[q] # Unasked => procs[asks[q].proc].pc = "serving"
    /\ mixed \subseteq Tables

Init ==
    /\ schema = [t \in Tables |-> None]
    /\ registry = [g \in Groups |-> None]
    /\ admins = FALSE /\ providers = FALSE
    /\ completed = {} /\ mixed = {}
    /\ procs = [p \in Procs |-> Off]
    /\ asks = [q \in Requests |-> Unasked]

Starting(p) == procs[p].pc \in {"creating", "registering"}
Serving(p) == procs[p].pc = "serving"

-----------------------------------------------------------------------------
(* Open: Migrate and RegisterExpectedMigrations.                            *)

\* Tables of unregistered groups of which this start finds another definition, or
\* which another start that is under way defines otherwise.
Disagreed(r) ==
    {t \in Expected(r) :
        /\ registry[Group[t]] = None
        /\ \/ schema[t] \notin {None, Definition[r][t]}
           \/ \E p \in Procs :
                 /\ Starting(p)
                 /\ Definition[procs[p].release][t] \notin {None, Definition[r][t]}}

Boot(p, r, config) ==
    /\ procs[p] = Off
    /\ procs' = [procs EXCEPT ![p] =
                   [pc |-> "creating", release |-> r, config |-> config,
                    todo |-> Expected(r)]]
    /\ mixed' = mixed \union Disagreed(r)
    /\ UNCHANGED <<schema, registry, business, asks>>

\* CREATE TABLE IF NOT EXISTS.
CreateTable(p, t) ==
    /\ procs[p].pc = "creating"
    /\ t \in procs[p].todo
    /\ schema' = [schema EXCEPT ![t] =
                    IF @ = None THEN Definition[procs[p].release][t] ELSE @]
    /\ procs' = [procs EXCEPT ![p].todo = @ \ {t}]
    /\ UNCHANGED <<registry, business, asks, mixed>>

CreatedAll(p) ==
    /\ procs[p].pc = "creating" /\ procs[p].todo = {}
    /\ procs' = [procs EXCEPT ![p] =
                   [pc |-> "registering", release |-> procs[p].release,
                    config |-> procs[p].config, todo |-> GroupsOf(procs[p].release)]]
    /\ UNCHANGED <<schema, registry, business, asks, mixed>>

\* Mutant of Register: a registered group gets the new checksum.
RegisterAnew(p, g) ==
    /\ procs[p].pc = "registering"
    /\ g \in procs[p].todo
    /\ registry' = [registry EXCEPT ![g] = Checksum(procs[p].release, g)]
    /\ procs' = [procs EXCEPT ![p].todo = @ \ {g}]
    /\ UNCHANGED <<schema, business, asks, mixed>>

\* INSERT ... ON DUPLICATE KEY UPDATE id = id.
Register(p, g) ==
    /\ procs[p].pc = "registering"
    /\ g \in procs[p].todo
    /\ registry' = [registry EXCEPT ![g] =
                      IF @ = None THEN Checksum(procs[p].release, g) ELSE @]
    /\ procs' = [procs EXCEPT ![p].todo = @ \ {g}]
    /\ UNCHANGED <<schema, business, asks, mixed>>

Serve(p) ==
    /\ procs[p].pc = "registering" /\ procs[p].todo = {}
    /\ procs' = [procs EXCEPT ![p] =
                   [pc |-> "serving", release |-> procs[p].release,
                    config |-> procs[p].config, ready |-> FALSE]]
    /\ UNCHANGED <<schema, registry, business, asks, mixed>>

\* A failing statement ends a start (log.Fatal); a serving process may stop, too, and
\* takes its requests with it.
Die(p) ==
    /\ procs[p] # Off
    /\ procs' = [procs EXCEPT ![p] = Off]
    /\ asks' = [q \in Requests |->
                  IF asks[q] # Unasked /\ asks[q].proc = p THEN Unasked ELSE asks[q]]
    /\ UNCHANGED <<schema, registry, business, mixed>>

-----------------------------------------------------------------------------
(* Rows that readiness looks at. None of them is ever taken back.           *)

CreateAdmin == admins' = TRUE /\ UNCHANGED <<providers, completed>>

\* bootstrapInternalTest; either insert may fail unseen.
BootstrapInternalTest ==
    /\ providers' \in {providers, TRUE}
    /\ completed' \in {completed, completed \union {Placeholder}}
    /\ UNCHANGED admins

\* No route writes the other rows: operators insert them.
FileProvider == providers' = TRUE /\ UNCHANGED <<admins, completed>>
FileEvidence(type) ==
    completed' = completed \union {type} /\ UNCHANGED <<admins, providers>>

-----------------------------------------------------------------------------
(* Migration status, readiness and alerts.                                  *)

MigrationStatusOK(r) == \A g \in GroupsOf(r) : registry[g] = Checksum(r, g)

Holds(p, signal) ==
    CASE signal = "migrations" -> MigrationStatusOK(procs[p].release)
      [] signal = "admins"     -> admins
      [] signal = "providers"  -> providers
      [] signal = "tasks"      -> completed # {}
      [] signal = "types"      -> ComplianceTypes \subseteq completed

GatewayReady(config) ==
    Gateway!GatewayHealthy(config.mode, config.endpoint, config.production,
                           config.region, config.named)

\* launchReadiness, or operationalAlerts after its token was accepted.
StartAsk(q, p, kind) ==
    /\ asks[q] = Unasked
    /\ Serving(p)
    /\ asks' = [asks EXCEPT ![q] =
                  [kind |-> kind, proc |-> p, next |-> 1, seen |-> {},
                   wasReady |-> procs[p].ready, failed |-> FALSE]]
    /\ UNCHANGED <<schema, registry, business, procs, mixed>>

ReadsOf(q) == Reads(asks[q].kind, procs[asks[q].proc].config)

\* A read that fails finds nothing.
ReadSignal(q) ==
    /\ asks[q] # Unasked
    /\ asks[q].next \in DOMAIN ReadsOf(q)
    /\ LET ask == asks[q]
           signal == ReadsOf(q)[ask.next]
       IN  \/ /\ Holds(ask.proc, signal)
              /\ asks' = [asks EXCEPT ![q] =
                            [ask EXCEPT !.next = @ + 1, !.seen = @ \union {signal}]]
           \/ /\ ~Holds(ask.proc, signal)
              /\ asks' = [asks EXCEPT ![q] = [ask EXCEPT !.next = @ + 1]]
           \/ asks' = [asks EXCEPT ![q] = [ask EXCEPT !.next = @ + 1, !.failed = TRUE]]
    /\ UNCHANGED <<schema, registry, business, procs, mixed>>

\* Mutant of Blockers: any completed task will do for the required ones.
BlockersAnyTask(config, seen) ==
    LET needed == IF config.production THEN Signals \ {"types"} ELSE {"migrations"}
    IN  needed \ seen

\* The settings that are missing, and the gateway if it is not ready. Without OSS the
\* code does not go on to ask for STS; both are named here.
Settings == {"pepper", "oss", "sts", "origins", "limiter", "accessLog"}
Gaps(config, names) ==
    {s \in names : ~config[s]} \union (IF GatewayReady(config) THEN {} ELSE {"gateway"})

\* What keeps a release from being ready.
Blockers(config, seen) ==
    IF config.production THEN (Signals \ seen) \union Gaps(config, Settings)
    ELSE {"migrations"} \ seen

\* The critical alerts about the release and its configuration; those about failed
\* jobs and payout holds come and go with the work.
CriticalAlerts(config, seen) ==
    IF config.production
    THEN (Signals \ (seen \union {"admins"})) \union Gaps(config, Settings \ {"accessLog"})
    ELSE {"migrations"} \ seen

Answer(q) ==
    /\ asks[q] # Unasked /\ asks[q].next > Len(ReadsOf(q))
    /\ LET p == asks[q].proc
           ready == asks[q].kind = "readiness" /\ Blockers(procs[p].config, asks[q].seen) = {}
       IN  procs' = [procs EXCEPT ![p].ready = @ \/ ready]
    /\ asks' = [asks EXCEPT ![q] = Unasked]
    /\ UNCHANGED <<schema, registry, business, mixed>>

-----------------------------------------------------------------------------
Starts(p) ==
    \/ \E r \in Releases, config \in Configs : Boot(p, r, config)
    \/ \E t \in Tables : CreateTable(p, t)
    \/ CreatedAll(p)
    \/ \E g \in Groups : Register(p, g)
    \/ Serve(p)
    \/ Die(p)

Answers(q) ==
    \/ \E p \in Procs, kind \in {"readiness", "alerts"} : StartAsk(q, p, kind)
    \/ ReadSignal(q)
    \/ Answer(q)

Files ==
    /\ \/ CreateAdmin \/ BootstrapInternalTest \/ FileProvider
       \/ \E type \in ComplianceTypes : FileEvidence(type)
    /\ UNCHANGED <<schema, registry, procs, asks, mixed>>

Next ==
    \/ Files
    \/ \E p \in Procs : Starts(p)
    \/ \E q \in Requests : Answers(q)

Spec == Init /\ [][Next]_vars

-----------------------------------------------------------------------------
(* Properties                                                               *)

\* The status of the registry tells the truth about the schema: when it is fine for a
\* serving process, the tables its release expects are there, and they are as it
\* defines them, also when its groups were registered by several releases, when
\* starts died half-way and were repeated, and when releases started side by side.
\* The exception are tables about which two releases disagreed while their group was
\* not registered: of those the code hides a drift (Migrate,
\* RegisterExpectedMigrations, MigrationStatus).
StatusTellsTables ==
    \A p \in Procs :
       Serving(p) /\ MigrationStatusOK(procs[p].release) =>
          \A t \in Expected(procs[p].release) :
             /\ schema[t] # None
             /\ t \notin mixed => schema[t] = Definition[procs[p].release][t]

\* A request for the alerts of a process that had answered it was ready is told of no
\* critical alert about release or configuration, unless one of its own reads failed:
\* the reads of readiness may be of different moments, other releases start beside
\* it, and still nothing it relied on goes away (launchReadiness,
\* operationalAlerts).
ReadyIsQuiet ==
    \A q \in Requests :
       /\ asks[q].kind = "alerts" /\ asks[q].wasReady /\ ~asks[q].failed
       /\ asks[q].next > Len(ReadsOf(q))
       => CriticalAlerts(procs[asks[q].proc].config, asks[q].seen) = {}
=============================================================================
