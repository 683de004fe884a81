--------------------------- MODULE Platform_proofs ---------------------------
(***************************************************************************)
(* Proofs about the platform for every value of the constants: about the   *)
(* start of releases and what a process answers (Launch), about the        *)
(* limiter, and about the whole, whose parts each run by their own         *)
(* specification.  What holds of the doors is proved in Intake_proofs.     *)
(***************************************************************************)
EXTENDS Platform, FiniteSetTheorems, TLAPS

-----------------------------------------------------------------------------
(* The start of releases.                                                   *)

\* Every table has a group, and None is no checksum.
GroupsAreSane ==
    /\ Group \in [Tables -> Groups]
    /\ \A r \in Releases, g \in Groups : Checksum(r, g) # None

\* A process that has got past a table finds it in place.
PastIsInPlace ==
    \A p \in Procs :
       /\ procs[p].pc = "creating" =>
             \A t \in Expected(procs[p].release) \ procs[p].todo : schema[t] # None
       /\ procs[p].pc \in {"registering", "serving"} =>
             \A t \in Expected(procs[p].release) : schema[t] # None

\* Open(t): nobody has registered the group of t, and those who start agree about t.
Open(t) == t \notin mixed /\ registry[Group[t]] = None

\* Two starts that run at a time define an open table alike, ...
VersionsAgree ==
    \A p, q \in Procs : Starting(p) /\ Starting(q) =>
       \A t \in Expected(procs[p].release) \intersect Expected(procs[q].release) :
          Open(t) => Definition[procs[p].release][t] = Definition[procs[q].release][t]

\* ... an open table that a start finds is as the start would have made it, ...
UnregisteredIsOwn ==
    \A p \in Procs : Starting(p) =>
       \A t \in Expected(procs[p].release) :
          Open(t) /\ schema[t] # None => schema[t] = Definition[procs[p].release][t]

\* ... and a registered checksum is that of a release which defines the table as it is.
Sealed(r, t) ==
    /\ registry[Group[t]] = Checksum(r, Group[t])
    /\ Definition[r][t] # None => schema[t] = Definition[r][t]

RegisteredIsSealed ==
    \A t \in Tables : t \notin mixed /\ registry[Group[t]] # None =>
       \E r \in Releases : Sealed(r, t)

StartInv ==
    /\ PastIsInPlace
    /\ VersionsAgree
    /\ UnregisteredIsOwn
    /\ RegisteredIsSealed

-----------------------------------------------------------------------------
(* What a process and its requests know.                                    *)

\* What it takes for a process to be without a critical alert.
Quiet(p) ==
    LET config == procs[p].config IN
    /\ Holds(p, "migrations")
    /\ config.production =>
          /\ config.oss /\ config.sts /\ config.pepper /\ config.origins /\ config.limiter
          /\ GatewayReady(config)
          /\ Holds(p, "providers") /\ Holds(p, "tasks") /\ Holds(p, "types")

\* A process that was ready stays without one.
ReadyHolds == \A p \in Procs : Serving(p) /\ procs[p].ready => Quiet(p)

\* What readiness has seen it would see again; the process whose alerts are asked, and
\* that was ready, is quiet, and its reads have found what they did not fail to read.
AskKnows(ask) ==
    /\ ask.kind = "readiness" => \A signal \in ask.seen : Holds(ask.proc, signal)
    /\ ask.kind = "alerts" /\ ask.wasReady =>
          /\ Quiet(ask.proc)
          /\ LET reads == Reads("alerts", procs[ask.proc].config)
             IN  ~ask.failed => \A n \in DOMAIN reads : n < ask.next => reads[n] \in ask.seen

AsksKnow == \A q \in Requests : asks[q] # Unasked => AskKnows(asks[q])

IInv ==
    /\ TypeOK
    /\ StartInv
    /\ ReadyHolds
    /\ AsksKnow

-----------------------------------------------------------------------------
(* Fields, and what lasts.                                                  *)

LEMMA ProcessFields ==
    ASSUME TypeOK, NEW p \in Procs, procs[p] # Off
    PROVE  /\ procs[p].release \in Releases /\ procs[p].config \in Configs
           /\ procs[p].pc = "creating" => procs[p].todo \subseteq Tables
           /\ procs[p].pc = "registering" => procs[p].todo \subseteq Groups
           /\ procs[p].pc = "serving" => procs[p].ready \in BOOLEAN
           /\ procs[p].pc \in {"creating", "registering", "serving"}
  <1>1. procs[p] \in Process \ {Off}
    BY DEF TypeOK
  <1> QED
    BY <1>1 DEF Process

LEMMA AskFields ==
    ASSUME TypeOK, NEW q \in Requests, asks[q] # Unasked
    PROVE  /\ asks[q] \in [kind : {"readiness", "alerts"}, proc : Procs, next : 1 .. 6,
                           seen : SUBSET Signals, wasReady : BOOLEAN, failed : BOOLEAN]
           /\ asks[q].proc \in Procs /\ procs[asks[q].proc].pc = "serving"
           /\ asks[q].seen \subseteq Signals
  BY DEF TypeOK, Ask

\* The reads of a request, and of the alerts of a production process in particular.
LEMMA ReadsTell ==
    ASSUME NEW kind \in {"readiness", "alerts"}, NEW config, NEW n \in DOMAIN Reads(kind, config)
    PROVE  /\ n \in 1 .. 5 /\ Reads(kind, config)[n] \in Signals
           /\ kind = "alerts" => \/ Reads(kind, config)[n] = "migrations"
                                 \/ /\ config.production
                                    /\ Reads(kind, config)[n] \in {"providers", "tasks", "types"}
  <1>1. CASE kind = "readiness"
    BY <1>1 DEF Reads, ReadinessReads, Signals
  <1>2. CASE kind = "alerts" /\ config.production
    BY <1>2 DEF Reads, AlertReads, Signals
  <1>3. CASE kind = "alerts" /\ ~config.production
    BY <1>3 DEF Reads, Signals
  <1> QED
    BY <1>1, <1>2, <1>3

\* Nothing readiness relies on is taken back.
Grows ==
    /\ \A g \in Groups : registry[g] # None => registry'[g] = registry[g]
    /\ admins => admins'
    /\ providers => providers'
    /\ completed \subseteq completed'

LEMMA HoldsLasts ==
    ASSUME GroupsAreSane, TypeOK, Grows, NEW p \in Procs, procs[p].release \in Releases,
           procs'[p].release = procs[p].release, NEW signal \in Signals, Holds(p, signal)
    PROVE  Holds(p, signal)'
  <1>1. CASE signal = "migrations"
    <2>1. GroupsOf(procs[p].release) \subseteq Groups
      BY DEF GroupsOf, Expected, GroupsAreSane
    <2>2. \A g \in GroupsOf(procs[p].release) :
             registry[g] = Checksum(procs[p].release, g) /\ registry[g] # None
      BY <1>1, <2>1 DEF Holds, MigrationStatusOK, GroupsAreSane
    <2> QED
      BY <1>1, <2>1, <2>2 DEF Holds, MigrationStatusOK, Grows
  <1>2. CASE signal \in {"admins", "providers"}
    BY <1>2 DEF Holds, Grows
  <1>3. CASE signal \in {"tasks", "types"}
    BY <1>3 DEF Holds, Grows
  <1> QED
    BY <1>1, <1>2, <1>3 DEF Signals

LEMMA QuietLasts ==
    ASSUME GroupsAreSane, TypeOK, Grows, NEW p \in Procs, procs[p].release \in Releases,
           procs'[p].release = procs[p].release, procs'[p].config = procs[p].config,
           Quiet(p)
    PROVE  Quiet(p)'
  <1>1. \A signal \in {"migrations", "providers", "tasks", "types"} :
           Holds(p, signal) => Holds(p, signal)'
    BY HoldsLasts DEF Signals
  <1> QED
    BY <1>1 DEF Quiet, GatewayReady

LEMMA AskLasts ==
    ASSUME GroupsAreSane, IInv, Grows, NEW q \in Requests, asks[q] # Unasked,
           procs'[asks[q].proc].release = procs[asks[q].proc].release,
           procs'[asks[q].proc].config = procs[asks[q].proc].config
    PROVE  AskKnows(asks[q])'
           \/ asks'[q] # asks[q]
  <1> SUFFICES ASSUME asks'[q] = asks[q] PROVE AskKnows(asks[q])'
    OBVIOUS
  <1>1. PICK ask : ask = asks[q]
    OBVIOUS
  <1>2. ask.proc \in Procs /\ ask.seen \subseteq Signals /\ procs[ask.proc].release \in Releases
    BY <1>1, AskFields, ProcessFields DEF IInv, Off
  <1>3. AskKnows(ask)
    BY <1>1 DEF IInv, AsksKnow
  <1>4. \A signal \in ask.seen : Holds(ask.proc, signal) => Holds(ask.proc, signal)'
    BY <1>1, <1>2, HoldsLasts DEF IInv
  <1>5. Quiet(ask.proc) => Quiet(ask.proc)'
    BY <1>1, <1>2, QuietLasts DEF IInv
  <1>6. AskKnows(asks[q])'
    BY <1>1, <1>3, <1>4, <1>5 DEF AskKnows
  <1> QED
    BY <1>6

-----------------------------------------------------------------------------
(* The initial states.                                                      *)

LEMMA InitHolds == ASSUME GroupsAreSane, Init PROVE IInv
  <1>1. \A p \in Procs : procs[p].pc = "off" /\ ~Starting(p) /\ ~Serving(p)
    BY DEF Init, Off, Starting, Serving
  <1>2. TypeOK
    <2>1. Off \in Process /\ Unasked \in Ask
      BY DEF Process, Ask
    <2>2. schema \in [Tables -> {Definition[r][t] : r \in Releases, t \in Tables} \union {None}]
      BY DEF Init
    <2>3. registry \in [Groups -> Checksums \union {None}]
      BY DEF Init
    <2>4. admins \in BOOLEAN /\ providers \in BOOLEAN /\ mixed \subseteq Tables
      BY DEF Init
    <2>5. completed \subseteq ComplianceTypes \union {Placeholder}
      BY DEF Init
    <2>6. procs \in [Procs -> Process] /\ asks \in [Requests -> Ask]
      BY <2>1 DEF Init
    <2>7. \A q \in Requests : asks[q] = Unasked
      BY DEF Init
    <2> QED
      BY <2>2, <2>3, <2>4, <2>5, <2>6, <2>7 DEF TypeOK
  <1>3. PastIsInPlace /\ VersionsAgree /\ UnregisteredIsOwn /\ ReadyHolds
    BY <1>1 DEF PastIsInPlace, VersionsAgree, UnregisteredIsOwn, ReadyHolds
  <1>4. RegisteredIsSealed /\ AsksKnow
    BY DEF Init, RegisteredIsSealed, GroupsAreSane, AsksKnow
  <1> QED
    BY <1>2, <1>3, <1>4 DEF IInv, StartInv

-----------------------------------------------------------------------------
(* Steps that leave the requests alone, or end them with their process.     *)

LEMMA KnowledgeLasts ==
    ASSUME GroupsAreSane, IInv, Grows,
           \A p \in Procs : procs'[p] = procs[p] \/ ~Serving(p)' \/ ~procs'[p].ready,
           \A q \in Requests :
              \/ asks'[q] = Unasked
              \/ asks'[q] = asks[q] /\ procs'[asks[q].proc] = procs[asks[q].proc]
    PROVE  ReadyHolds' /\ AsksKnow'
  <1>1. ASSUME NEW p \in Procs, Serving(p)', procs'[p].ready PROVE Quiet(p)'
    <2>1. procs'[p] = procs[p] /\ Serving(p) /\ procs[p].ready
      BY <1>1 DEF Serving
    <2>2. procs[p].release \in Releases
      BY <2>1, ProcessFields DEF IInv, Serving, Off
    <2> QED
      BY <2>1, <2>2, QuietLasts DEF IInv, ReadyHolds
  <1>2. ASSUME NEW q \in Requests, asks'[q] # Unasked PROVE AskKnows(asks[q])'
    <2>1. asks'[q] = asks[q] /\ procs'[asks[q].proc] = procs[asks[q].proc]
      BY <1>2
    <2> QED
      BY <1>2, <2>1, AskLasts
  <1> QED
    BY <1>1, <1>2 DEF ReadyHolds, AsksKnow

LEMMA BootKeeps ==
    ASSUME GroupsAreSane, IInv, NEW p \in Procs, NEW r \in Releases, NEW config \in Configs,
           Boot(p, r, config)
    PROVE  IInv'
  <1> DEFINE new == [pc |-> "creating", release |-> r, config |-> config,
                     todo |-> Expected(r)]
  <1>1. /\ procs[p] = Off /\ procs' = [procs EXCEPT ![p] = new]
        /\ UNCHANGED <<schema, registry, admins, providers, completed, asks>>
        /\ mixed' = mixed \union Disagreed(r)
    BY DEF Boot, business
  <1>2. new \in Process
    BY DEF Process, Expected
  <1> HIDE DEF new
  <1>3. procs'[p] = new /\ \A q \in Procs \ {p} : procs'[q] = procs[q]
    BY <1>1 DEF IInv, TypeOK
  <1>4. new.pc = "creating" /\ new.release = r /\ new.todo = Expected(r)
    BY DEF new
  <1>5. \A q \in Requests : asks[q] # Unasked => asks[q].proc \in Procs \ {p}
    BY <1>1, AskFields DEF IInv, Off
  <1>6. TypeOK'
    <2>1. mixed' \subseteq Tables
      BY <1>1 DEF IInv, TypeOK, Disagreed, Expected
    <2>2. \A q \in Requests : asks'[q] # Unasked => procs'[asks'[q].proc].pc = "serving"
      BY <1>1, <1>3, <1>5 DEF IInv, TypeOK
    <2> QED
      BY <1>1, <1>2, <2>1, <2>2 DEF IInv, TypeOK
  <1>7. ~Serving(p)' /\ \A q \in Procs \ {p} : Starting(q)' = Starting(q)
    BY <1>3, <1>4 DEF Starting, Serving
  <1>8. PastIsInPlace'
    BY <1>1, <1>3, <1>4 DEF IInv, StartInv, PastIsInPlace, Expected
  <1>9. \A t \in Tables : Open(t)' => Open(t) /\ t \notin Disagreed(r)
    BY <1>1 DEF Open
  <1>10. ASSUME NEW t \in Expected(r), Open(t)'
         PROVE  /\ schema[t] # None => schema[t] = Definition[r][t]
                /\ \A q \in Procs : Starting(q) /\ t \in Expected(procs[q].release) =>
                      Definition[procs[q].release][t] = Definition[r][t]
    <2>1. registry[Group[t]] = None /\ t \notin Disagreed(r)
      BY <1>9, <1>10 DEF Open, Expected
    <2> QED
      BY <2>1 DEF Disagreed, Expected
  <1>11. VersionsAgree'
    <2> SUFFICES ASSUME NEW a \in Procs, NEW b \in Procs, Starting(a)', Starting(b)',
                        NEW t \in Tables, t \in Expected(procs'[a].release),
                        t \in Expected(procs'[b].release), Open(t)'
                 PROVE  Definition[procs'[a].release][t] = Definition[procs'[b].release][t]
      BY DEF VersionsAgree, Expected
    <2>1. CASE a # p /\ b # p
      BY <1>3, <1>7, <1>9, <2>1 DEF IInv, StartInv, VersionsAgree
    <2>2. CASE a = p /\ b # p
      BY <1>3, <1>4, <1>7, <1>10, <2>2
    <2>3. CASE a # p /\ b = p
      BY <1>3, <1>4, <1>7, <1>10, <2>3
    <2> QED
      BY <2>1, <2>2, <2>3
  <1>12. UnregisteredIsOwn'
    <2> SUFFICES ASSUME NEW q \in Procs, Starting(q)', NEW t \in Tables,
                        t \in Expected(procs'[q].release), Open(t)', schema'[t] # None
                 PROVE  schema'[t] = Definition[procs'[q].release][t]
      BY DEF UnregisteredIsOwn, Expected
    <2>1. CASE q = p
      BY <1>1, <1>3, <1>4, <1>10, <2>1
    <2>2. CASE q # p
      BY <1>1, <1>3, <1>7, <1>9, <2>2 DEF IInv, StartInv, UnregisteredIsOwn
    <2> QED
      BY <2>1, <2>2
  <1>13. RegisteredIsSealed'
    BY <1>1 DEF IInv, StartInv, RegisteredIsSealed, Sealed, Checksum
  <1>14. Grows
    BY <1>1 DEF Grows
  <1>15. ReadyHolds' /\ AsksKnow'
    BY <1>1, <1>3, <1>5, <1>7, <1>14, KnowledgeLasts
  <1> QED
    BY <1>6, <1>8, <1>11, <1>12, <1>13, <1>15 DEF IInv, StartInv

LEMMA CreateTableKeeps ==
    ASSUME GroupsAreSane, IInv, NEW p \in Procs, NEW t \in Tables, CreateTable(p, t)
    PROVE  IInv'
  <1> DEFINE new == [procs[p] EXCEPT !.todo = @ \ {t}]
             r == procs[p].release
  <1>1. /\ procs[p].pc = "creating" /\ t \in procs[p].todo
        /\ schema' = [schema EXCEPT ![t] = IF @ = None THEN Definition[r][t] ELSE @]
        /\ procs' = [procs EXCEPT ![p] = new]
        /\ UNCHANGED <<registry, admins, providers, completed, asks, mixed>>
    BY DEF CreateTable, business
  <1>2. procs[p] \in [pc : {"creating"}, release : Releases, config : Configs,
                      todo : SUBSET Tables]
    BY <1>1 DEF IInv, TypeOK, Process, Off
  <1>3. new \in Process
    BY <1>2 DEF Process
  <1>4. /\ new.pc = "creating" /\ new.release = r /\ new.todo = procs[p].todo \ {t}
        /\ r \in Releases
    BY <1>1, <1>2
  <1> HIDE DEF new
  <1>5. procs'[p] = new /\ \A q \in Procs \ {p} : procs'[q] = procs[q]
    BY <1>1 DEF IInv, TypeOK
  <1>6. /\ \A u \in Tables : schema[u] # None => schema'[u] = schema[u]
        /\ \A u \in Tables : schema'[u] # schema[u] =>
              u = t /\ schema[u] = None /\ schema'[u] = Definition[r][t]
        /\ Definition[r][t] # None => schema'[t] # None
    BY <1>1 DEF IInv, TypeOK
  <1>7. \A q \in Requests : asks[q] # Unasked => asks[q].proc \in Procs \ {p}
    BY <1>1, AskFields DEF IInv
  <1>8. TypeOK'
    <2>1. schema' \in [Tables -> {Definition[s][u] : s \in Releases, u \in Tables}
                                 \union {None}]
      BY <1>1, <1>4 DEF IInv, TypeOK
    <2>2. \A q \in Requests : asks'[q] # Unasked => procs'[asks'[q].proc].pc = "serving"
      BY <1>1, <1>5, <1>7 DEF IInv, TypeOK
    <2> QED
      BY <1>1, <1>3, <2>1, <2>2 DEF IInv, TypeOK
  <1>9. /\ \A q \in Procs : Starting(q)' = Starting(q) /\ procs'[q].release = procs[q].release
        /\ Starting(p) /\ ~Serving(p)'
    BY <1>1, <1>4, <1>5 DEF Starting, Serving
  <1>10. PastIsInPlace'
    BY <1>1, <1>4, <1>5, <1>6 DEF IInv, StartInv, PastIsInPlace, Expected
  <1>11. VersionsAgree'
    BY <1>1, <1>9 DEF IInv, StartInv, VersionsAgree, Expected, Open
  <1>12. UnregisteredIsOwn'
    <2> SUFFICES ASSUME NEW q \in Procs, Starting(q), NEW u \in Tables,
                        u \in Expected(procs[q].release), Open(u), schema'[u] # None
                 PROVE  schema'[u] = Definition[procs[q].release][u]
      BY <1>1, <1>9 DEF UnregisteredIsOwn, Expected, Open
    <2>1. CASE schema'[u] = schema[u]
      BY <2>1 DEF IInv, StartInv, UnregisteredIsOwn
    <2>2. CASE schema'[u] # schema[u]
      <3>1. u = t /\ schema'[t] = Definition[r][t]
        BY <1>6, <2>2
      <3>2. t \in Expected(r)
        BY <3>1 DEF Expected
      <3> QED
        BY <1>9, <3>1, <3>2 DEF IInv, StartInv, VersionsAgree
    <2> QED
      BY <2>1, <2>2
  <1>13. RegisteredIsSealed'
    BY <1>1, <1>6 DEF IInv, StartInv, RegisteredIsSealed, Sealed, Checksum
  <1>14. Grows
    BY <1>1 DEF Grows
  <1>15. ReadyHolds' /\ AsksKnow'
    BY <1>1, <1>5, <1>7, <1>9, <1>14, KnowledgeLasts
  <1> QED
    BY <1>8, <1>10, <1>11, <1>12, <1>13, <1>15 DEF IInv, StartInv

LEMMA RegisterKeeps ==
    ASSUME GroupsAreSane, IInv, NEW p \in Procs, NEW g \in Groups, Register(p, g)
    PROVE  IInv'
  <1> DEFINE new == [procs[p] EXCEPT !.todo = @ \ {g}]
             r == procs[p].release
  <1>1. /\ procs[p].pc = "registering" /\ g \in procs[p].todo
        /\ registry' = [registry EXCEPT ![g] = IF @ = None THEN Checksum(r, g) ELSE @]
        /\ procs' = [procs EXCEPT ![p] = new]
        /\ UNCHANGED <<schema, admins, providers, completed, asks, mixed>>
    BY DEF Register, business
  <1>2. procs[p] \in [pc : {"registering"}, release : Releases, config : Configs,
                      todo : SUBSET Groups]
    BY <1>1 DEF IInv, TypeOK, Process, Off
  <1>3. new \in Process
    BY <1>2 DEF Process
  <1>4. new.pc = "registering" /\ new.release = r /\ r \in Releases
    BY <1>1, <1>2
  <1> HIDE DEF new
  <1>5. procs'[p] = new /\ \A q \in Procs \ {p} : procs'[q] = procs[q]
    BY <1>1 DEF IInv, TypeOK
  <1>6. /\ \A h \in Groups : registry[h] # None => registry'[h] = registry[h]
        /\ \A h \in Groups : registry[h] = None /\ registry'[h] # None =>
              h = g /\ registry'[h] = Checksum(r, g)
    BY <1>1, <1>4 DEF IInv, TypeOK, GroupsAreSane
  <1>7. \A q \in Requests : asks[q] # Unasked => asks[q].proc \in Procs \ {p}
    BY <1>1, AskFields DEF IInv
  <1>8. TypeOK'
    <2>1. registry' \in [Groups -> Checksums \union {None}]
      BY <1>1, <1>4 DEF IInv, TypeOK, Checksums
    <2>2. \A q \in Requests : asks'[q] # Unasked => procs'[asks'[q].proc].pc = "serving"
      BY <1>1, <1>5, <1>7 DEF IInv, TypeOK
    <2> QED
      BY <1>1, <1>3, <2>1, <2>2 DEF IInv, TypeOK
  <1>9. /\ \A q \in Procs : Starting(q)' = Starting(q) /\ procs'[q].release = procs[q].release
        /\ Starting(p) /\ ~Serving(p)'
    BY <1>1, <1>4, <1>5 DEF Starting, Serving
  <1>10. PastIsInPlace'
    BY <1>1, <1>4, <1>5 DEF IInv, StartInv, PastIsInPlace, Expected
  <1>11. \A t \in Tables : Open(t)' => Open(t)
    BY <1>1, <1>6 DEF Open, GroupsAreSane
  <1>12. VersionsAgree'
    BY <1>9, <1>11 DEF IInv, StartInv, VersionsAgree, Expected
  <1>13. UnregisteredIsOwn'
    BY <1>1, <1>9, <1>11 DEF IInv, StartInv, UnregisteredIsOwn, Expected
  <1>14. RegisteredIsSealed'
    <2> SUFFICES ASSUME NEW t \in Tables, t \notin mixed, registry'[Group[t]] # None
                 PROVE  \E s \in Releases : Sealed(s, t)'
      BY <1>1 DEF RegisteredIsSealed
    <2>1. Group[t] \in Groups
      BY DEF GroupsAreSane
    <2>2. CASE registry[Group[t]] # None
      BY <1>1, <1>6, <2>1, <2>2 DEF IInv, StartInv, RegisteredIsSealed, Sealed, Checksum
    <2>3. CASE registry[Group[t]] = None
      <3>1. registry'[Group[t]] = Checksum(r, Group[t])
        BY <1>6, <2>1, <2>3
      <3>2. ASSUME Definition[r][t] # None PROVE schema[t] = Definition[r][t]
        <4>1. t \in Expected(r) /\ Open(t)
          BY <2>3, <3>2 DEF Expected, Open
        <4>2. schema[t] # None
          BY <1>1, <4>1 DEF IInv, StartInv, PastIsInPlace
        <4> QED
          BY <1>9, <4>1, <4>2 DEF IInv, StartInv, UnregisteredIsOwn
      <3> QED
        BY <1>1, <1>4, <3>1, <3>2 DEF Sealed, Checksum
    <2> QED
      BY <2>2, <2>3
  <1>15. Grows
    BY <1>1, <1>6 DEF Grows
  <1>16. ReadyHolds' /\ AsksKnow'
    BY <1>1, <1>5, <1>7, <1>9, <1>15, KnowledgeLasts
  <1> QED
    BY <1>8, <1>10, <1>12, <1>13, <1>14, <1>16 DEF IInv, StartInv

\* Steps that change neither tables nor registry, and start nothing.
LEMMA StartsLast ==
    ASSUME GroupsAreSane, IInv, UNCHANGED <<schema, registry, mixed>>,
           \A p \in Procs :
              /\ procs'[p].pc \in {"registering", "serving"} =>
                    \A t \in Expected(procs'[p].release) : schema[t] # None
              /\ procs'[p].pc = "creating" => procs'[p] = procs[p]
              /\ Starting(p)' => Starting(p) /\ procs'[p].release = procs[p].release
    PROVE  StartInv'
  <1>1. PastIsInPlace'
    BY DEF IInv, StartInv, PastIsInPlace, Expected
  <1>2. VersionsAgree'
    BY DEF IInv, StartInv, VersionsAgree, Expected, Open
  <1>3. UnregisteredIsOwn'
    BY DEF IInv, StartInv, UnregisteredIsOwn, Expected, Open
  <1>4. RegisteredIsSealed'
    BY DEF IInv, StartInv, RegisteredIsSealed, Sealed, Checksum
  <1> QED
    BY <1>1, <1>2, <1>3, <1>4 DEF StartInv

LEMMA CreatedAllKeeps ==
    ASSUME GroupsAreSane, IInv, NEW p \in Procs, CreatedAll(p) \/ Serve(p)
    PROVE  IInv'
  <1>1. PICK new :
           /\ procs' = [procs EXCEPT ![p] = new]
           /\ \/ /\ procs[p].pc = "creating" /\ procs[p].todo = {}
                 /\ new = [pc |-> "registering", release |-> procs[p].release,
                           config |-> procs[p].config, todo |-> GroupsOf(procs[p].release)]
              \/ /\ procs[p].pc = "registering"
                 /\ new = [pc |-> "serving", release |-> procs[p].release,
                           config |-> procs[p].config, ready |-> FALSE]
    BY DEF CreatedAll, Serve
  <1>2. UNCHANGED <<schema, registry, admins, providers, completed, asks, mixed>>
    BY DEF CreatedAll, Serve, business
  <1>3. /\ procs[p] # Off /\ Starting(p) /\ procs[p].pc # "serving"
        /\ procs[p].release \in Releases /\ procs[p].config \in Configs
    BY <1>1, ProcessFields DEF IInv, Off, Starting
  <1>4. GroupsOf(procs[p].release) \subseteq Groups
    BY DEF GroupsOf, Expected, GroupsAreSane
  <1>5. /\ new \in Process
        /\ new.release = procs[p].release /\ new.pc \in {"registering", "serving"}
        /\ new.pc = "serving" => ~new.ready
    <2>1. CASE procs[p].pc = "creating"
      <3>1. new = [pc |-> "registering", release |-> procs[p].release,
                   config |-> procs[p].config, todo |-> GroupsOf(procs[p].release)]
        BY <1>1, <2>1
      <3>2. new \in [pc : {"registering"}, release : Releases, config : Configs,
                     todo : SUBSET Groups]
        BY <1>3, <1>4, <3>1
      <3> QED
        BY <3>1, <3>2 DEF Process
    <2>2. CASE procs[p].pc = "registering"
      <3>1. new = [pc |-> "serving", release |-> procs[p].release,
                   config |-> procs[p].config, ready |-> FALSE]
        BY <1>1, <2>2
      <3>2. new \in [pc : {"serving"}, release : Releases, config : Configs,
                     ready : BOOLEAN]
        BY <1>3, <3>1
      <3> QED
        BY <3>1, <3>2 DEF Process
    <2> QED
      BY <1>1, <2>1, <2>2
  <1>6. procs'[p] = new /\ \A q \in Procs \ {p} : procs'[q] = procs[q]
    BY <1>1 DEF IInv, TypeOK
  <1>7. \A q \in Requests : asks[q] # Unasked => asks[q].proc \in Procs \ {p}
    BY <1>3, AskFields DEF IInv
  <1>8. TypeOK'
    <2>1. \A q \in Requests : asks'[q] # Unasked => procs'[asks'[q].proc].pc = "serving"
      BY <1>2, <1>6, <1>7 DEF IInv, TypeOK
    <2> QED
      BY <1>1, <1>2, <1>5, <2>1 DEF IInv, TypeOK
  <1>9. \A t \in Expected(procs[p].release) : schema[t] # None
    BY <1>1 DEF IInv, StartInv, PastIsInPlace
  <1>10. StartInv'
    <2>1. ASSUME NEW q \in Procs
          PROVE  /\ procs'[q].pc \in {"registering", "serving"} =>
                       \A t \in Expected(procs'[q].release) : schema[t] # None
                 /\ procs'[q].pc = "creating" => procs'[q] = procs[q]
                 /\ Starting(q)' => Starting(q) /\ procs'[q].release = procs[q].release
      BY <1>3, <1>5, <1>6, <1>9 DEF IInv, StartInv, PastIsInPlace, Starting
    <2> QED
      BY <1>2, <2>1, StartsLast
  <1>11. Grows
    BY <1>2 DEF Grows
  <1>12. ReadyHolds' /\ AsksKnow'
    BY <1>2, <1>5, <1>6, <1>7, <1>11, KnowledgeLasts DEF Serving
  <1> QED
    BY <1>8, <1>10, <1>12 DEF IInv

LEMMA DieKeeps ==
    ASSUME GroupsAreSane, IInv, NEW p \in Procs, Die(p)
    PROVE  IInv'
  <1>1. /\ procs' = [procs EXCEPT ![p] = Off]
        /\ asks' = [q \in Requests |->
                      IF asks[q] # Unasked /\ asks[q].proc = p THEN Unasked ELSE asks[q]]
        /\ UNCHANGED <<schema, registry, admins, providers, completed, mixed>>
    BY DEF Die, business
  <1>2. procs'[p] = Off /\ \A q \in Procs \ {p} : procs'[q] = procs[q]
    BY <1>1 DEF IInv, TypeOK
  <1>3. Off \in Process /\ Off.pc = "off" /\ Unasked \in Ask
    BY DEF Process, Off, Ask
  <1>4. \A q \in Requests :
           \/ asks'[q] = Unasked
           \/ /\ asks'[q] = asks[q] /\ asks[q] # Unasked
              /\ asks[q].proc \in Procs \ {p}
    BY <1>1, AskFields DEF IInv
  <1>5. TypeOK'
    <2>1. \A q \in Requests : asks'[q] # Unasked => procs'[asks'[q].proc].pc = "serving"
      BY <1>2, <1>4 DEF IInv, TypeOK
    <2>2. asks' \in [Requests -> Ask]
      BY <1>1, <1>3 DEF IInv, TypeOK
    <2> QED
      BY <1>1, <1>3, <2>1, <2>2 DEF IInv, TypeOK
  <1>6. StartInv'
    <2>1. ASSUME NEW q \in Procs
          PROVE  /\ procs'[q].pc \in {"registering", "serving"} =>
                       \A t \in Expected(procs'[q].release) : schema[t] # None
                 /\ procs'[q].pc = "creating" => procs'[q] = procs[q]
                 /\ Starting(q)' => Starting(q) /\ procs'[q].release = procs[q].release
      BY <1>2, <1>3 DEF IInv, StartInv, PastIsInPlace, Starting
    <2> QED
      BY <1>1, <2>1, StartsLast
  <1>7. Grows
    BY <1>1 DEF Grows
  <1>8. ReadyHolds' /\ AsksKnow'
    <2>1. \A q \in Procs : procs'[q] = procs[q] \/ ~Serving(q)'
      BY <1>2, <1>3 DEF Serving
    <2>2. \A q \in Requests :
             \/ asks'[q] = Unasked
             \/ asks'[q] = asks[q] /\ procs'[asks[q].proc] = procs[asks[q].proc]
      BY <1>2, <1>4
    <2> QED
      BY <1>7, <2>1, <2>2, KnowledgeLasts
  <1> QED
    BY <1>5, <1>6, <1>8 DEF IInv

\* Steps that move no process and no request.
LEMMA RestKeeps ==
    ASSUME GroupsAreSane, IInv, Grows, UNCHANGED <<schema, registry, procs, asks, mixed>>,
           admins' \in BOOLEAN, providers' \in BOOLEAN,
           completed' \subseteq ComplianceTypes \union {Placeholder}
    PROVE  IInv'
  <1>1. TypeOK'
    BY DEF IInv, TypeOK
  <1>2. StartInv'
    BY StartsLast DEF IInv, StartInv, PastIsInPlace, Starting
  <1>3. ReadyHolds' /\ AsksKnow'
    BY KnowledgeLasts
  <1> QED
    BY <1>1, <1>2, <1>3 DEF IInv

LEMMA FilesKeep == ASSUME GroupsAreSane, IInv, Files PROVE IInv'
  <1>1. UNCHANGED <<schema, registry, procs, asks, mixed>>
    BY DEF Files
  <1>2. /\ admins \in BOOLEAN /\ providers \in BOOLEAN
        /\ completed \subseteq ComplianceTypes \union {Placeholder}
    BY DEF IInv, TypeOK
  <1>3. /\ admins' \in BOOLEAN /\ providers' \in BOOLEAN
        /\ completed' \subseteq ComplianceTypes \union {Placeholder}
    BY <1>2 DEF Files, CreateAdmin, BootstrapInternalTest, FileProvider, FileEvidence
  <1>4. /\ admins' = admins \/ admins' = TRUE
        /\ providers' = providers \/ providers' = TRUE
        /\ completed \subseteq completed'
    BY DEF Files, CreateAdmin, BootstrapInternalTest, FileProvider, FileEvidence
  <1>5. (admins => admins') /\ (providers => providers')
    BY <1>2, <1>4
  <1>6. Grows
    BY <1>1, <1>4, <1>5 DEF Grows
  <1> QED
    BY <1>1, <1>3, <1>6, RestKeeps

-----------------------------------------------------------------------------
(* Readiness and alerts.                                                    *)

\* A request that is asked or goes on, of a process that stays as it is.
LEMMA AskingKeeps ==
    ASSUME GroupsAreSane, IInv, NEW q \in Requests, NEW new \in Ask \ {Unasked},
           asks' = [asks EXCEPT ![q] = new],
           UNCHANGED <<schema, registry, admins, providers, completed, procs, mixed>>,
           Serving(new.proc), AskKnows(new)
    PROVE  IInv'
  <1>1. asks'[q] = new /\ \A s \in Requests \ {q} : asks'[s] = asks[s]
    BY DEF IInv, TypeOK
  <1>2. TypeOK'
    BY <1>1 DEF IInv, TypeOK, Serving
  <1>3. StartInv'
    BY StartsLast DEF IInv, StartInv, PastIsInPlace, Starting
  <1>4. Grows
    BY DEF Grows
  <1>5. ReadyHolds'
    <2> SUFFICES ASSUME NEW p \in Procs, Serving(p), procs[p].ready PROVE Quiet(p)'
      BY DEF ReadyHolds, Serving
    <2>1. procs[p].release \in Releases
      BY ProcessFields DEF IInv, Serving, Off
    <2> QED
      BY <1>4, <2>1, QuietLasts DEF IInv, ReadyHolds
  <1>6. AsksKnow'
    <2> SUFFICES ASSUME NEW s \in Requests, asks'[s] # Unasked PROVE AskKnows(asks[s])'
      BY DEF AsksKnow
    <2>1. CASE s # q
      BY <1>1, <1>4, <2>1, AskLasts
    <2>2. CASE s = q
      <3>1. new.proc \in Procs /\ new.seen \subseteq Signals
        BY DEF Ask
      <3>2. procs[new.proc].release \in Releases
        BY <3>1, ProcessFields DEF IInv, Serving, Off
      <3>3. \A signal \in new.seen : Holds(new.proc, signal) => Holds(new.proc, signal)'
        BY <1>4, <3>1, <3>2, HoldsLasts DEF IInv
      <3>4. Quiet(new.proc) => Quiet(new.proc)'
        BY <1>4, <3>1, <3>2, QuietLasts DEF IInv
      <3>5. AskKnows(new)'
        BY <3>3, <3>4 DEF AskKnows
      <3> QED
        BY <1>1, <2>2, <3>5 DEF AskKnows
    <2> QED
      BY <2>1, <2>2
  <1> QED
    BY <1>2, <1>3, <1>5, <1>6 DEF IInv

LEMMA StartAskKeeps ==
    ASSUME GroupsAreSane, IInv, NEW q \in Requests, NEW p \in Procs,
           NEW kind \in {"readiness", "alerts"}, StartAsk(q, p, kind)
    PROVE  IInv'
  <1> DEFINE new == [kind |-> kind, proc |-> p, next |-> 1, seen |-> {},
                     wasReady |-> procs[p].ready, failed |-> FALSE]
  <1>1. Serving(p) /\ asks' = [asks EXCEPT ![q] = new]
    BY DEF StartAsk
  <1>2. UNCHANGED <<schema, registry, admins, providers, completed, procs, mixed>>
    BY DEF StartAsk, business
  <1>3. procs[p].ready \in BOOLEAN
    BY <1>1, ProcessFields DEF IInv, Serving, Off
  <1>4. new \in Ask \ {Unasked}
    BY <1>3 DEF Ask, Unasked
  <1>5. AskKnows(new)
    <2>1. procs[p].ready => Quiet(p)
      BY <1>1 DEF IInv, ReadyHolds
    <2>2. \A n \in DOMAIN Reads("alerts", procs[p].config) : ~(n < 1)
      BY ReadsTell
    <2> QED
      BY <2>1, <2>2 DEF AskKnows
  <1> HIDE DEF new
  <1>6. Serving(new.proc)
    BY <1>1 DEF new
  <1> QED
    BY <1>1, <1>2, <1>4, <1>5, <1>6, AskingKeeps

LEMMA ReadSignalKeeps ==
    ASSUME GroupsAreSane, IInv, NEW q \in Requests, ReadSignal(q)
    PROVE  IInv'
  <1>0. PICK ask : ask = asks[q]
    OBVIOUS
  <1>a. PICK reads : reads = Reads(ask.kind, procs[ask.proc].config)
    OBVIOUS
  <1>1. /\ asks[q] # Unasked /\ ask.next \in DOMAIN reads
        /\ UNCHANGED <<schema, registry, admins, providers, completed, procs, mixed>>
    BY <1>0, <1>a DEF ReadSignal, ReadsOf, business
  <1>2. /\ ask \in [kind : {"readiness", "alerts"}, proc : Procs, next : 1 .. 6,
                    seen : SUBSET Signals, wasReady : BOOLEAN, failed : BOOLEAN]
        /\ Serving(ask.proc)
    BY <1>0, <1>1, AskFields DEF IInv, Serving
  <1>3. AskKnows(ask)
    BY <1>0, <1>1 DEF IInv, AsksKnow
  <1>4. PICK signal : signal = reads[ask.next]
    OBVIOUS
  <1>5. /\ ask.next \in 1 .. 5 /\ signal \in Signals
        /\ ask.kind = "alerts" =>
              \/ signal = "migrations"
              \/ /\ procs[ask.proc].config.production
                 /\ signal \in {"providers", "tasks", "types"}
    BY <1>a, <1>1, <1>2, <1>4, ReadsTell
  <1>6. PICK new :
           /\ asks' = [asks EXCEPT ![q] = new]
           /\ \/ /\ Holds(ask.proc, signal)
                 /\ new = [ask EXCEPT !.next = @ + 1, !.seen = @ \union {signal}]
              \/ /\ ~Holds(ask.proc, signal)
                 /\ new = [ask EXCEPT !.next = @ + 1]
              \/ new = [ask EXCEPT !.next = @ + 1, !.failed = TRUE]
    BY <1>0, <1>a, <1>4 DEF ReadSignal, ReadsOf
  <1>7. /\ new \in Ask \ {Unasked}
        /\ new.kind = ask.kind /\ new.proc = ask.proc /\ new.wasReady = ask.wasReady
        /\ new.next = ask.next + 1
        /\ ~new.failed => ~ask.failed
        /\ \/ Holds(ask.proc, signal) /\ new.seen = ask.seen \union {signal}
           \/ ~Holds(ask.proc, signal) /\ new.seen = ask.seen
           \/ new.failed /\ new.seen = ask.seen
    <2> DEFINE Row == [kind : {"readiness", "alerts"}, proc : Procs, next : 1 .. 6,
                       seen : SUBSET Signals, wasReady : BOOLEAN, failed : BOOLEAN]
    <2>1. ask.next + 1 \in 1 .. 6 /\ ask.seen \union {signal} \in SUBSET Signals
      BY <1>2, <1>5
    <2>2. new \in Row
      <3>1. CASE new = [ask EXCEPT !.next = @ + 1, !.seen = @ \union {signal}]
        BY <1>2, <2>1, <3>1
      <3>2. CASE new = [ask EXCEPT !.next = @ + 1]
        BY <1>2, <2>1, <3>2
      <3>3. CASE new = [ask EXCEPT !.next = @ + 1, !.failed = TRUE]
        BY <1>2, <2>1, <3>3
      <3> QED
        BY <1>6, <3>1, <3>2, <3>3
    <2>3. new \in Ask \ {Unasked}
      BY <2>2 DEF Ask, Unasked
    <2>4. /\ new.kind = ask.kind /\ new.proc = ask.proc /\ new.wasReady = ask.wasReady
          /\ new.next = ask.next + 1
      BY <1>2, <1>6
    <2>5. ~new.failed => ~ask.failed
      BY <1>2, <1>6
    <2>6. \/ Holds(ask.proc, signal) /\ new.seen = ask.seen \union {signal}
          \/ ~Holds(ask.proc, signal) /\ new.seen = ask.seen
          \/ new.failed /\ new.seen = ask.seen
      BY <1>2, <1>6
    <2> QED
      BY <2>3, <2>4, <2>5, <2>6
  <1>8. AskKnows(new)
    <2>1. ASSUME ask.kind = "readiness" PROVE \A s \in new.seen : Holds(ask.proc, s)
      BY <1>3, <1>7, <2>1 DEF AskKnows
    <2>2. ASSUME ask.kind = "alerts", ask.wasReady
          PROVE  /\ Quiet(ask.proc)
                 /\ ~new.failed => \A n \in DOMAIN reads : n < new.next => reads[n] \in new.seen
      <3>1. /\ Quiet(ask.proc)
            /\ ~ask.failed => \A n \in DOMAIN reads : n < ask.next => reads[n] \in ask.seen
        BY <1>a, <1>3, <2>2 DEF AskKnows
      <3>2. Holds(ask.proc, signal)
        BY <1>5, <2>2, <3>1 DEF Quiet
      <3>3. \A n \in DOMAIN reads : n < ask.next + 1 => n < ask.next \/ n = ask.next
        BY <1>a, <1>2, <1>5, ReadsTell
      <3> QED
        BY <1>4, <1>7, <3>1, <3>2, <3>3
    <2> QED
      BY <1>a, <1>7, <2>1, <2>2 DEF AskKnows
  <1> QED
    BY <1>1, <1>2, <1>6, <1>7, <1>8, AskingKeeps

\* Ready by readiness: everything the alerts ask about was seen, and still holds.
LEMMA NoBlockersIsQuiet ==
    ASSUME NEW p \in Procs, NEW seen, \A signal \in seen : Holds(p, signal),
           Blockers(procs[p].config, seen) = {}
    PROVE  Quiet(p)
  <1>1. /\ "migrations" \in seen
        /\ procs[p].config.production =>
              /\ procs[p].config.oss /\ procs[p].config.sts /\ procs[p].config.pepper
              /\ procs[p].config.origins /\ procs[p].config.limiter
              /\ GatewayReady(procs[p].config)
              /\ {"providers", "tasks", "types"} \subseteq seen
    BY DEF Blockers, Gaps, Settings, Signals
  <1> QED
    BY <1>1 DEF Quiet

LEMMA AnswerKeeps ==
    ASSUME GroupsAreSane, IInv, NEW q \in Requests, Answer(q)
    PROVE  IInv'
  <1>0. PICK p : p = asks[q].proc
    OBVIOUS
  <1> DEFINE ready == \/ procs[p].ready
                      \/ /\ asks[q].kind = "readiness"
                         /\ Blockers(procs[p].config, asks[q].seen) = {}
             new == [procs[p] EXCEPT !.ready = ready]
  <1>1. /\ asks[q] # Unasked
        /\ procs' = [procs EXCEPT ![p] = new] /\ asks' = [asks EXCEPT ![q] = Unasked]
        /\ UNCHANGED <<schema, registry, admins, providers, completed, mixed>>
    BY <1>0 DEF Answer, business
  <1>2. p \in Procs /\ procs[p].pc = "serving"
    BY <1>0, <1>1, AskFields DEF IInv
  <1>3. procs[p] \in [pc : {"serving"}, release : Releases, config : Configs,
                      ready : BOOLEAN]
    BY <1>2 DEF IInv, TypeOK, Process, Off
  <1>4. ready \in BOOLEAN
    BY <1>3
  <1>5. ready => Quiet(p)
    <2>1. procs[p].ready => Quiet(p)
      BY <1>2 DEF IInv, ReadyHolds, Serving
    <2>2. asks[q].kind = "readiness" => \A signal \in asks[q].seen : Holds(p, signal)
      BY <1>0, <1>1 DEF IInv, AsksKnow, AskKnows
    <2> QED
      BY <1>2, <2>1, <2>2, NoBlockersIsQuiet
  <1>6. PICK r : r = ready
    OBVIOUS
  <1>7. /\ new \in Process /\ new.pc = "serving" /\ new.release = procs[p].release
        /\ new.config = procs[p].config /\ new.ready = r
    BY <1>3, <1>4, <1>6 DEF Process
  <1> HIDE DEF new, ready
  <1>8. procs'[p] = new /\ \A o \in Procs \ {p} : procs'[o] = procs[o]
    BY <1>1, <1>2 DEF IInv, TypeOK
  <1>9. \A s \in Requests : asks'[s] = Unasked \/ asks'[s] = asks[s]
    BY <1>1 DEF IInv, TypeOK
  <1>10. \A o \in Procs : /\ procs'[o].pc = procs[o].pc
                          /\ procs'[o].release = procs[o].release
                          /\ procs'[o].config = procs[o].config
    BY <1>2, <1>7, <1>8
  <1>11. TypeOK'
    <2>1. asks' \in [Requests -> Ask]
      BY <1>1 DEF IInv, TypeOK, Ask
    <2>2. \A s \in Requests : asks'[s] # Unasked => procs'[asks'[s].proc].pc = "serving"
      BY <1>9, <1>10, AskFields DEF IInv
    <2>3. procs' \in [Procs -> Process]
      <3>1. procs \in [Procs -> Process]
        BY DEF IInv, TypeOK
      <3> QED
        BY <1>1, <1>2, <1>7, <3>1
    <2> QED
      BY <1>1, <2>1, <2>2, <2>3 DEF IInv, TypeOK
  <1>12. StartInv'
    <2>1. ASSUME NEW o \in Procs
          PROVE  /\ procs'[o].pc \in {"registering", "serving"} =>
                       \A t \in Expected(procs'[o].release) : schema[t] # None
                 /\ procs'[o].pc = "creating" => procs'[o] = procs[o]
                 /\ Starting(o)' => Starting(o) /\ procs'[o].release = procs[o].release
      BY <1>2, <1>8, <1>10 DEF IInv, StartInv, PastIsInPlace, Starting
    <2> QED
      BY <1>1, <2>1, StartsLast
  <1>13. Grows
    BY <1>1 DEF Grows
  <1>14. ReadyHolds'
    <2> SUFFICES ASSUME NEW o \in Procs, Serving(o)', procs'[o].ready PROVE Quiet(o)'
      BY DEF ReadyHolds
    <2>1. Serving(o) /\ procs[o].release \in Releases
      BY <1>10, ProcessFields DEF IInv, Serving, Off
    <2>2. Quiet(o)
      BY <1>5, <1>6, <1>7, <1>8, <2>1 DEF IInv, ReadyHolds
    <2> QED
      BY <1>10, <1>13, <2>1, <2>2, QuietLasts DEF IInv
  <1>15. AsksKnow'
    <2> SUFFICES ASSUME NEW s \in Requests, asks'[s] # Unasked PROVE AskKnows(asks[s])'
      BY DEF AsksKnow
    <2>1. asks'[s] = asks[s] /\ asks[s].proc \in Procs
      BY <1>9, AskFields DEF IInv
    <2> QED
      BY <1>10, <1>13, <2>1, AskLasts
  <1> QED
    BY <1>11, <1>12, <1>14, <1>15 DEF IInv

-----------------------------------------------------------------------------
(* Theorems about releases.                                                 *)

LEMMA StepKeeps == ASSUME GroupsAreSane, IInv, [Next]_vars PROVE IInv'
  <1>1. CASE Files
    BY <1>1, FilesKeep
  <1>2. ASSUME NEW p \in Procs, Starts(p) PROVE IInv'
    BY <1>2, BootKeeps, CreateTableKeeps, RegisterKeeps, CreatedAllKeeps, DieKeeps
       DEF Starts
  <1>3. ASSUME NEW q \in Requests, Answers(q) PROVE IInv'
    BY <1>3, StartAskKeeps, ReadSignalKeeps, AnswerKeeps DEF Answers
  <1>4. CASE UNCHANGED vars
    <2>1. UNCHANGED <<schema, registry, procs, asks, mixed, admins, providers, completed>>
      BY <1>4 DEF vars, business
    <2>2. Grows
      BY <2>1 DEF Grows
    <2> QED
      BY <2>1, <2>2, RestKeeps DEF IInv, TypeOK
  <1> QED
    BY <1>1, <1>2, <1>3, <1>4 DEF Next

\* The checksum of a group tells the definition of each of its tables.
LEMMA SealsTell ==
    ASSUME GroupsAreSane, IInv, NEW p \in Procs, Serving(p),
           MigrationStatusOK(procs[p].release), NEW t \in Expected(procs[p].release)
    PROVE  /\ schema[t] # None
           /\ t \notin mixed => schema[t] = Definition[procs[p].release][t]
  <1> DEFINE r == procs[p].release
  <1>1. schema[t] # None
    BY DEF IInv, StartInv, PastIsInPlace, Serving
  <1>2. /\ r \in Releases /\ t \in Tables /\ Definition[r][t] # None
        /\ Group[t] \in Groups /\ Group[t] \in GroupsOf(r)
    BY ProcessFields DEF IInv, Serving, Off, GroupsAreSane, Expected, GroupsOf
  <1>3. ASSUME t \notin mixed PROVE schema[t] = Definition[r][t]
    <2>1. registry[Group[t]] = Checksum(r, Group[t])
      BY <1>2 DEF MigrationStatusOK
    <2>2. PICK s \in Releases : Sealed(s, t)
      BY <1>2, <1>3, <2>1 DEF IInv, StartInv, RegisteredIsSealed, GroupsAreSane
    <2>3. Checksum(s, Group[t]) = Checksum(r, Group[t])
      BY <2>1, <2>2 DEF Sealed
    <2>4. /\ Checksum(s, Group[t])[t] = Definition[s][t]
          /\ Checksum(r, Group[t])[t] = Definition[r][t]
      BY <1>2 DEF Checksum
    <2> QED
      BY <1>2, <2>2, <2>3, <2>4 DEF Sealed
  <1> QED
    BY <1>1, <1>3

\* A request for the alerts of a process that was ready has found all it read.
LEMMA KnownIsQuiet == ASSUME GroupsAreSane, IInv PROVE ReadyIsQuiet
  <1> SUFFICES ASSUME NEW q \in Requests, asks[q].kind = "alerts", asks[q].wasReady,
                      ~asks[q].failed, asks[q].next > Len(ReadsOf(q))
               PROVE  CriticalAlerts(procs[asks[q].proc].config, asks[q].seen) = {}
    BY DEF ReadyIsQuiet
  <1> DEFINE config == procs[asks[q].proc].config
             seen == asks[q].seen
             reads == Reads("alerts", config)
  <1>1. asks[q] # Unasked
    BY DEF Unasked
  <1>2. asks[q].next \in Int /\ seen \subseteq Signals
    BY <1>1, AskFields DEF IInv
  <1>3. /\ Quiet(asks[q].proc)
        /\ \A n \in DOMAIN reads : n < asks[q].next => reads[n] \in seen
    BY <1>1 DEF IInv, AsksKnow, AskKnows
  <1>4. \A n \in 1 .. Len(reads) : n < asks[q].next
    BY <1>2 DEF ReadsOf, Reads, AlertReads
  <1>5. CASE config.production
    <2>1. reads = AlertReads
      BY <1>5 DEF Reads
    <2>2. {"migrations", "providers", "tasks", "types"} \subseteq seen
      BY <1>3, <1>4, <2>1 DEF AlertReads
    <2>3. /\ config.oss /\ config.sts /\ config.pepper /\ config.origins /\ config.limiter
          /\ GatewayReady(config)
      BY <1>3, <1>5 DEF Quiet
    <2> QED
      BY <1>5, <2>2, <2>3 DEF CriticalAlerts, Gaps, Settings, Signals
  <1>6. CASE ~config.production
    <2>1. reads = <<"migrations">>
      BY <1>6 DEF Reads
    <2>2. 1 \in 1 .. Len(reads) /\ 1 \in DOMAIN reads /\ reads[1] = "migrations"
      BY <2>1
    <2>3. "migrations" \in seen
      BY <1>3, <1>4, <2>2
    <2> QED
      BY <1>6, <2>3 DEF CriticalAlerts
  <1> QED
    BY <1>5, <1>6

\* Whatever groups and definitions the releases have, in whatever order they start, with
\* crashes at any point and starts side by side: a serving process whose migration
\* status is fine has its tables, and has each as its release defines it, unless
\* releases disagreed about that table before its group was registered (Migrate,
\* RegisterExpectedMigrations, MigrationStatus).
THEOREM StatusIsTrue == ASSUME GroupsAreSane PROVE Spec => []StatusTellsTables
  <1>1. Init => IInv
    BY InitHolds
  <1>2. IInv /\ [Next]_vars => IInv'
    BY StepKeeps
  <1>3. IInv => StatusTellsTables
    BY SealsTell DEF StatusTellsTables
  <1> QED
    BY <1>1, <1>2, <1>3, PTL DEF Spec

\* Whatever its five reads were interleaved with: a request for the alerts of a process
\* that once answered it was ready ends without a critical alert about release or
\* configuration, unless one of its own reads failed (launchReadiness,
\* operationalAlerts).
THEOREM ReadinessLasts == ASSUME GroupsAreSane PROVE Spec => []ReadyIsQuiet
  <1>1. Init => IInv
    BY InitHolds
  <1>2. IInv /\ [Next]_vars => IInv'
    BY StepKeeps
  <1>3. IInv => ReadyIsQuiet
    BY KnownIsQuiet
  <1> QED
    BY <1>1, <1>2, <1>3, PTL DEF Spec

\* A process is of one of its stages with what that stage remembers; the tables and the
\* registry hold definitions and checksums of releases only.
THEOREM TypeCorrect == ASSUME GroupsAreSane PROVE Spec => []TypeOK
  <1>1. Init => IInv
    BY InitHolds
  <1>2. IInv /\ [Next]_vars => IInv'
    BY StepKeeps
  <1>3. IInv => TypeOK
    BY DEF IInv
  <1> QED
    BY <1>1, <1>2, <1>3, PTL DEF Spec

-----------------------------------------------------------------------------
(* The rate limiter.                                                         *)

Waiting == [client : Clients, now : Limiter!Moments]

LimiterIsSane ==
    /\ Limit \in Nat \ {0} /\ Window \in Nat \ {0}
    /\ Delay \in Nat /\ MaxTime \in Nat
    /\ None \notin Limiter!Bucket \union Waiting

Timely == Delay < Window

\* A request is let through in its window or a Delay later, and, where the wait for the
\* mutex is shorter than a window, Limit requests later in a later window.
Spaced(s, when) ==
    /\ \A i \in DOMAIN s :
          /\ s[i].start <= s[i].at /\ s[i].at <= when
          /\ s[i].at < s[i].start + Window + Delay
    /\ Timely => \A i, j \in DOMAIN s :
          /\ i <= j => s[i].start <= s[j].start
          /\ i + Limit <= j => s[i].start + Window <= s[j].start

\* A bucket tells how many were let through in its window; those before, or all of them
\* once the bucket is gone, belong to windows that are over.
Counted(s, b, when) ==
    /\ b # None =>
          /\ b.start <= when /\ b.count >= 1 /\ b.count <= Len(s)
          /\ \A i \in DOMAIN s : i > Len(s) - b.count => s[i].start = b.start
          /\ Timely => \A i \in DOMAIN s :
                i <= Len(s) - b.count => s[i].start + Window <= b.start
    /\ b = None /\ Timely => \A i \in DOMAIN s : s[i].start + Window + Delay <= when

Sound(s, b, when) == Spaced(s, when) /\ Counted(s, b, when)

LimiterInv ==
    /\ Limiter!TypeOK
    /\ \A t \in Threads : waiting[t] # None =>
          waiting[t].now <= time /\ time - waiting[t].now <= Delay
    /\ \A c \in Clients : Sound(admitted[c], buckets[c], time)

LEMMA AdmissionFields ==
    ASSUME NEW s \in Seq(Limiter!Admission)
    PROVE  /\ Len(s) \in Nat /\ DOMAIN s = 1 .. Len(s)
           /\ \A i \in DOMAIN s :
                 s[i] \in Limiter!Admission /\ s[i].start \in Int /\ s[i].at \in Int
  <1>1. Len(s) \in Nat /\ DOMAIN s = 1 .. Len(s)
    OBVIOUS
  <1>2. ASSUME NEW i \in DOMAIN s PROVE s[i] \in Limiter!Admission
    OBVIOUS
  <1>3. \A a \in Limiter!Admission : a.start \in Int /\ a.at \in Int
    BY DEF Limiter!Admission, Limiter!Moments
  <1> QED
    BY <1>1, <1>2, <1>3

LEMMA SoundLasts ==
    ASSUME LimiterIsSane, NEW s \in Seq(Limiter!Admission),
           NEW b \in Limiter!Bucket \union {None},
           NEW when \in Limiter!Moments, NEW later \in Limiter!Moments, when <= later,
           Sound(s, b, when)
    PROVE  Sound(s, b, later)
  <1>1. \A i \in DOMAIN s : s[i].start \in Int /\ s[i].at \in Int
    BY AdmissionFields
  <1>2. /\ when \in Int /\ later \in Int /\ Window \in Int /\ Delay \in Int
        /\ b # None => b.start \in Int
    BY DEF LimiterIsSane, Limiter!Moments, Limiter!Bucket
  <1> QED
    BY <1>1, <1>2 DEF Sound, Spaced, Counted

\* A bucket is dropped only when its window has been over for longer than another one.
LEMMA SoundWithout ==
    ASSUME LimiterIsSane, NEW s \in Seq(Limiter!Admission), NEW b \in Limiter!Bucket,
           NEW when \in Limiter!Moments, NEW now \in Limiter!Moments, now <= when,
           now - b.start > 2 * Window, Sound(s, b, when)
    PROVE  Sound(s, None, when)
  <1>1. b # None /\ b.start \in Int /\ b.count \in Int /\ Len(s) \in Int
    BY DEF LimiterIsSane, Limiter!Bucket, Limiter!Moments
  <1>2. when \in Int /\ now \in Int /\ Window \in Nat /\ Delay \in Nat
    BY DEF LimiterIsSane, Limiter!Moments
  <1>3. ASSUME Timely, NEW i \in DOMAIN s PROVE s[i].start + Window + Delay <= when
    <2>1. s[i].start \in Int /\ i \in Int /\ Len(s) \in Int
      BY AdmissionFields
    <2>2. s[i].start <= b.start
      BY <1>1, <1>2, <1>3, <2>1 DEF Sound, Counted
    <2> QED
      BY <1>1, <1>2, <1>3, <2>1, <2>2 DEF Timely
  <1> QED
    BY <1>3 DEF Sound, Counted

LEMMA SoundWithOneMore ==
    ASSUME LimiterIsSane, NEW s \in Seq(Limiter!Admission),
           NEW b \in Limiter!Bucket \union {None}, NEW when \in Limiter!Moments,
           NEW now \in Limiter!Moments, now <= when, when - now <= Delay,
           Sound(s, b, when), NEW bucket, bucket.count < Limit,
           bucket = IF b # None /\ now - b.start < Window THEN b
                    ELSE [start |-> now, count |-> 0],
           NEW new, new = [at |-> when, start |-> bucket.start]
    PROVE  /\ Sound(Append(s, new), [bucket EXCEPT !.count = @ + 1], when)
           /\ new \in Limiter!Admission /\ [bucket EXCEPT !.count = @ + 1] \in Limiter!Bucket
  <1>1. PICK next : next = [bucket EXCEPT !.count = @ + 1]
    OBVIOUS
  <1>2. /\ when \in Int /\ now \in Int /\ Window \in Nat \ {0} /\ Delay \in Nat
        /\ Limit \in Nat \ {0}
    BY DEF LimiterIsSane, Limiter!Moments
  <1>3. bucket \in Limiter!Bucket
    BY <1>2 DEF Limiter!Bucket
  <1>4. /\ bucket.start \in Limiter!Moments /\ bucket.start \in Int /\ bucket.count \in Nat
        /\ next.start = bucket.start /\ next.count = bucket.count + 1 /\ next \in Limiter!Bucket
    BY <1>1, <1>2, <1>3 DEF Limiter!Bucket, Limiter!Moments
  <1>5. /\ new \in Limiter!Admission /\ new.at = when /\ new.start = bucket.start
    BY <1>4 DEF Limiter!Admission
  <1>6. /\ bucket.start <= when /\ when < bucket.start + Window + Delay
        /\ bucket.count <= Len(s)
        /\ \A i \in DOMAIN s : i > Len(s) - bucket.count => s[i].start = bucket.start
        /\ Timely => \A i \in DOMAIN s :
              i <= Len(s) - bucket.count => s[i].start + Window <= bucket.start
    <2>1. CASE b # None /\ now - b.start < Window
      <3>1. bucket = b
        BY <2>1
      <3> QED
        BY <1>2, <1>4, <2>1, <3>1 DEF Sound, Counted
    <2>2. CASE ~(b # None /\ now - b.start < Window)
      <3>1. bucket.start = now /\ bucket.count = 0
        BY <2>2
      <3>2. ASSUME Timely, NEW i \in DOMAIN s PROVE s[i].start + Window <= now
        <4>1. s[i].start \in Int /\ i \in Int /\ Len(s) \in Int
          BY AdmissionFields
        <4>2. CASE b = None
          BY <1>2, <3>2, <4>1, <4>2 DEF Sound, Counted
        <4>3. CASE b # None
          <5>1. b.start \in Int /\ b.count \in Int
            BY <4>3 DEF Limiter!Bucket, Limiter!Moments
          <5>2. s[i].start <= b.start
            BY <1>2, <3>2, <4>1, <4>3, <5>1 DEF Sound, Counted
          <5>3. b.start + Window <= now
            BY <1>2, <2>2, <4>3, <5>1
          <5> QED
            BY <1>2, <4>1, <5>1, <5>2, <5>3
        <4> QED
          BY <4>2, <4>3
      <3> QED
        BY <1>2, <3>1, <3>2
    <2> QED
      BY <2>1, <2>2
  <1>7. PICK more : more = Append(s, new)
    OBVIOUS
  <1>8. /\ Len(more) = Len(s) + 1 /\ Len(s) \in Nat /\ DOMAIN more = 1 .. Len(s) + 1
        /\ DOMAIN s = 1 .. Len(s)
        /\ \A i \in DOMAIN s : more[i] = s[i] /\ s[i].start \in Int /\ s[i].at \in Int
        /\ more[Len(s) + 1] = new
    BY <1>5, <1>7, AdmissionFields
  <1>9. Spaced(more, when)
    <2>1. ASSUME NEW i \in DOMAIN more
          PROVE  /\ more[i].start <= more[i].at /\ more[i].at <= when
                 /\ more[i].at < more[i].start + Window + Delay
      BY <1>2, <1>4, <1>5, <1>6, <1>8 DEF Sound, Spaced
    <2>2. ASSUME Timely, NEW i \in DOMAIN more, NEW j \in DOMAIN more
          PROVE  /\ i <= j => more[i].start <= more[j].start
                 /\ i + Limit <= j => more[i].start + Window <= more[j].start
      <3>1. CASE i \in DOMAIN s /\ j \in DOMAIN s
        BY <1>8, <2>2, <3>1 DEF Sound, Spaced
      <3>2. CASE i \in DOMAIN s /\ j = Len(s) + 1
        <4>1. PICK n, k, from : n = Len(s) /\ k = bucket.count /\ from = bucket.start
          OBVIOUS
        <4>2. /\ n \in Nat /\ k \in Nat /\ from \in Int /\ i \in Int /\ s[i].start \in Int
              /\ k < Limit /\ more[i] = s[i] /\ more[j].start = from
          BY <1>4, <1>5, <1>8, <3>2, <4>1
        <4>3. /\ i > n - k => s[i].start = from
              /\ i <= n - k => s[i].start + Window <= from
          BY <1>6, <2>2, <3>2, <4>1
        <4>4. CASE i > n - k
          <5>1. ~(i + Limit <= j)
            BY <1>2, <3>2, <4>1, <4>2, <4>4
          <5> QED
            BY <4>2, <4>3, <4>4, <5>1
        <4>5. CASE i <= n - k
          <5>1. s[i].start + Window <= from
            BY <4>3, <4>5
          <5>2. s[i].start <= from
            BY <1>2, <4>2, <5>1
          <5> QED
            BY <4>2, <5>1, <5>2
        <4> QED
          BY <4>2, <4>4, <4>5
      <3>3. CASE i = Len(s) + 1 /\ j = Len(s) + 1
        BY <1>2, <1>4, <1>5, <1>8, <3>3
      <3>4. CASE i = Len(s) + 1 /\ j \in DOMAIN s
        BY <1>2, <1>8, <3>4
      <3> QED
        BY <1>8, <3>1, <3>2, <3>3, <3>4
    <2> QED
      BY <2>1, <2>2 DEF Spaced
  <1>10. Counted(more, next, when)
    <2>1. next # None
      BY <1>4 DEF LimiterIsSane
    <2>2. ASSUME NEW i \in DOMAIN more, i > Len(more) - next.count
          PROVE  more[i].start = next.start
      <3>1. CASE i \in DOMAIN s
        <4>1. i > Len(s) - bucket.count /\ more[i] = s[i]
          BY <1>4, <1>8, <2>2, <3>1
        <4> QED
          BY <1>4, <1>6, <3>1, <4>1
      <3>2. CASE i = Len(s) + 1
        BY <1>4, <1>5, <1>8, <3>2
      <3> QED
        BY <1>8, <3>1, <3>2
    <2>3. ASSUME Timely, NEW i \in DOMAIN more, i <= Len(more) - next.count
          PROVE  more[i].start + Window <= next.start
      <3>1. i \in DOMAIN s /\ i <= Len(s) - bucket.count /\ more[i] = s[i]
        BY <1>4, <1>8, <2>3
      <3> QED
        BY <1>4, <1>6, <2>3, <3>1
    <2> QED
      BY <1>4, <1>6, <1>8, <2>1, <2>2, <2>3 DEF Counted
  <1> QED
    BY <1>1, <1>4, <1>5, <1>7, <1>9, <1>10 DEF Sound

-----------------------------------------------------------------------------
\* Limit more requests than a window has room for cannot fall into one window.
LEMMA BurstIsBounded ==
    ASSUME LimiterIsSane, NEW s \in Seq(Limiter!Admission), NEW when, Spaced(s, when),
           NEW m \in Limiter!Moments
    PROVE  Cardinality({i \in DOMAIN s :
              s[i].at \in m .. m + Window - Delay - 1 \intersect Limiter!Moments}) <= 2 * Limit
  <1>1. PICK I : I = {i \in DOMAIN s :
              s[i].at \in m .. m + Window - Delay - 1 \intersect Limiter!Moments}
    OBVIOUS
  <1>2. /\ Window \in Nat \ {0} /\ Delay \in Nat /\ Limit \in Nat \ {0} /\ m \in Int
        /\ 2 * Limit \in Nat
    BY DEF LimiterIsSane, Limiter!Moments
  <1>3. CASE I = {}
    <2>1. Cardinality(I) = 0
      BY <1>3, FS_EmptySet
    <2> QED
      BY <1>1, <1>2, <2>1
  <1>4. CASE I # {}
    <2>1. I \subseteq Nat /\ I \subseteq DOMAIN s
      BY <1>1, AdmissionFields
    <2>2. PICK first \in I : \A j \in I : first <= j
      <3> DEFINE Upto == {1 .. i : i \in I}
      <3>1. PICK n \in Nat : I \subseteq 1 .. n /\ IsFiniteSet(1 .. n)
        <4>1. Len(s) \in Nat /\ I \subseteq 1 .. Len(s)
          BY <2>1, AdmissionFields
        <4>2. IsFiniteSet(1 .. Len(s))
          BY <4>1, FS_Interval
        <4> QED
          BY <4>1, <4>2
      <3>2. Upto # {} /\ Upto \subseteq FiniteSubsetsOf(1 .. n)
        <4>1. \A i \in I : 1 .. i \in SUBSET (1 .. n)
          BY <3>1
        <4>2. SUBSET (1 .. n) = FiniteSubsetsOf(1 .. n)
          BY <3>1, FS_FiniteSubsetsOfFinite
        <4>3. ASSUME NEW V \in Upto PROVE V \in FiniteSubsetsOf(1 .. n)
          BY <4>1, <4>2
        <4>4. PICK i \in I : TRUE
          BY <1>4
        <4>5. 1 .. i \in Upto
          BY <4>4
        <4> QED
          BY <4>3, <4>5
      <3>3. PICK U \in Upto : \A V \in Upto : <<V, U>> \notin StrictSubsetOrdering(1 .. n)
        <4> HIDE DEF Upto
        <4> QED
          BY <3>1, <3>2, FS_StrictSubsetOrderingWellFounded, WFMin
      <3>4. PICK j \in I : U = 1 .. j
        OBVIOUS
      <3>5. ASSUME NEW i \in I, i < j PROVE FALSE
        <4>1. i \in 1 .. n /\ j \in 1 .. n
          BY <3>1
        <4>2. 1 .. i \in SUBSET (1 .. n) /\ U \in SUBSET (1 .. n) /\ 1 .. i \in Upto
          BY <3>4, <4>1
        <4>3. 1 .. i \subseteq U /\ 1 .. i # U
          BY <3>4, <3>5, <4>1
        <4> QED
          BY <3>3, <4>2, <4>3 DEF StrictSubsetOrdering
      <3> QED
        BY <2>1, <3>5
    <2>3. ASSUME NEW j \in I PROVE j \in first .. first + 2 * Limit - 1
      <3>1. /\ j \in DOMAIN s /\ first \in DOMAIN s /\ first \in Nat /\ j \in Nat /\ first <= j
            /\ DOMAIN s = 1 .. Len(s) /\ Len(s) \in Nat
            /\ \A i \in DOMAIN s : s[i].start \in Int /\ s[i].at \in Int
        BY <2>1, <2>2, AdmissionFields
      <3>2. /\ m <= s[first].at /\ s[j].at <= m + Window - Delay - 1
        BY <1>1, <1>2, <3>1
      <3>3. Timely
        <4>1. m <= m + Window - Delay - 1
          <5>1. s[first].at <= m + Window - Delay - 1
            BY <1>1, <1>2, <3>1
          <5> QED
            BY <1>2, <3>1, <3>2, <5>1
        <4> QED
          BY <1>2, <4>1 DEF Timely
      <3>4. CASE first + 2 * Limit <= j
        <4>1. PICK a, b : a = first + Limit /\ b = a + Limit
          OBVIOUS
        <4>2. a \in DOMAIN s /\ b \in DOMAIN s /\ a + Limit <= b /\ first + Limit <= a /\ b <= j
          BY <1>2, <3>1, <3>4, <4>1
        <4>3. /\ s[first].start + Window <= s[a].start /\ s[a].start + Window <= s[b].start
              /\ s[b].start <= s[j].start
          BY <3>1, <3>3, <4>2 DEF Spaced
        <4>4. s[first].at < s[first].start + Window + Delay /\ s[j].start <= s[j].at
          BY <3>1 DEF Spaced
        <4>5. PICK x, y, z, u, v, w :
                 /\ x = s[first].start /\ y = s[a].start /\ z = s[b].start /\ u = s[j].start
                 /\ v = s[first].at /\ w = s[j].at
          OBVIOUS
        <4>6. /\ x \in Int /\ y \in Int /\ z \in Int /\ u \in Int /\ v \in Int /\ w \in Int
              /\ m <= v /\ w <= m + Window - Delay - 1
              /\ x + Window <= y /\ y + Window <= z /\ z <= u /\ v < x + Window + Delay /\ u <= w
          BY <3>1, <3>2, <4>2, <4>3, <4>4, <4>5
        <4> QED
          BY <1>2, <4>6
      <3> QED
        BY <1>2, <3>1, <3>4
    <2>4. PICK span : span = first .. first + 2 * Limit - 1
      OBVIOUS
    <2>5. IsFiniteSet(span) /\ Cardinality(span) = 2 * Limit
      <3>1. PICK last : last = first + 2 * Limit - 1
        OBVIOUS
      <3>2. last \in Int /\ first \in Int /\ first <= last /\ last - first + 1 = 2 * Limit
        BY <1>2, <2>1, <3>1
      <3> QED
        BY <2>4, <3>1, <3>2, FS_Interval
    <2> QED
      BY <1>1, <2>3, <2>4, <2>5, FS_Subset
  <1> QED
    BY <1>3, <1>4

\* A full bucket has Limit requests let through since its window began.
LEMMA FullIsBusy ==
    ASSUME LimiterIsSane, NEW s \in Seq(Limiter!Admission), NEW b \in Limiter!Bucket,
           NEW when, Sound(s, b, when), b.count >= Limit, NEW since \in Int, since < b.start
    PROVE  Cardinality({i \in DOMAIN s :
              s[i].at \in {m \in Limiter!Moments : m > since}}) >= Limit
  <1>1. PICK I : I = {i \in DOMAIN s : s[i].at \in {m \in Limiter!Moments : m > since}}
    OBVIOUS
  <1>2. /\ b # None /\ b.start \in Int /\ b.count \in Int /\ Limit \in Nat \ {0}
        /\ b.count <= Limit
    BY DEF LimiterIsSane, Limiter!Bucket, Limiter!Moments
  <1>3. PICK n : n = Len(s)
    OBVIOUS
  <1>4. n \in Nat /\ DOMAIN s = 1 .. n /\ b.count = Limit /\ Limit <= n
    BY <1>2, <1>3, AdmissionFields DEF Sound, Counted
  <1>5. ASSUME NEW i \in n - Limit + 1 .. n PROVE i \in I
    <2>1. i \in DOMAIN s /\ i > n - Limit
      BY <1>2, <1>4
    <2>2. s[i].start = b.start
      BY <1>2, <1>3, <1>4, <2>1 DEF Sound, Counted
    <2>3. s[i].start <= s[i].at
      BY <2>1 DEF Sound, Spaced
    <2>4. s[i] \in Limiter!Admission /\ s[i].at \in Limiter!Moments /\ s[i].at \in Int
      BY <2>1, AdmissionFields DEF Limiter!Admission
    <2> QED
      BY <1>1, <1>2, <2>1, <2>2, <2>3, <2>4
  <1>6. PICK last : last = n - Limit + 1 .. n
    OBVIOUS
  <1>7. Cardinality(last) = Limit
    <2>1. PICK from : from = n - Limit + 1
      OBVIOUS
    <2>2. from \in Int /\ n \in Int /\ from <= n /\ n - from + 1 = Limit
      BY <1>2, <1>4, <2>1
    <2> QED
      BY <1>6, <2>1, <2>2, FS_Interval
  <1>8. IsFiniteSet(I)
    <2>1. IsFiniteSet(1 .. n) /\ I \subseteq 1 .. n
      BY <1>1, <1>4, FS_Interval
    <2> QED
      BY <2>1, FS_Subset
  <1>9. Cardinality(last) <= Cardinality(I)
    BY <1>5, <1>6, <1>8, FS_Subset
  <1>10. Cardinality(I) \in Int
    BY <1>8, FS_CardinalityType
  <1> QED
    BY <1>1, <1>2, <1>7, <1>9, <1>10

-----------------------------------------------------------------------------
\* The instance counts as this module does.
LEMMA SameCardinality == ASSUME NEW S PROVE Limiter!Cardinality(S) = Cardinality(S)
  BY DEF Limiter!Cardinality, Cardinality

LEMMA PrunedOr ==
    ASSUME NEW table, NEW now, NEW c \in Clients
    PROVE  \/ Limiter!Pruned(table, now)[c] = table[c]
           \/ /\ Limiter!Pruned(table, now)[c] = None /\ table[c] # None
              /\ now - table[c].start > 2 * Window
  BY DEF Limiter!Pruned

LEMMA ClockFields ==
    ASSUME LimiterIsSane, Limiter!TypeOK, NEW t \in Threads, waiting[t] # None
    PROVE  waiting[t].client \in Clients /\ waiting[t].now \in Limiter!Moments
  BY DEF Limiter!TypeOK

\* What a request does to the bucket it is counted in and to the history.
LEMMA AllowIsSound ==
    ASSUME LimiterIsSane, LimiterInv, NEW t \in Threads, Limiter!Allow(t)
    PROVE  LimiterInv'
  <1>1. waiting[t] # None /\ waiting[t].client \in Clients /\ waiting[t].now \in Limiter!Moments
    BY ClockFields DEF Limiter!Allow, LimiterInv
  <1>2. PICK c, now, bucket : c = waiting[t].client /\ now = waiting[t].now
           /\ bucket = Limiter!CurrentBucket(c, now)
    OBVIOUS
  <1>3. /\ c \in Clients /\ now \in Limiter!Moments /\ time \in Limiter!Moments
        /\ now <= time /\ time - now <= Delay
        /\ buckets[c] \in Limiter!Bucket \union {None} /\ admitted[c] \in Seq(Limiter!Admission)
        /\ Sound(admitted[c], buckets[c], time)
    BY <1>1, <1>2 DEF LimiterInv, Limiter!TypeOK
  <1>4. PICK full, next, new :
           /\ full = (bucket.count >= Limit)
           /\ next = IF full THEN bucket ELSE [bucket EXCEPT !.count = @ + 1]
           /\ new = [at |-> time, start |-> bucket.start]
    OBVIOUS
  <1>5. PICK table : table = [buckets EXCEPT ![c] = next]
    OBVIOUS
  <1>6. bucket \in Limiter!Bucket
    BY <1>2, <1>3 DEF Limiter!CurrentBucket, Limiter!Bucket, LimiterIsSane
  <1>7. /\ buckets' = Limiter!Pruned(table, now)
        /\ admitted' = IF full THEN admitted ELSE Limiter!Admitting(c, next)
        /\ waiting' = [waiting EXCEPT ![t] = None] /\ time' = time
    BY <1>2, <1>4, <1>5 DEF Limiter!Allow
  <1>8. PICK s \in Seq(Limiter!Admission) :
           /\ Sound(s, next, time) /\ next \in Limiter!Bucket
           /\ admitted' = [admitted EXCEPT ![c] = s]
    <2>1. CASE full
      <3>1. next = bucket /\ bucket.count >= Limit
        BY <1>4, <2>1
      <3>2. bucket = buckets[c]
        BY <1>2, <3>1 DEF Limiter!CurrentBucket, LimiterIsSane
      <3>3. admitted' = [admitted EXCEPT ![c] = admitted[c]]
        BY <1>3, <1>7, <2>1 DEF LimiterInv, Limiter!TypeOK
      <3> QED
        BY <1>3, <1>6, <3>1, <3>2, <3>3
    <2>2. CASE ~full
      <3>1. bucket.count < Limit
        <4>1. ~(bucket.count >= Limit)
          BY <1>4, <2>2
        <4>2. bucket.count \in Int /\ Limit \in Int
          BY <1>6 DEF Limiter!Bucket, LimiterIsSane
        <4> QED
          BY <4>1, <4>2
      <3>2. next = [bucket EXCEPT !.count = @ + 1] /\ next.start = bucket.start
        BY <1>4, <1>6, <2>2 DEF Limiter!Bucket
      <3>3. bucket = IF buckets[c] # None /\ now - buckets[c].start < Window THEN buckets[c]
                     ELSE [start |-> now, count |-> 0]
        BY <1>2 DEF Limiter!CurrentBucket
      <3>4. /\ Sound(Append(admitted[c], new), next, time)
            /\ new \in Limiter!Admission /\ next \in Limiter!Bucket
        BY <1>3, <1>4, <3>1, <3>2, <3>3, SoundWithOneMore
      <3>5. admitted' = [admitted EXCEPT ![c] = Append(admitted[c], new)]
        BY <1>4, <1>7, <2>2, <3>2 DEF Limiter!Admitting
      <3>6. Append(admitted[c], new) \in Seq(Limiter!Admission)
        BY <1>3, <3>4
      <3> QED
        BY <3>4, <3>5, <3>6
    <2> QED
      BY <2>1, <2>2
  <1>9. /\ table \in [Clients -> Limiter!Bucket \union {None}]
        /\ admitted' \in [Clients -> Seq(Limiter!Admission)]
        /\ \A d \in Clients : Sound(admitted'[d], table[d], time)
    BY <1>3, <1>5, <1>8 DEF LimiterInv, Limiter!TypeOK
  <1>10. ASSUME NEW d \in Clients
         PROVE  /\ buckets'[d] \in Limiter!Bucket \union {None}
                /\ Sound(admitted'[d], buckets'[d], time)
    <2>1. CASE buckets'[d] = table[d]
      BY <1>9, <2>1
    <2>2. CASE buckets'[d] = None /\ table[d] # None /\ now - table[d].start > 2 * Window
      <3>1. table[d] \in Limiter!Bucket /\ admitted'[d] \in Seq(Limiter!Admission)
        BY <1>9, <2>2
      <3> QED
        BY <1>3, <1>9, <2>2, <3>1, SoundWithout
    <2> QED
      BY <1>7, <2>1, <2>2, PrunedOr
  <1>11. Limiter!TypeOK'
    <2>1. buckets' = [d \in Clients |-> buckets'[d]]
      BY <1>7 DEF Limiter!Pruned
    <2>2. buckets' \in [Clients -> Limiter!Bucket \union {None}]
      BY <1>10, <2>1
    <2> QED
      BY <1>7, <1>9, <2>2 DEF LimiterInv, Limiter!TypeOK
  <1>12. \A u \in Threads : waiting'[u] # None =>
            waiting'[u].now <= time /\ time - waiting'[u].now <= Delay
    BY <1>7 DEF LimiterInv, Limiter!TypeOK
  <1> QED
    BY <1>7, <1>10, <1>11, <1>12 DEF LimiterInv

LEMMA LimiterInvHolds ==
    ASSUME LimiterIsSane
    PROVE  Limiter!Spec => []LimiterInv
  <1>1. Limiter!Init => LimiterInv
    <2> SUFFICES ASSUME Limiter!Init PROVE LimiterInv
      OBVIOUS
    <2>1. <<>> \in Seq(Limiter!Admission) /\ DOMAIN <<>> = {}
      OBVIOUS
    <2>2. Sound(<<>>, None, 0)
      BY <2>1 DEF Sound, Spaced, Counted
    <2> QED
      BY <2>1, <2>2 DEF Limiter!Init, LimiterInv, Limiter!TypeOK, LimiterIsSane, Limiter!Moments
  <1>2. LimiterInv /\ [Limiter!Next]_Limiter!vars => LimiterInv'
    <2> SUFFICES ASSUME LimiterInv, [Limiter!Next]_Limiter!vars PROVE LimiterInv'
      OBVIOUS
    <2>1. CASE UNCHANGED Limiter!vars
      BY <2>1 DEF Limiter!vars, LimiterInv, Limiter!TypeOK
    <2>2. ASSUME NEW t \in Threads, Limiter!Allow(t) PROVE LimiterInv'
      BY <2>2, AllowIsSound
    <2>3. ASSUME NEW t \in Threads, NEW c \in Clients, Limiter!ReadClock(t, c) PROVE LimiterInv'
      <3>1. time \in Nat /\ Delay \in Nat
        BY DEF LimiterInv, Limiter!TypeOK, Limiter!Moments, LimiterIsSane
      <3>2. Limiter!TypeOK'
        BY <2>3 DEF Limiter!ReadClock, LimiterInv, Limiter!TypeOK
      <3>3. \A u \in Threads : waiting'[u] # None =>
               waiting'[u].now <= time /\ time - waiting'[u].now <= Delay
        BY <2>3, <3>1 DEF Limiter!ReadClock, LimiterInv, Limiter!TypeOK
      <3> QED
        BY <2>3, <3>2, <3>3 DEF Limiter!ReadClock, LimiterInv
    <2>4. CASE Limiter!Tick
      <3>1. /\ time \in Nat /\ Delay \in Nat /\ time' = time + 1 /\ time' \in Limiter!Moments
            /\ time \in Limiter!Moments /\ time <= time'
        BY <2>4 DEF Limiter!Tick, LimiterInv, Limiter!TypeOK, Limiter!Moments, LimiterIsSane
      <3>2. Limiter!TypeOK'
        BY <2>4, <3>1 DEF Limiter!Tick, LimiterInv, Limiter!TypeOK
      <3>3. ASSUME NEW u \in Threads, waiting[u] # None
            PROVE  waiting[u].now <= time' /\ time' - waiting[u].now <= Delay
        <4>1. waiting[u].now \in Nat
          BY <3>3, ClockFields DEF LimiterInv, Limiter!Moments
        <4>2. waiting[u].now <= time /\ time - waiting[u].now < Delay
          BY <2>4, <3>3 DEF Limiter!Tick, LimiterInv
        <4> QED
          BY <3>1, <4>1, <4>2
      <3>4. ASSUME NEW c \in Clients PROVE Sound(admitted[c], buckets[c], time')
        <4>1. /\ admitted[c] \in Seq(Limiter!Admission)
              /\ buckets[c] \in Limiter!Bucket \union {None}
              /\ Sound(admitted[c], buckets[c], time)
          BY DEF LimiterInv, Limiter!TypeOK
        <4> QED
          BY <3>1, <4>1, SoundLasts
      <3> QED
        BY <2>4, <3>2, <3>3, <3>4 DEF Limiter!Tick, LimiterInv
    <2> QED
      BY <2>1, <2>2, <2>3, <2>4 DEF Limiter!Next
  <1> QED
    BY <1>1, <1>2, PTL DEF Limiter!Spec

LEMMA LimiterBounds ==
    ASSUME LimiterIsSane
    PROVE  Limiter!Spec => []Limiter!BurstBounded
  <1>1. LimiterInv => Limiter!BurstBounded
    <2> SUFFICES ASSUME LimiterInv, NEW c \in Clients, NEW m \in Limiter!Moments
                 PROVE  Limiter!AdmittedIn(c,
                           m .. m + Window - Delay - 1 \intersect Limiter!Moments)
                           <= 2 * Limit
      BY DEF Limiter!BurstBounded
    <2>1. admitted[c] \in Seq(Limiter!Admission) /\ Spaced(admitted[c], time)
      BY DEF LimiterInv, Limiter!TypeOK, Sound
    <2> QED
      BY <2>1, BurstIsBounded, SameCardinality DEF Limiter!AdmittedIn
  <1> QED
    BY <1>1, LimiterInvHolds, PTL

LEMMA LimiterRefuses ==
    ASSUME LimiterIsSane
    PROVE  Limiter!Spec => Limiter!RefusedIsBusy
  <1> DEFINE Step == \A t \in Threads :
          waiting[t] # None /\ waiting'[t] = None /\ admitted' = admitted =>
             Limiter!AdmittedIn(waiting[t].client,
                        {m \in Limiter!Moments : m > time - Window - Delay}) >= Limit
  <1>1. LimiterInv /\ [Limiter!Next]_Limiter!vars => [Step]_Limiter!vars
    <2> SUFFICES ASSUME LimiterInv, Limiter!Next, NEW t \in Threads,
                        waiting[t] # None, waiting'[t] = None, admitted' = admitted
                 PROVE  Limiter!AdmittedIn(waiting[t].client,
                                   {m \in Limiter!Moments : m > time - Window - Delay}) >= Limit
      OBVIOUS
    <2>1. /\ waiting[t].client \in Clients /\ waiting[t].now \in Limiter!Moments
          /\ waiting \in [Threads -> Waiting \union {None}]
      BY ClockFields DEF LimiterInv, Limiter!TypeOK, Waiting
    <2>2. Limiter!Allow(t)
      <3>1. ASSUME NEW u \in Threads, NEW c \in Clients, Limiter!ReadClock(u, c) PROVE FALSE
        <4>1. [client |-> c, now |-> time] \in Waiting
          BY DEF LimiterInv, Limiter!TypeOK, Waiting
        <4> QED
          BY <2>1, <3>1, <4>1 DEF Limiter!ReadClock, LimiterIsSane
      <3>2. ASSUME NEW u \in Threads, Limiter!Allow(u) PROVE u = t
        BY <2>1, <3>2 DEF Limiter!Allow
      <3> QED
        BY <3>1, <3>2 DEF Limiter!Next, Limiter!Tick
    <2>3. PICK c, now, bucket : c = waiting[t].client /\ now = waiting[t].now
             /\ bucket = Limiter!CurrentBucket(c, now)
      OBVIOUS
    <2>4. /\ c \in Clients /\ now \in Int /\ time \in Int /\ time - now <= Delay
          /\ Window \in Int /\ Delay \in Int /\ Limit \in Nat \ {0}
          /\ buckets[c] \in Limiter!Bucket \union {None} /\ admitted[c] \in Seq(Limiter!Admission)
          /\ Sound(admitted[c], buckets[c], time)
      BY <2>1, <2>3 DEF LimiterInv, Limiter!TypeOK, LimiterIsSane, Limiter!Moments
    <2>5. bucket.count >= Limit
      <3> SUFFICES ASSUME ~(bucket.count >= Limit) PROVE FALSE
        OBVIOUS
      <3>1. admitted' = Limiter!Admitting(c, [bucket EXCEPT !.count = @ + 1])
        BY <2>2, <2>3 DEF Limiter!Allow
      <3>2. PICK new : admitted' = [admitted EXCEPT ![c] = Append(@, new)]
        BY <3>1 DEF Limiter!Admitting
      <3>3. admitted'[c] = Append(admitted[c], new)
        BY <2>4, <3>2 DEF LimiterInv, Limiter!TypeOK
      <3>4. Len(Append(admitted[c], new)) = Len(admitted[c]) + 1 /\ Len(admitted[c]) \in Nat
        BY <2>4
      <3> QED
        BY <3>3, <3>4
    <2>6. /\ bucket = buckets[c] /\ bucket # None /\ now - bucket.start < Window
      BY <2>3, <2>4, <2>5 DEF Limiter!CurrentBucket
    <2>7. bucket \in Limiter!Bucket /\ bucket.start \in Int
      BY <2>4, <2>6 DEF Limiter!Bucket, Limiter!Moments
    <2>8. time - Window - Delay \in Int /\ time - Window - Delay < bucket.start
      BY <2>4, <2>6, <2>7
    <2> QED
      BY <2>3, <2>4, <2>5, <2>6, <2>7, <2>8, FullIsBusy, SameCardinality DEF Limiter!AdmittedIn
  <1> QED
    BY <1>1, LimiterInvHolds, PTL DEF Limiter!Spec, Limiter!RefusedIsBusy

-----------------------------------------------------------------------------
(* The whole.                                                               *)

Entry == INSTANCE Intake_proofs

\* The doors of the platform are those the proofs are about.
LEMMA DoorsAreEntry ==
    /\ Doors!Init => Entry!Init
    /\ [Doors!Next]_Doors!vars => [Entry!Next]_Entry!vars
    /\ Entry!TypeOK => Doors!TypeOK
    /\ Entry!NothingMisfiled => Doors!NothingMisfiled
  BY DEF Doors!Addresses, Doors!Idle, Doors!Inbox, Doors!Asset, Doors!Row,
         Doors!Request, Doors!TypeOK, Doors!Init, Doors!Goto, Doors!FreshAsset,
         Doors!FindInboxByAddress, Doors!InsertInbox, Doors!Submitting,
         Doors!ReceiveInboundMessage, Doors!IngestWebhookCase,
         Doors!IngestTraceExport, Doors!ExtractAsset, Doors!Submit,
         Doors!CreateInboundMessageOrWebhookCase, Doors!UpdateAssetExtraction,
         Doors!PutUpload, Doors!PutAttachment, Doors!CreateAsset, Doors!Abandon,
         Doors!Step, Doors!Next, Doors!InboxIsKept, Doors!RowsHaveTheirs,
         Doors!NothingMisfiled, Doors!vars, Doors!tables, Entry!Addresses, Entry!Idle,
         Entry!Inbox, Entry!Asset, Entry!Row, Entry!Request, Entry!TypeOK, Entry!Init,
         Entry!Goto, Entry!FreshAsset, Entry!FindInboxByAddress, Entry!InsertInbox,
         Entry!Submitting, Entry!ReceiveInboundMessage, Entry!IngestWebhookCase,
         Entry!IngestTraceExport, Entry!ExtractAsset, Entry!Submit,
         Entry!CreateInboundMessageOrWebhookCase, Entry!UpdateAssetExtraction,
         Entry!PutUpload, Entry!PutAttachment, Entry!CreateAsset, Entry!Abandon,
         Entry!Step, Entry!Next, Entry!InboxIsKept, Entry!RowsHaveTheirs,
         Entry!NothingMisfiled, Entry!vars, Entry!tables

\* The parts share no state: each of them runs by its own specification.
LEMMA PartsRun == PlatformSpec => Limiter!Spec /\ Spec /\ Doors!Spec
  <1>1. PlatformInit => Limiter!Init /\ Init /\ Doors!Init
    BY DEF PlatformInit
  <1>2. [PlatformNext]_<<limiter, vars, doors>> =>
           [Limiter!Next]_Limiter!vars /\ [Next]_vars /\ [Doors!Next]_Doors!vars
    BY DEF PlatformNext, LimiterStep, LaunchStep, DoorStep, limiter, doors,
           Limiter!vars, Doors!vars, Doors!tables
  <1> QED
    BY <1>1, <1>2, PTL DEF PlatformSpec, Limiter!Spec, Spec, Doors!Spec

LEMMA EntryRuns == PlatformSpec => Entry!Spec
  BY PartsRun, DoorsAreEntry, PTL DEF Doors!Spec, Entry!Spec

\* No part's variables ever leave their types.
THEOREM TypesAreCorrect ==
    ASSUME LimiterIsSane, GroupsAreSane, Entry!NoneIsNothing
    PROVE  PlatformSpec => []TypesOK
  <1>1. LimiterInv => Limiter!TypeOK
    BY DEF LimiterInv
  <1>2. Entry!Spec => []Entry!TypeOK
    BY Entry!TypeCorrect
  <1>3. Limiter!TypeOK /\ TypeOK /\ Entry!TypeOK => TypesOK
    BY DoorsAreEntry DEF TypesOK
  <1> QED
    BY <1>1, <1>2, <1>3, LimiterInvHolds, TypeCorrect, PartsRun, EntryRuns, PTL

\* For every limit, window, capacity and number of clients and threads: in a window less
\* the longest wait for the mutex a client is let through at most twice the limit
\* (rateLimiter.Allow, pruneLocked).
THEOREM BurstsAreBounded ==
    ASSUME LimiterIsSane
    PROVE  PlatformSpec => []BurstBounded
  BY LimiterBounds, PartsRun, PTL DEF BurstBounded

\* For every limit, window and wait for the mutex: who is refused was let through Limit
\* times within the last window and that wait (rateLimiter.Allow).
THEOREM RefusalsAreBusy ==
    ASSUME LimiterIsSane
    PROVE  PlatformSpec => RefusedIsBusy
  BY LimiterRefuses, PartsRun, PTL DEF RefusedIsBusy

\* However many requests come in at the doors at once, rows are filed under the owner
\* they belong to (createInbox, createAsset and the routes that follow a submission up).
THEOREM DoorsFileRight ==
    ASSUME Entry!NoneIsNothing
    PROVE  PlatformSpec => []NothingMisfiled
  <1>1. Entry!Spec => []Entry!NothingMisfiled
    BY Entry!NothingIsMisfiled
  <1>2. Entry!NothingMisfiled => NothingMisfiled
    BY DoorsAreEntry DEF NothingMisfiled
  <1> QED
    BY <1>1, <1>2, EntryRuns, PTL
=============================================================================
