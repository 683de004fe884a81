----------------------------- MODULE MCPlatform -----------------------------
(***************************************************************************)
(* A small instance of the platform for TLC.  The parts share nothing, so  *)
(* that a behaviour is one of one part here; the variables of the others   *)
(* keep their initial value.                                               *)
(***************************************************************************)
EXTENDS Platform, FiniteSets, TLC
CONSTANTS c1, c2, q1, q2, o1, o2, t1, t2, g1, g2

VARIABLE part

\* A production configuration without a gap, one with one, and one for development.
Complete ==
    [production |-> TRUE, pepper |-> TRUE, oss |-> TRUE, sts |-> TRUE, origins |-> TRUE,
     limiter |-> TRUE, accessLog |-> TRUE, mode |-> "http", endpoint |-> TRUE,
     region |-> "CN", named |-> TRUE]

SomeConfigs == {Complete, [Complete EXCEPT !.sts = FALSE],
                [Complete EXCEPT !.production = FALSE, !.mode = "local"]}

\* The second release appends a group; the third changes a definition of the first
\* group, too.
SomeGroups == t1 :> g1 @@ t2 :> g2
SomeDefinitions == 1 :> (t1 :> "narrow" @@ t2 :> None)
                   @@ 2 :> (t1 :> "narrow" @@ t2 :> "wide")
                   @@ 3 :> (t1 :> "wide" @@ t2 :> "wide")

\* Two owners whose anonymous ids derive from one address.
SomeAddress == o1 :> "a1" @@ o2 :> "a1"

Parts == {"limiter", "starts", "asks", "doors"}
MCInit == part \in Parts /\ PlatformInit

On == {p \in {q1, q2} : procs[p] # Off}
Asked == {q \in {q1, q2} : asks[q] # Unasked}

\* Starts of all three releases, with nothing asked or filed.
OnlyStarts ==
    /\ \A p \in On' : procs'[p].config = Complete
    /\ UNCHANGED <<business, asks>>

\* Two releases; a process runs beside another only with the complete configuration.
\* One request at a time, of the process of its name, is asked, and not followed once
\* it missed two signals; alerts are asked of a process that was ready; evidence is
\* filed while a process serves, and an administrator is there before it.
Calm ==
    /\ \A p \in On' : procs'[p].release # 2
    /\ Cardinality(On') = 2 => \A p \in On' : procs'[p].config = Complete
    /\ Cardinality(Asked') <= 1
    /\ \A q \in Asked' : /\ asks'[q].proc = q
                          /\ asks'[q].next - Cardinality(asks'[q].seen) <= 2
                          /\ asks'[q].kind = "alerts" => asks'[q].wasReady
    /\ business' = business \/ \E p \in On : Serving(p)
    /\ providers' \/ completed' # {} => admins'

MCNext ==
    /\ UNCHANGED part
    /\ \/ part = "limiter" /\ LimiterStep
       \/ part = "starts" /\ LaunchStep /\ OnlyStarts
       \/ part = "asks" /\ LaunchStep /\ Calm
       \/ part = "doors" /\ DoorStep

MCSpec == MCInit /\ [][MCNext]_<<part, limiter, vars, doors>>

\* The ids are interchangeable.
Interchangeable == Permutations({q1, q2}) \union Permutations({c1, c2})
                   \union Permutations({o1, o2})
=============================================================================
