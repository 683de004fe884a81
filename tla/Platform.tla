------------------------------ MODULE Platform ------------------------------
(***************************************************************************)
(* The parts that stand around the core: the rate limiter in front of      *)
(* every route, the start of a release, and the front doors.  They share   *)
(* no state, and a step of the platform is a step of one of them.  That a  *)
(* request passes the limiter on its way to a door, and that a process     *)
(* answers only once it serves, are left out: they only take behaviours    *)
(* away.  Launch is extended, the other two are instances.                 *)
(***************************************************************************)
EXTENDS Launch

CONSTANTS
    Clients, Threads, Limit, Window, Capacity, Delay, MaxTime,         \* of RateLimit
    Owners, Address, Uses, Submissions, Assets, TextAssets             \* of Intake

VARIABLES
    time, buckets, waiting, admitted,                                  \* of RateLimit
    inboxes, told, accepted, objects, assets, filed, reqs              \* of Intake

limiter == <<time, buckets, waiting, admitted>>
doors == <<inboxes, told, accepted, objects, assets, filed, reqs>>

Limiter == INSTANCE RateLimit
Doors == INSTANCE Intake

PlatformInit == Limiter!Init /\ Init /\ Doors!Init

LimiterStep == Limiter!Next /\ UNCHANGED <<vars, doors>>
LaunchStep == Next /\ UNCHANGED <<limiter, doors>>
DoorStep == Doors!Next /\ UNCHANGED <<limiter, vars>>

PlatformNext == LimiterStep \/ LaunchStep \/ DoorStep

PlatformSpec == PlatformInit /\ [][PlatformNext]_<<limiter, vars, doors>>

-----------------------------------------------------------------------------
(* The properties of the instances, as properties of the whole.             *)

\* Every part's variables have their types, whatever the others do.
TypesOK == TypeOK /\ Limiter!TypeOK /\ Doors!TypeOK

\* Never more than two bursts in a window, see RateLimit (rateLimiter.Allow).
BurstBounded == Limiter!BurstBounded

\* Nobody is refused for what he did long ago, see RateLimit (rateLimiter.Allow).
RefusedIsBusy == Limiter!RefusedIsBusy

\* Rows are filed under their owner, see Intake (createInbox, createAsset and the
\* routes that follow a submission up).
NothingMisfiled == Doors!NothingMisfiled
=============================================================================
