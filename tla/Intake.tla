------------------------------- MODULE Intake -------------------------------
(***************************************************************************)
(* The front doors: inboxes and inbound mail, webhooks, uploaded assets    *)
(* and their extraction, trace exports with attachments.  Each ends in     *)
(* createSubmissionFromText, which module Ingestion models and of which    *)
(* only the outcome matters here, and adds rows of its own around it.  A   *)
(* request makes its calls one after the other and may fail at any.        *)
(***************************************************************************)
EXTENDS FiniteSets

CONSTANTS Owners, Address,      \* the inbox address made of an owner's name
          Uses,                 \* allowed uses an inbox may be asked for with
          Submissions, Assets,  \* ids
          TextAssets,           \* assets isTextAsset takes for text
          Requests, None

Addresses == {Address[o] : o \in Owners}

VARIABLES
    inboxes,   \* the inbox with each address, or None
    told,      \* history: inboxes that createInbox answered with
    accepted,  \* owner of each submission that was created, or None
    objects,   \* assets whose body is in the object store
    assets,    \* the assets table
    filed,     \* inbound_messages and webhook_cases
    reqs       \* requests in progress

tables == <<inboxes, told, accepted, objects, assets, filed>>
vars == <<tables, reqs>>

Idle == [pc |-> "idle"]
Inbox == [owner : Owners, uses : Uses]
Asset == [owner : Owners, submission : Submissions \union {None},
          status : {"stored", "awaiting_multimodal_extractor", "extraction_queued"}]
Row == [kind : {"message", "webhook"}, owner : Owners, submission : Submissions]

\* door: what follows the submission; left: assets the request still has to write.
Request ==
    {Idle}
    \union [pc : {"inserting"}, inbox : Inbox]
    \union [pc : {"submitting", "following"},
            door : {"message", "webhook", "extraction", "trace"}, owner : Owners,
            left : SUBSET Assets, submission : Submissions \union {None}]
    \union [pc : {"recording"}, door : {"upload", "trace"}, owner : Owners,
            asset : Assets, left : SUBSET Assets,
            submission : Submissions \union {None}]

TypeOK ==
    /\ inboxes \in [Addresses -> Inbox \union {None}]
    /\ told \subseteq Inbox
    /\ accepted \in [Submissions -> Owners \union {None}]
    /\ objects \subseteq Assets
    /\ assets \in [Assets -> Asset \union {None}]
    /\ filed \subseteq Row
    /\ reqs \in [Requests -> Request]

Init ==
    /\ inboxes = [a \in Addresses |-> None]
    /\ told = {} /\ objects = {} /\ filed = {}
    /\ accepted = [s \in Submissions |-> None]
    /\ assets = [a \in Assets |-> None]
    /\ reqs = [q \in Requests |-> Idle]

Goto(q, state) == reqs' = [reqs EXCEPT ![q] = state]

\* An id nobody has used: NewID is random.
FreshAsset(a) ==
    /\ a \notin objects
    /\ \A q \in Requests : reqs[q].pc = "recording" => reqs[q].asset # a

-----------------------------------------------------------------------------
(* Inboxes.                                                                 *)

\* The address was made of the owner's name, and its inbox was there already.
FindInboxByAddress(q, o, uses) ==
    /\ reqs[q] = Idle
    /\ LET found == inboxes[Address[o]]
       IN  IF found = None
           THEN Goto(q, [pc |-> "inserting", inbox |-> [owner |-> o, uses |-> uses]])
                /\ UNCHANGED told
           ELSE told' = told \union {found} /\ UNCHANGED reqs
    /\ UNCHANGED <<inboxes, accepted, objects, assets, filed>>

\* Mutant of InsertInbox: the table has no unique key on the address.
InsertInboxUnchecked(q) ==
    /\ reqs[q].pc = "inserting"
    /\ LET inbox == reqs[q].inbox
       IN  /\ inboxes' = [inboxes EXCEPT ![Address[inbox.owner]] = inbox]
           /\ told' = told \union {inbox}
    /\ Goto(q, Idle)
    /\ UNCHANGED <<accepted, objects, assets, filed>>

\* The unique key refuses a second row; the request then ends with an error.
InsertInbox(q) ==
    /\ reqs[q].pc = "inserting"
    /\ LET inbox == reqs[q].inbox
       IN  IF inboxes[Address[inbox.owner]] = None
           THEN /\ inboxes' = [inboxes EXCEPT ![Address[inbox.owner]] = inbox]
                /\ told' = told \union {inbox}
           ELSE UNCHANGED <<inboxes, told>>
    /\ Goto(q, Idle)
    /\ UNCHANGED <<accepted, objects, assets, filed>>

-----------------------------------------------------------------------------
(* Requests that submit a text.                                             *)

Submitting(door, owner, left) ==
    [pc |-> "submitting", door |-> door, owner |-> owner, left |-> left,
     submission |-> None]

ReceiveInboundMessage(q, a) ==
    /\ reqs[q] = Idle
    /\ inboxes[a] # None
    /\ Goto(q, Submitting("message", inboxes[a].owner, {}))
    /\ UNCHANGED tables

IngestWebhookCase(q, o) ==
    /\ reqs[q] = Idle
    /\ Goto(q, Submitting("webhook", o, {}))
    /\ UNCHANGED tables

\* The attachments are decoded before anything is stored.
IngestTraceExport(q, o, attachments) ==
    /\ reqs[q] = Idle
    /\ Goto(q, Submitting("trace", o, attachments))
    /\ UNCHANGED tables

\* An asset that is no text waits for an extractor; its status is all that changes,
\* and the error of that update is dropped.
ExtractAsset(q, a) ==
    /\ reqs[q] = Idle
    /\ assets[a] # None
    /\ IF a \in TextAssets
       THEN /\ a \in objects
            /\ Goto(q, Submitting("extraction", assets[a].owner, {a}))
            /\ UNCHANGED assets
       ELSE /\ \/ assets' = [assets EXCEPT ![a].status = "awaiting_multimodal_extractor",
                                           ![a].submission = None]
               \/ UNCHANGED assets
            /\ UNCHANGED reqs
    /\ UNCHANGED <<inboxes, told, accepted, objects, filed>>

\* createSubmissionFromText: the row may be there although the call failed.
Submit(q, s) ==
    /\ reqs[q].pc = "submitting"
    /\ accepted[s] = None
    /\ accepted' = [accepted EXCEPT ![s] = reqs[q].owner]
    /\ \/ Goto(q, Idle)
       \/ Goto(q, [reqs[q] EXCEPT !.pc = "following", !.submission = s])
    /\ UNCHANGED <<inboxes, told, objects, assets, filed>>

CreateInboundMessageOrWebhookCase(q) ==
    /\ reqs[q].pc = "following" /\ reqs[q].door \in {"message", "webhook"}
    /\ filed' = filed \union {[kind |-> reqs[q].door, owner |-> reqs[q].owner,
                               submission |-> reqs[q].submission]}
    /\ Goto(q, Idle)
    /\ UNCHANGED <<inboxes, told, accepted, objects, assets>>

UpdateAssetExtraction(q) ==
    /\ reqs[q].pc = "following" /\ reqs[q].door = "extraction"
    /\ assets' = [a \in Assets |->
                    IF a \notin reqs[q].left THEN assets[a]
                    ELSE [assets[a] EXCEPT !.status = "extraction_queued",
                                           !.submission = reqs[q].submission]]
    /\ Goto(q, Idle)
    /\ UNCHANGED <<inboxes, told, accepted, objects, filed>>

-----------------------------------------------------------------------------
(* Bodies and their rows.                                                   *)

\* createAsset: the body first.
PutUpload(q, o, a) ==
    /\ reqs[q] = Idle
    /\ FreshAsset(a)
    /\ objects' = objects \union {a}
    /\ Goto(q, [pc |-> "recording", door |-> "upload", owner |-> o, asset |-> a,
                left |-> {}, submission |-> None])
    /\ UNCHANGED <<inboxes, told, accepted, assets, filed>>

\* The same for the next attachment of a trace, until none is left.
PutAttachment(q, a) ==
    /\ reqs[q].pc = "following" /\ reqs[q].door = "trace"
    /\ a \in reqs[q].left
    /\ FreshAsset(a)
    /\ objects' = objects \union {a}
    /\ Goto(q, [pc |-> "recording", door |-> "trace", owner |-> reqs[q].owner,
                asset |-> a, left |-> reqs[q].left \ {a},
                submission |-> reqs[q].submission])
    /\ UNCHANGED <<inboxes, told, accepted, assets, filed>>

CreateAsset(q) ==
    /\ reqs[q].pc = "recording"
    /\ assets' = [assets EXCEPT ![reqs[q].asset] =
                    [owner |-> reqs[q].owner, submission |-> reqs[q].submission,
                     status |-> "stored"]]
    /\ IF reqs[q].left = {} THEN Goto(q, Idle)
       ELSE Goto(q, [pc |-> "following", door |-> "trace", owner |-> reqs[q].owner,
                     left |-> reqs[q].left, submission |-> reqs[q].submission])
    /\ UNCHANGED <<inboxes, told, accepted, objects, filed>>

\* A failing call, a lost connection or a crash; also the end of a trace export
\* that had no attachment.
Abandon(q) ==
    /\ reqs[q] # Idle
    /\ Goto(q, Idle)
    /\ UNCHANGED tables

-----------------------------------------------------------------------------
Step(q) ==
    \/ \E o \in Owners, uses \in Uses : FindInboxByAddress(q, o, uses)
    \/ InsertInbox(q)
    \/ \E a \in Addresses : ReceiveInboundMessage(q, a)
    \/ \E o \in Owners : IngestWebhookCase(q, o)
    \/ \E o \in Owners, attachments \in SUBSET Assets :
          IngestTraceExport(q, o, attachments)
    \/ \E a \in Assets : ExtractAsset(q, a)
    \/ \E s \in Submissions : Submit(q, s)
    \/ CreateInboundMessageOrWebhookCase(q)
    \/ UpdateAssetExtraction(q)
    \/ \E o \in Owners, a \in Assets : PutUpload(q, o, a)
    \/ \E a \in Assets : PutAttachment(q, a)
    \/ CreateAsset(q)
    \/ Abandon(q)

Next == \E q \in Requests : Step(q)

Spec == Init /\ [][Next]_vars

-----------------------------------------------------------------------------
(* Properties                                                               *)

\* The inbox a contributor was told of is the one mail to its address finds, also
\* when two requests for one owner race to insert it (CreateInbox).
InboxIsKept ==
    \A inbox \in told : inboxes[Address[inbox.owner]] = inbox

\* A message, webhook case or asset that names a submission names one that was
\* accepted, for its own owner, and an asset in the table has its body: whichever
\* call fails, and however extractions of one asset overlap.
RowsHaveTheirs ==
    /\ \A row \in filed : accepted[row.submission] = row.owner
    /\ \A a \in Assets :
          assets[a] # None =>
             /\ a \in objects
             /\ assets[a].submission # None =>
                   accepted[assets[a].submission] = assets[a].owner

NothingMisfiled == InboxIsKept /\ RowsHaveTheirs
=============================================================================
