---------------------------- MODULE Intake_proofs ----------------------------
(***************************************************************************)
(* Proof of NothingMisfiled for every value of the constants, as long as   *)
(* None is none of the values it stands beside.  The invariant says of     *)
(* every request what it may rely on at its next call: the submission it   *)
(* holds is its owner's, the asset it is about to record has its body and  *)
(* no row yet, the asset it extracts is its owner's.                       *)
(***************************************************************************)
EXTENDS Intake, TLAPS

NoneIsNothing ==
    /\ None \notin Owners /\ None \notin Submissions
    /\ None \notin Inbox /\ None \notin Asset

AddressTells ==
    \A a \in Addresses : inboxes[a] # None => Address[inboxes[a].owner] = a

\* What a request may rely on at its next call.
Honest(q) ==
    LET r == reqs[q] IN
    /\ r.pc = "following" =>
          r.submission \in Submissions /\ accepted[r.submission] = r.owner
    /\ r.pc \in {"submitting", "following"} /\ r.door = "extraction" =>
          \A a \in r.left : assets[a] # None /\ assets[a].owner = r.owner
    /\ r.pc = "recording" =>
          /\ r.asset \in objects /\ assets[r.asset] = None
          /\ r.submission # None => accepted[r.submission] = r.owner
          /\ r.left # {} => r.submission # None

\* No two requests record the same asset.
RecordersDiffer ==
    \A p, q \in Requests :
       reqs[p].pc = "recording" /\ reqs[q].pc = "recording"
          /\ reqs[p].asset = reqs[q].asset => p = q

IInv ==
    /\ TypeOK
    /\ AddressTells
    /\ InboxIsKept
    /\ RowsHaveTheirs
    /\ \A q \in Requests : Honest(q)
    /\ RecordersDiffer

\* Rows and bodies stay: submissions and assets keep their owner.
Grows ==
    /\ \A s \in Submissions : accepted[s] # None => accepted'[s] = accepted[s]
    /\ objects \subseteq objects'
    /\ \A a \in Assets :
          assets[a] # None => assets'[a] # None /\ assets'[a].owner = assets[a].owner

-----------------------------------------------------------------------------
\* A request a step leaves alone stays honest, unless its asset is recorded by it.
LEMMA OthersStayHonest ==
    ASSUME NoneIsNothing, TypeOK, Grows,
           NEW p \in Requests, Honest(p), reqs'[p] = reqs[p],
           reqs[p].pc = "recording" => assets'[reqs[p].asset] = None
    PROVE  Honest(p)'
  <1>1. reqs[p] \in Request
    BY DEF TypeOK
  <1>2. reqs[p].pc = "following" =>
           accepted'[reqs[p].submission] = reqs[p].owner
    BY <1>1 DEF Honest, Grows, NoneIsNothing, Request, Idle
  <1>3. reqs[p].pc \in {"submitting", "following"} /\ reqs[p].door = "extraction" =>
           \A a \in reqs[p].left : assets'[a] # None /\ assets'[a].owner = reqs[p].owner
    BY <1>1 DEF Honest, Grows, Request, Idle
  <1>4. reqs[p].pc = "recording" /\ reqs[p].submission # None =>
           accepted'[reqs[p].submission] = reqs[p].owner
    BY <1>1 DEF Honest, Grows, NoneIsNothing, Request, Idle
  <1> QED
    BY <1>1, <1>2, <1>3, <1>4 DEF Honest, Grows

\* The start.
LEMMA InitHolds == ASSUME NoneIsNothing, Init PROVE IInv
  BY DEF Init, IInv, TypeOK, AddressTells, InboxIsKept, RowsHaveTheirs, Honest,
         RecordersDiffer, Request, Idle, Inbox, Asset, Row, Addresses

\* A step that changes only its request, to one that is honest and records nothing.
LEMMA MoveKeeps ==
    ASSUME NoneIsNothing, IInv, NEW q \in Requests, NEW state \in Request,
           Goto(q, state), UNCHANGED tables,
           state.pc # "recording",
           state.pc \in {"submitting", "following"} /\ state.door = "extraction" =>
              \A a \in state.left : assets[a] # None /\ assets[a].owner = state.owner,
           state.pc = "following" => /\ state.submission \in Submissions
                                     /\ accepted[state.submission] = state.owner
    PROVE  IInv'
  <1>1. TypeOK'
    BY DEF IInv, TypeOK, Goto, tables
  <1>2. reqs'[q] = state /\ \A p \in Requests \ {q} : reqs'[p] = reqs[p]
    BY DEF IInv, TypeOK, Goto
  <1>3. Honest(q)'
    BY <1>2 DEF Honest, tables
  <1>4. \A p \in Requests \ {q} : Honest(p)'
    BY <1>2 DEF IInv, Honest, tables
  <1>5. RecordersDiffer'
    BY <1>2 DEF IInv, RecordersDiffer
  <1>6. AddressTells' /\ InboxIsKept' /\ RowsHaveTheirs'
    BY DEF IInv, AddressTells, InboxIsKept, RowsHaveTheirs, tables
  <1> QED
    BY <1>1, <1>3, <1>4, <1>5, <1>6 DEF IInv

-----------------------------------------------------------------------------
(* The steps that change tables.                                            *)

LEMMA FindKeeps ==
    ASSUME NoneIsNothing, IInv, NEW q \in Requests, NEW o \in Owners, NEW uses \in Uses,
           FindInboxByAddress(q, o, uses)
    PROVE  IInv'
  <1>1. CASE inboxes[Address[o]] = None
    <2> DEFINE state == [pc |-> "inserting", inbox |-> [owner |-> o, uses |-> uses]]
    <2>1. state \in Request
      BY DEF Request, Inbox
    <2>2. Goto(q, state) /\ UNCHANGED tables
      BY <1>1 DEF FindInboxByAddress, tables
    <2> QED
      BY <2>1, <2>2, MoveKeeps
  <1>2. CASE inboxes[Address[o]] # None
    <2> DEFINE found == inboxes[Address[o]]
    <2>1. /\ told' = told \union {found}
          /\ UNCHANGED <<inboxes, accepted, objects, assets, filed, reqs>>
      BY <1>2 DEF FindInboxByAddress
    <2>2. found \in Inbox /\ Address[found.owner] = Address[o]
      BY <1>2 DEF IInv, TypeOK, AddressTells, Addresses
    <2>3. TypeOK'
      BY <2>1, <2>2 DEF IInv, TypeOK
    <2>4. InboxIsKept'
      BY <2>1, <2>2 DEF IInv, InboxIsKept
    <2> QED
      BY <2>1, <2>3, <2>4 DEF IInv, AddressTells, RowsHaveTheirs, Honest, RecordersDiffer
  <1> QED
    BY <1>1, <1>2

LEMMA InsertKeeps ==
    ASSUME NoneIsNothing, IInv, NEW q \in Requests, InsertInbox(q)
    PROVE  IInv'
  <1> DEFINE inbox == reqs[q].inbox
             a == Address[inbox.owner]
  <1>1. inbox \in Inbox /\ a \in Addresses /\ inbox # None
    BY DEF InsertInbox, IInv, TypeOK, Request, Idle, Inbox, Addresses, NoneIsNothing
  <1>2. reqs' = [reqs EXCEPT ![q] = Idle] /\ UNCHANGED <<accepted, objects, assets, filed>>
    BY DEF InsertInbox, Goto
  <1>3. reqs'[q] = Idle /\ \A p \in Requests \ {q} : reqs'[p] = reqs[p]
    BY <1>2 DEF IInv, TypeOK
  <1>4. \/ inboxes[a] = None /\ inboxes' = [inboxes EXCEPT ![a] = inbox]
              /\ told' = told \union {inbox}
        \/ UNCHANGED <<inboxes, told>>
    BY DEF InsertInbox
  <1>5. TypeOK'
    BY <1>1, <1>2, <1>4 DEF IInv, TypeOK, Request
  <1>6. AddressTells'
    BY <1>1, <1>4 DEF IInv, AddressTells, TypeOK
  <1>7. InboxIsKept'
    <2>1. CASE inboxes[a] = None /\ inboxes' = [inboxes EXCEPT ![a] = inbox]
                 /\ told' = told \union {inbox}
      <3>1. \A i \in told : Address[i.owner] # a
        BY <2>1 DEF IInv, InboxIsKept, TypeOK, NoneIsNothing
      <3>2. \A i \in told : Address[i.owner] \in Addresses
        BY DEF IInv, TypeOK, Inbox, Addresses
      <3> QED
        BY <1>1, <2>1, <3>1, <3>2 DEF IInv, InboxIsKept, TypeOK
    <2>2. CASE UNCHANGED <<inboxes, told>>
      BY <2>2 DEF IInv, InboxIsKept
    <2> QED
      BY <1>4, <2>1, <2>2
  <1>8. (\A p \in Requests : Honest(p))' /\ RecordersDiffer'
    BY <1>2, <1>3 DEF IInv, Honest, RecordersDiffer, Idle
  <1>9. RowsHaveTheirs'
    BY <1>2 DEF IInv, RowsHaveTheirs
  <1> QED
    BY <1>5, <1>6, <1>7, <1>8, <1>9 DEF IInv

LEMMA ExtractKeeps ==
    ASSUME NoneIsNothing, IInv, NEW q \in Requests, NEW a \in Assets, ExtractAsset(q, a)
    PROVE  IInv'
  <1>1. CASE a \in TextAssets
    <2> DEFINE state == Submitting("extraction", assets[a].owner, {a})
    <2>1. assets[a] \in Asset /\ assets[a] # None
      BY DEF ExtractAsset, IInv, TypeOK
    <2>2. state \in Request
      BY <2>1 DEF Submitting, Request, Asset
    <2>3. Goto(q, state) /\ UNCHANGED tables
      BY <1>1 DEF ExtractAsset, tables
    <2> QED
      BY <2>1, <2>2, <2>3, MoveKeeps DEF Submitting
  <1>2. CASE a \notin TextAssets
    <2> DEFINE row == [assets[a] EXCEPT !.status = "awaiting_multimodal_extractor",
                                        !.submission = None]
    <2>1. /\ assets[a] # None
          /\ UNCHANGED <<inboxes, told, accepted, objects, filed, reqs>>
          /\ \/ assets' = [assets EXCEPT ![a] =
                    [@ EXCEPT !.status = "awaiting_multimodal_extractor",
                              !.submission = None]]
             \/ UNCHANGED assets
      BY <1>2 DEF ExtractAsset
    <2>2. assets[a] \in Asset
      BY <2>1 DEF IInv, TypeOK
    <2>a. row \in Asset /\ row.owner = assets[a].owner /\ row.submission = None
      BY <2>2 DEF Asset
    <2>b. assets' = [assets EXCEPT ![a] = row] \/ UNCHANGED assets
      BY <2>1
    <2> HIDE DEF row
    <2>c. row # None
      BY <2>a DEF NoneIsNothing
    <2>3. TypeOK'
      BY <2>1, <2>a, <2>b DEF IInv, TypeOK
    <2>4. \A b \in Assets :
             /\ (assets'[b] # None) = (assets[b] # None)
             /\ assets[b] # None => /\ assets'[b].owner = assets[b].owner
                                    /\ assets'[b].submission \in {None, assets[b].submission}
      BY <2>1, <2>a, <2>b, <2>c DEF IInv, TypeOK
    <2>5. (\A p \in Requests : Honest(p))'
      <3>1. Grows
        BY <2>1, <2>4 DEF Grows
      <3>2. \A p \in Requests : reqs[p].pc = "recording" => reqs[p].asset \in Assets
        BY DEF IInv, TypeOK, Request, Idle
      <3> QED
        BY <2>1, <2>4, <3>1, <3>2, OthersStayHonest DEF IInv, Honest
    <2>6. RowsHaveTheirs'
      BY <2>1, <2>4 DEF IInv, RowsHaveTheirs
    <2> QED
      BY <2>1, <2>3, <2>5, <2>6 DEF IInv, AddressTells, InboxIsKept, RecordersDiffer
  <1> QED
    BY <1>1, <1>2

LEMMA SubmitKeeps ==
    ASSUME NoneIsNothing, IInv, NEW q \in Requests, NEW s \in Submissions, Submit(q, s)
    PROVE  IInv'
  <1> DEFINE r == reqs[q]
             next == [r EXCEPT !.pc = "following", !.submission = s]
  <1>a. r \in [pc : {"submitting", "following"},
               door : {"message", "webhook", "extraction", "trace"}, owner : Owners,
               left : SUBSET Assets, submission : Submissions \union {None}]
    BY DEF Submit, IInv, TypeOK, Request, Idle
  <1>1. /\ r.pc = "submitting" /\ r.owner \in Owners
        /\ next \in Request
        /\ next.pc = "following" /\ next.door = r.door /\ next.owner = r.owner
        /\ next.left = r.left /\ next.submission = s
    <2>1. r.pc = "submitting" /\ r.owner \in Owners
      BY <1>a DEF Submit
    <2>2. next \in Request
      BY <1>a DEF Request
    <2>3. /\ next.pc = "following" /\ next.door = r.door /\ next.owner = r.owner
          /\ next.left = r.left /\ next.submission = s
      BY <1>a
    <2> QED
      BY <2>1, <2>2, <2>3
  <1>2. /\ accepted[s] = None /\ accepted' = [accepted EXCEPT ![s] = r.owner]
        /\ UNCHANGED <<inboxes, told, objects, assets, filed>>
    BY DEF Submit
  <1>3. /\ reqs'[q] \in {Idle, next}
        /\ \A p \in Requests \ {q} : reqs'[p] = reqs[p]
        /\ reqs' \in [Requests -> Request]
    <2> HIDE DEF next
    <2>1. Idle \in Request /\ reqs \in [Requests -> Request]
      BY DEF IInv, TypeOK, Request
    <2>2. reqs' = [reqs EXCEPT ![q] = Idle] \/ reqs' = [reqs EXCEPT ![q] = next]
      BY DEF Submit, Goto, next
    <2> QED
      BY <1>1, <2>1, <2>2
  <1> HIDE DEF next
  <1>4. TypeOK'
    BY <1>1, <1>2, <1>3 DEF IInv, TypeOK
  <1>5. Grows /\ accepted'[s] = r.owner
    BY <1>2 DEF Grows, IInv, TypeOK
  <1>6. \A p \in Requests \ {q} : Honest(p)'
    BY <1>2, <1>3, <1>5, OthersStayHonest DEF IInv, Honest
  <1>7. Honest(q)'
    <2>1. CASE reqs'[q] = Idle
      BY <2>1 DEF Honest, Idle
    <2>2. CASE reqs'[q] = next
      BY <1>1, <1>2, <1>5, <2>2 DEF IInv, Honest
    <2> QED
      BY <1>3, <2>1, <2>2
  <1>8. RecordersDiffer'
    BY <1>1, <1>3 DEF IInv, RecordersDiffer, Idle
  <1>9. RowsHaveTheirs'
    <2>1. \A row \in filed : row.submission \in Submissions /\ row.owner # None
      BY DEF IInv, TypeOK, Row, NoneIsNothing
    <2>2. \A b \in Assets : assets[b] # None =>
             /\ assets[b].owner # None
             /\ assets[b].submission # None => assets[b].submission \in Submissions
      BY DEF IInv, TypeOK, Asset, NoneIsNothing
    <2> QED
      BY <1>2, <1>5, <2>1, <2>2 DEF IInv, RowsHaveTheirs, Grows
  <1> QED
    BY <1>2, <1>4, <1>6, <1>7, <1>8, <1>9 DEF IInv, AddressTells, InboxIsKept

LEMMA FileKeeps ==
    ASSUME NoneIsNothing, IInv, NEW q \in Requests, CreateInboundMessageOrWebhookCase(q)
    PROVE  IInv'
  <1> DEFINE r == reqs[q]
             row == [kind |-> r.door, owner |-> r.owner, submission |-> r.submission]
  <1>1. /\ r.pc = "following" /\ r.door \in {"message", "webhook"}
        /\ r.owner \in Owners /\ r.submission \in Submissions
        /\ accepted[r.submission] = r.owner
    BY DEF CreateInboundMessageOrWebhookCase, IInv, TypeOK, Request, Idle, Honest
  <1>2. /\ filed' = filed \union {row} /\ reqs' = [reqs EXCEPT ![q] = Idle]
        /\ UNCHANGED <<inboxes, told, accepted, objects, assets>>
    BY DEF CreateInboundMessageOrWebhookCase, Goto
  <1>3. reqs'[q] = Idle /\ \A p \in Requests \ {q} : reqs'[p] = reqs[p]
    BY <1>2 DEF IInv, TypeOK
  <1>4. TypeOK'
    BY <1>1, <1>2 DEF IInv, TypeOK, Row, Request
  <1>5. RowsHaveTheirs'
    BY <1>1, <1>2 DEF IInv, RowsHaveTheirs
  <1>6. (\A p \in Requests : Honest(p))' /\ RecordersDiffer'
    BY <1>2, <1>3 DEF IInv, Honest, RecordersDiffer, Idle
  <1> QED
    BY <1>2, <1>4, <1>5, <1>6 DEF IInv, AddressTells, InboxIsKept

LEMMA UpdateKeeps ==
    ASSUME NoneIsNothing, IInv, NEW q \in Requests, UpdateAssetExtraction(q)
    PROVE  IInv'
  <1> DEFINE r == reqs[q]
             new(a) == [assets[a] EXCEPT !.status = "extraction_queued",
                                         !.submission = r.submission]
  <1>1. /\ r.pc = "following" /\ r.door = "extraction"
        /\ r.owner \in Owners /\ r.submission \in Submissions /\ r.left \subseteq Assets
        /\ accepted[r.submission] = r.owner
        /\ \A a \in r.left : assets[a] # None /\ assets[a].owner = r.owner
    <2>1. r.pc = "following" /\ r.door = "extraction"
      BY DEF UpdateAssetExtraction
    <2>2. /\ r.owner \in Owners /\ r.left \subseteq Assets
      BY <2>1 DEF IInv, TypeOK, Request, Idle
    <2> QED
      BY <2>1, <2>2 DEF IInv, Honest
  <1>2. /\ assets' = [a \in Assets |-> IF a \notin r.left THEN assets[a] ELSE new(a)]
        /\ reqs' = [reqs EXCEPT ![q] = Idle]
        /\ UNCHANGED <<inboxes, told, accepted, objects, filed>>
    BY DEF UpdateAssetExtraction, Goto
  <1>3. reqs'[q] = Idle /\ \A p \in Requests \ {q} : reqs'[p] = reqs[p]
    BY <1>2 DEF IInv, TypeOK
  <1>4. \A a \in r.left : /\ new(a) \in Asset /\ new(a).owner = assets[a].owner
                          /\ new(a).submission = r.submission
    <2> SUFFICES ASSUME NEW a \in r.left
                 PROVE  /\ new(a) \in Asset /\ new(a).owner = assets[a].owner
                        /\ new(a).submission = r.submission
      OBVIOUS
    <2>1. assets[a] \in Asset
      BY <1>1 DEF IInv, TypeOK
    <2> QED
      BY <1>1, <2>1 DEF Asset
  <1> HIDE DEF new
  <1>5. \A a \in Assets :
           /\ a \notin r.left => assets'[a] = assets[a]
           /\ a \in r.left => /\ assets'[a] \in Asset /\ assets'[a] # None
                              /\ assets'[a].owner = assets[a].owner
                              /\ assets'[a].submission = r.submission
    BY <1>2, <1>4 DEF NoneIsNothing
  <1>6. TypeOK'
    BY <1>1, <1>2, <1>4 DEF IInv, TypeOK, Request
  <1>7. Grows
    BY <1>1, <1>2, <1>5 DEF Grows
  <1>8. \A p \in Requests \ {q} : reqs[p].pc = "recording" =>
           reqs[p].asset \in Assets \ r.left
    BY <1>1 DEF IInv, TypeOK, Request, Idle, Honest
  <1>9. \A p \in Requests \ {q} : Honest(p)'
    BY <1>3, <1>5, <1>7, <1>8, OthersStayHonest DEF IInv, Honest
  <1>10. Honest(q)' /\ RecordersDiffer'
    BY <1>3 DEF IInv, Honest, RecordersDiffer, Idle
  <1>11. RowsHaveTheirs'
    BY <1>1, <1>2, <1>5 DEF IInv, RowsHaveTheirs
  <1> QED
    BY <1>2, <1>6, <1>9, <1>10, <1>11 DEF IInv, AddressTells, InboxIsKept

\* A request that puts the body of a fresh asset and goes on to record it.
LEMMA PutKeeps ==
    ASSUME NoneIsNothing, IInv, NEW q \in Requests, NEW a \in Assets, FreshAsset(a),
           NEW state \in Request,
           state.pc = "recording", state.asset = a,
           state.submission # None =>
              state.submission \in Submissions /\ accepted[state.submission] = state.owner,
           state.left # {} => state.submission # None,
           objects' = objects \union {a}, Goto(q, state),
           UNCHANGED <<inboxes, told, accepted, assets, filed>>
    PROVE  IInv'
  <1>1. reqs'[q] = state /\ \A p \in Requests \ {q} : reqs'[p] = reqs[p]
    BY DEF IInv, TypeOK, Goto
  <1>2. TypeOK'
    BY DEF IInv, TypeOK, Goto
  <1>3. assets[a] = None
    BY DEF IInv, RowsHaveTheirs, FreshAsset
  <1>4. Honest(q)'
    BY <1>1, <1>3 DEF Honest
  <1>5. \A p \in Requests \ {q} : Honest(p)'
    BY <1>1 DEF IInv, Honest
  <1>6. RecordersDiffer'
    BY <1>1 DEF IInv, RecordersDiffer, FreshAsset
  <1>7. RowsHaveTheirs' /\ AddressTells' /\ InboxIsKept'
    BY DEF IInv, RowsHaveTheirs, AddressTells, InboxIsKept
  <1> QED
    BY <1>2, <1>4, <1>5, <1>6, <1>7 DEF IInv

LEMMA CreateAssetKeeps ==
    ASSUME NoneIsNothing, IInv, NEW q \in Requests, CreateAsset(q)
    PROVE  IInv'
  <1> DEFINE r == reqs[q]
             row == [owner |-> r.owner, submission |-> r.submission, status |-> "stored"]
             next == [pc |-> "following", door |-> "trace", owner |-> r.owner,
                      left |-> r.left, submission |-> r.submission]
  <1>1. /\ r.pc = "recording" /\ r.asset \in objects /\ assets[r.asset] = None
        /\ r.asset \in Assets /\ r.owner \in Owners
        /\ r.submission \in Submissions \union {None} /\ r.left \subseteq Assets
        /\ r.submission # None => accepted[r.submission] = r.owner
        /\ r.left # {} => r.submission # None
    BY DEF CreateAsset, IInv, TypeOK, Request, Idle, Honest
  <1>2. /\ assets' = [assets EXCEPT ![r.asset] = row]
        /\ \/ r.left = {} /\ reqs' = [reqs EXCEPT ![q] = Idle]
           \/ r.left # {} /\ reqs' = [reqs EXCEPT ![q] = next]
        /\ UNCHANGED <<inboxes, told, accepted, objects, filed>>
    BY DEF CreateAsset, Goto
  <1>3. row \in Asset /\ row # None /\ next \in Request
    BY <1>1 DEF Asset, Request, NoneIsNothing
  <1>4. /\ \/ r.left = {} /\ reqs'[q] = Idle
           \/ r.left # {} /\ reqs'[q] = next
        /\ \A p \in Requests \ {q} : reqs'[p] = reqs[p]
    BY <1>2 DEF IInv, TypeOK
  <1>5. TypeOK'
    BY <1>1, <1>2, <1>3 DEF IInv, TypeOK, Request
  <1>6. Grows
    BY <1>1, <1>2 DEF Grows, IInv, TypeOK
  <1>7. \A p \in Requests \ {q} : Honest(p)'
    <2> SUFFICES ASSUME NEW p \in Requests \ {q} PROVE Honest(p)'
      OBVIOUS
    <2>1. reqs[p].pc = "recording" => assets'[reqs[p].asset] = None
      BY <1>1, <1>2 DEF IInv, TypeOK, Request, Idle, Honest, RecordersDiffer
    <2> QED
      BY <1>4, <1>6, <2>1, OthersStayHonest DEF IInv
  <1>8. Honest(q)'
    <2>1. CASE reqs'[q] = Idle
      BY <2>1 DEF Honest, Idle
    <2>2. CASE r.left # {} /\ reqs'[q] = next
      BY <1>1, <1>2, <2>2 DEF Honest
    <2> QED
      BY <1>4, <2>1, <2>2
  <1>9. RecordersDiffer'
    BY <1>4 DEF IInv, RecordersDiffer, Idle
  <1>10. RowsHaveTheirs'
    BY <1>1, <1>2, <1>3 DEF IInv, RowsHaveTheirs, TypeOK
  <1> QED
    BY <1>2, <1>5, <1>7, <1>8, <1>9, <1>10 DEF IInv, AddressTells, InboxIsKept

-----------------------------------------------------------------------------
LEMMA StepKeeps ==
    ASSUME NoneIsNothing, IInv, NEW q \in Requests, Step(q)
    PROVE  IInv'
  <1>1. ASSUME NEW o \in Owners, NEW uses \in Uses, FindInboxByAddress(q, o, uses)
        PROVE  IInv'
    BY <1>1, FindKeeps
  <1>2. CASE InsertInbox(q)
    BY <1>2, InsertKeeps
  <1>3. ASSUME NEW a \in Addresses, ReceiveInboundMessage(q, a)
        PROVE  IInv'
    <2> DEFINE state == Submitting("message", inboxes[a].owner, {})
    <2>1. state \in Request
      BY <1>3 DEF ReceiveInboundMessage, IInv, TypeOK, Inbox, Submitting, Request
    <2> QED
      BY <1>3, <2>1, MoveKeeps DEF ReceiveInboundMessage, Submitting
  <1>4. ASSUME NEW o \in Owners, IngestWebhookCase(q, o)
        PROVE  IInv'
    <2> DEFINE state == Submitting("webhook", o, {})
    <2>1. state \in Request
      BY DEF Submitting, Request
    <2> QED
      BY <1>4, <2>1, MoveKeeps DEF IngestWebhookCase, Submitting
  <1>5. ASSUME NEW o \in Owners, NEW attachments \in SUBSET Assets,
               IngestTraceExport(q, o, attachments)
        PROVE  IInv'
    <2> DEFINE state == Submitting("trace", o, attachments)
    <2>1. state \in Request
      BY DEF Submitting, Request
    <2> QED
      BY <1>5, <2>1, MoveKeeps DEF IngestTraceExport, Submitting
  <1>6. ASSUME NEW a \in Assets, ExtractAsset(q, a)
        PROVE  IInv'
    BY <1>6, ExtractKeeps
  <1>7. ASSUME NEW s \in Submissions, Submit(q, s)
        PROVE  IInv'
    BY <1>7, SubmitKeeps
  <1>8. CASE CreateInboundMessageOrWebhookCase(q)
    BY <1>8, FileKeeps
  <1>9. CASE UpdateAssetExtraction(q)
    BY <1>9, UpdateKeeps
  <1>10. ASSUME NEW o \in Owners, NEW a \in Assets, PutUpload(q, o, a)
         PROVE  IInv'
    <2> DEFINE state == [pc |-> "recording", door |-> "upload", owner |-> o, asset |-> a,
                         left |-> {}, submission |-> None]
    <2>1. state \in Request
      BY DEF Request
    <2> QED
      BY <1>10, <2>1, PutKeeps DEF PutUpload
  <1>11. ASSUME NEW a \in Assets, PutAttachment(q, a)
         PROVE  IInv'
    <2> DEFINE r == reqs[q]
               state == [pc |-> "recording", door |-> "trace", owner |-> r.owner,
                         asset |-> a, left |-> r.left \ {a}, submission |-> r.submission]
    <2>1. /\ r.owner \in Owners /\ r.left \subseteq Assets /\ r.submission \in Submissions
          /\ accepted[r.submission] = r.owner
      BY <1>11 DEF PutAttachment, IInv, TypeOK, Request, Idle, Honest
    <2>2. state \in Request /\ state.submission # None
      BY <2>1 DEF Request, NoneIsNothing
    <2> QED
      BY <1>11, <2>1, <2>2, PutKeeps DEF PutAttachment
  <1>12. CASE CreateAsset(q)
    BY <1>12, CreateAssetKeeps
  <1>13. CASE Abandon(q)
    BY <1>13, MoveKeeps DEF Abandon, Idle, Request
  <1> QED
    BY <1>1, <1>2, <1>3, <1>4, <1>5, <1>6, <1>7, <1>8, <1>9, <1>10, <1>11, <1>12, <1>13
       DEF Step

LEMMA StutterKeeps == ASSUME IInv, UNCHANGED vars PROVE IInv'
  BY DEF IInv, vars, tables, TypeOK, AddressTells, InboxIsKept, RowsHaveTheirs, Honest,
         RecordersDiffer

\* Whichever calls fail and however requests interleave: inboxes stay the ones their
\* owners were told of, and rows name submissions that were accepted for their owner
\* (createInbox, receiveInboundMessage, ingestWebhookCase, createAsset, extractAsset,
\* ingestTraceExport).
THEOREM NothingIsMisfiled ==
    ASSUME NoneIsNothing PROVE Spec => []NothingMisfiled
  <1>1. Init => IInv
    BY InitHolds
  <1>2. IInv /\ [Next]_vars => IInv'
    BY StepKeeps, StutterKeeps DEF Next
  <1>3. IInv => NothingMisfiled
    BY DEF IInv, NothingMisfiled
  <1> QED
    BY <1>1, <1>2, <1>3, PTL DEF Spec

\* A request is at one of its calls with what that call was given; inboxes, submissions
\* and assets stay rows of their tables.
THEOREM TypeCorrect == ASSUME NoneIsNothing PROVE Spec => []TypeOK
  <1>1. Init => IInv
    BY InitHolds
  <1>2. IInv /\ [Next]_vars => IInv'
    BY StepKeeps, StutterKeeps DEF Next
  <1>3. IInv => TypeOK
    BY DEF IInv
  <1> QED
    BY <1>1, <1>2, <1>3, PTL DEF Spec
=============================================================================
