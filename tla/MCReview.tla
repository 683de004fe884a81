------------------------------ MODULE MCReview ------------------------------
(* Small instances of Review for TLC.                                       *)
EXTENDS Review, TLC
CONSTANTS c1, c2, r1, r2, q1, q2

Full == {"objective", "context", "steps", "tool_results", "failures", "acceptance",
         "reusable_rules"}

Text(findings, signals, chars, use, reply) ==
    [findings |-> findings, signals |-> signals, chars |-> chars, uses |-> {use},
     reply |-> reply, recorded |-> TRUE]

\* The first case comes from a text worth DRL3, whose gateway call may fail, from one
\* with too little in it, or from one that fails redaction. The second, which is there
\* for the queue, from one with too little.
SomeTexts ==
    c1 :> {Text(<<>>, Full, 600, "training", "ok"),
           Text(<<>>, Full, 600, "training", "error"),
           Text(<<>>, {"steps"}, 130, "commercial_dataset", "ok"),
           Text("secret_assignment" :> 2, Full, 600, "training", "ok")}
    @@ c2 :> {Text(<<>>, {"steps"}, 60, "commercial_dataset", "ok")}

\* A refinement that passes on a long text and one that does not.
SomeEdits == c1 :> {Full, {"objective"}} @@ c2 :> {}

\* Two requests interleave while there is one case; once the second case is there,
\* one request at a time, and claims, releases and time interleave with it.
Narrow ==
    Len(order) = 2 => Cardinality({q \in Requests : reqs[q] # Idle}) <= 1

MCSpec ==
    Init /\ [][Next /\ Narrow']_vars /\ WF_vars(Tick) /\ WF_vars(Claim)
=============================================================================
