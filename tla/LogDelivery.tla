---------------------------- MODULE LogDelivery ----------------------------
(***************************************************************************)
(* What the collector's write path promises, without its queues and        *)
(* goroutines: lines are accepted from each follower in order; batches are *)
(* cut from those that wait, the oldest of each follower first; each batch *)
(* is answered once, and then every line of it has one row in the log      *)
(* table or none has; rows are never removed; once the process has ended   *)
(* nothing changes.  BatchWriter implements it.                            *)
(***************************************************************************)
EXTENDS Integers, FiniteSets

CONSTANTS
    Followers,     \* who hands lines over
    MaxLines,      \* bound: lines per follower
    BatchCap,      \* the largest batch
    MayRefuse      \* the database may refuse a batch

VARIABLES
    accepted,      \* accepted[f]: lines taken from f
    batches,       \* the batches cut and not yet answered
    table,         \* table[l]: rows of the log table that hold l
    refused,       \* lines of refused batches
    open           \* the process is running

vars == <<accepted, batches, table, refused, open>>

Lines == Followers \X (1..MaxLines)

\* Accepted and in no batch yet.
Waiting ==
    {l \in Lines : /\ l[2] <= accepted[l[1]]
                   /\ \A B \in batches : l \notin B
                   /\ table[l] = 0
                   /\ l \notin refused}

\* The batches that may be cut: no line overtakes an older one of its follower.
Cuts ==
    {B \in SUBSET Waiting :
        /\ B # {} /\ Cardinality(B) <= BatchCap
        /\ \A l \in B, k \in Waiting : k[1] = l[1] /\ k[2] < l[2] => k \in B}

Init ==
    /\ accepted = [f \in Followers |-> 0]
    /\ batches = {}
    /\ table = [l \in Lines |-> 0]
    /\ refused = {}
    /\ open = TRUE

Accept(f) ==
    /\ open
    /\ accepted[f] < MaxLines
    /\ accepted' = [accepted EXCEPT ![f] = @ + 1]
    /\ UNCHANGED <<batches, table, refused, open>>

Cut(B) ==
    /\ open
    /\ batches' = batches \union {B}
    /\ UNCHANGED <<accepted, table, refused, open>>

Store(B) ==
    /\ open
    /\ batches' = batches \ {B}
    /\ table' = [l \in Lines |-> IF l \in B THEN 1 ELSE table[l]]
    /\ UNCHANGED <<accepted, refused, open>>

Refuse(B) ==
    /\ open
    /\ MayRefuse
    /\ batches' = batches \ {B}
    /\ refused' = refused \union B
    /\ UNCHANGED <<accepted, table, open>>

End ==
    /\ open
    /\ open' = FALSE
    /\ UNCHANGED <<accepted, batches, table, refused>>

Next ==
    \/ End
    \/ \E f \in Followers : Accept(f)
    \/ \E B \in Cuts : Cut(B)
    \/ \E B \in batches : Store(B) \/ Refuse(B)

Spec == Init /\ [][Next]_vars
=============================================================================
