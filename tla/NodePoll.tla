------------------------------- MODULE NodePoll -------------------------------
(***************************************************************************)
(* The executor's poll of the cluster's nodes.  Each round lists the nodes *)
(* once, visits them all at the same time over SSH, waits for all visits,  *)
(* and writes what it found, computed from the listed copies, into a store *)
(* that users have edited meanwhile.  A node that does not answer is left  *)
(* alone for a while, and after some failures in a row is called           *)
(* unreachable.  Provisioning tasks, which the same round starts, are in   *)
(* Provisioning; metrics, messages and addresses are left out.  A request  *)
(* that a check refuses, or whose write fails, is no step.                 *)
(***************************************************************************)
EXTENDS Naturals, FiniteSets

CONSTANTS
    Node,
    NoNode,      \* no record
    NoWait,      \* no entry in nextAttemptAfter
    Threshold,   \* failures in a row that make a node unreachable: three
    Cap,         \* the exponent of the backoff ends here: six
    MaxCount,    \* bound: failures are not counted beyond this
    MaxEdits,    \* bound: nodes saved or deleted
    MaxFaults    \* bound: failing writes, panics and restarts together

\* The identifier in the zero nodeResult that a panic leaves behind
Nobody == ""

Role == {"control-plane", "worker"}

\* "init" starts a cluster; "join" asks for ${K3S_TOKEN}
Command == {"none", "init", "join"}

JoinStatus == {"credential_ready", "join_command_ready", "failed", "active"}

ClusterNode ==
    [role : Role, command : Command, status : {"ready", "unreachable"}, join : JoinStatus]

ASSUME PollAssumption ==
    /\ Nobody \notin Node
    /\ NoNode \notin ClusterNode
    /\ Threshold \in Nat \ {0}
    /\ Cap \in Nat
    /\ MaxCount \in Nat
    /\ MaxCount >= Threshold
    /\ MaxCount >= Cap
    /\ NoWait \notin Nat
    /\ MaxEdits \in Nat
    /\ MaxFaults \in Nat

\* A fact of arithmetic, stated for the proofs: the provers do not know powers.
ASSUME PowerAssumption == \A k \in 0..Cap : 2 ^ k \in Nat

VARIABLES
    nodes,      \* the store
    token,      \* K3S_TOKEN is in the environment of the process
    failures,   \* consecutive, 0 for no entry
    attempt,    \* nextAttemptAfter, as the ticks left
    listed,     \* the round's copy of each node it visits
    outcome,    \* what the visit has come to; "none" when there is none
    up,         \* the machine answers, and so do its metrics
    edits, faults

poll == <<listed, outcome>>
vars == <<nodes, token, failures, attempt, listed, outcome, up, edits, faults>>

Outcome == {"none", "working", "collected", "failed", "panic"}

AtRest == \A n \in Node : outcome[n] = "none"

AtMost(bound, x) == IF x < bound THEN x ELSE bound

\* Mutant: the exponent is not capped.
UncappedBackoff(count) == 2 ^ count

Backoff(count) == 2 ^ AtMost(Cap, count)

-------------------------------------------------------------------------------
(* Joining.  Every command the platform makes begins with "curl", and one   *)
(* that does not begin with "k3s" is refused, so no command is ever run.    *)

Waiting(join) == join \in {"credential_ready", "join_command_ready"}

tryJoinNode(node) ==
    IF ~Waiting(node.join) \/ node.command = "none" THEN node.join
    ELSE IF node.command = "join" /\ ~token THEN "credential_ready"
    ELSE "failed"

\* The server is the endpoint that was given, or another control plane.
buildJoinCommand(n, role, endpoint) ==
    LET server == endpoint \/ \E m \in Node \ {n} :
                                 nodes[m] # NoNode /\ nodes[m].role = "control-plane"
    IN  IF role = "control-plane" /\ ~server THEN "init"
        ELSE IF token /\ server THEN "join"
        ELSE "none"

-------------------------------------------------------------------------------
(* One round.                                                               *)

\* Mutant: a deleted node's failures are forgotten, its backoff is not.
PruneHalf ==
    /\ failures' = [i \in Node \cup {Nobody} |->
                       IF i \in Node /\ nodes[i] # NoNode THEN failures[i] ELSE 0]
    /\ UNCHANGED attempt

Prune ==
    LET active(i) == i \in Node /\ nodes[i] # NoNode
    IN  /\ failures' = [i \in Node \cup {Nobody} |-> IF active(i) THEN failures[i] ELSE 0]
        /\ attempt' = [i \in Node \cup {Nobody} |->
                          IF failures[i] > 0 /\ ~active(i) THEN NoWait ELSE attempt[i]]

\* Mutant: a node with an entry is skipped, whatever its time.
SkipAlways(n) == attempt[n] # NoWait

Skipped(n) == attempt[n] # NoWait /\ attempt[n] > 0

\* ListClusterNodes; the entries of nodes that are gone are removed.
List ==
    /\ AtRest
    /\ Prune
    /\ listed' = [n \in Node |-> IF nodes[n] = NoNode \/ Skipped(n) THEN NoNode ELSE nodes[n]]
    /\ outcome' = [n \in Node |-> IF listed'[n] = NoNode THEN "none" ELSE "working"]
    /\ UNCHANGED <<nodes, token, up, edits, faults>>

\* Connecting and the commands for the metrics succeed or time out.
collectNodeMetrics(n) == up[n]

\* collectAndJoin in a goroutine of its own; a panic leaves its result zero.
Visit(n) ==
    /\ outcome[n] = "working"
    /\ \/ /\ outcome' = [outcome EXCEPT ![n] = IF collectNodeMetrics(n) THEN "collected" ELSE "failed"]
          /\ UNCHANGED faults
       \/ /\ faults < MaxFaults
          /\ outcome' = [outcome EXCEPT ![n] = "panic"]
          /\ faults' = faults + 1
    /\ UNCHANGED <<nodes, token, failures, attempt, listed, up, edits>>

\* Mutant: the whole node is written, as SaveClusterNodes does.
SaveWholeNode(n, status, join) ==
    \/ /\ nodes[n] # NoNode
       /\ nodes' = [nodes EXCEPT ![n] = [listed[n] EXCEPT !.status = status, !.join = join]]
       /\ UNCHANGED faults
    \/ nodes[n] = NoNode /\ UNCHANGED <<nodes, faults>>
    \/ faults < MaxFaults /\ faults' = faults + 1 /\ UNCHANGED nodes

\* The status and the join status become those of the round; a node deleted
\* meanwhile is not found, and an error is only logged.
SaveClusterNodeStatus(n, status, join) ==
    \/ /\ nodes[n] # NoNode
       /\ nodes' = [nodes EXCEPT ![n].status = status, ![n].join = join]
       /\ UNCHANGED faults
    \/ nodes[n] = NoNode /\ UNCHANGED <<nodes, faults>>
    \/ faults < MaxFaults /\ faults' = faults + 1 /\ UNCHANGED nodes

\* Mutant: a node is called unreachable at one failure only.
OnlyThen(count) == count = Threshold

Enough(count) == count >= Threshold

Collected(n) ==
    /\ SaveClusterNodeStatus(n, listed[n].status, tryJoinNode(listed[n]))
    /\ failures' = [failures EXCEPT ![n] = 0]
    /\ attempt' = [attempt EXCEPT ![n] = NoWait]

\* i is the identifier in the result, n the node that was listed
Failed(i, n) ==
    LET count == AtMost(MaxCount, failures[i] + 1)
    IN  /\ failures' = [failures EXCEPT ![i] = count]
        /\ attempt' = [attempt EXCEPT ![i] = Backoff(count)]
        /\ IF Enough(count) /\ listed[n].status = "ready"
           THEN SaveClusterNodeStatus(n, "unreachable", listed[n].join)
           ELSE UNCHANGED <<nodes, faults>>

\* After wg.Wait; the order of the list is left open.
SaveResult(n) ==
    /\ \A m \in Node : outcome[m] # "working"
    /\ \/ outcome[n] = "collected" /\ Collected(n)
       \/ outcome[n] = "failed" /\ Failed(n, n)
       \/ outcome[n] = "panic" /\ Failed(Nobody, n)
    /\ listed' = [listed EXCEPT ![n] = NoNode]
    /\ outcome' = [outcome EXCEPT ![n] = "none"]
    /\ UNCHANGED <<token, up, edits>>

Poll == List \/ \E n \in Node : Visit(n) \/ SaveResult(n)

-------------------------------------------------------------------------------
(* Users, machines, time and the process.                                   *)

\* Whoever saves a node sends its status along, perhaps an old one.
SaveClusterNode(n) ==
    /\ edits < MaxEdits
    /\ edits' = edits + 1
    /\ \E role \in Role, status \in {"ready", "unreachable"}, endpoint \in BOOLEAN :
          LET command == buildJoinCommand(n, role, endpoint)
          IN  nodes' = [nodes EXCEPT ![n] =
                  [role |-> role, command |-> command, status |-> status,
                   join |-> IF command = "none" THEN "credential_ready"
                                                ELSE "join_command_ready"]]
    /\ UNCHANGED <<token, failures, attempt, poll, up, faults>>

DeleteClusterNode(n) ==
    /\ edits < MaxEdits
    /\ edits' = edits + 1
    /\ nodes[n] # NoNode
    /\ nodes' = [nodes EXCEPT ![n] = NoNode]
    /\ UNCHANGED <<token, failures, attempt, poll, up, faults>>

Machine(n) ==
    /\ up' = [up EXCEPT ![n] = ~up[n]]
    /\ UNCHANGED <<nodes, token, failures, attempt, poll, edits, faults>>

Tick ==
    /\ \E i \in DOMAIN attempt : attempt[i] # NoWait /\ attempt[i] > 0
    /\ attempt' = [i \in DOMAIN attempt |->
                      IF attempt[i] # NoWait /\ attempt[i] > 0 THEN attempt[i] - 1
                                                               ELSE attempt[i]]
    /\ UNCHANGED <<nodes, token, failures, poll, up, edits, faults>>

NoFailures == [i \in Node \cup {Nobody} |-> 0]
NoBackoff == [i \in Node \cup {Nobody} |-> NoWait]
NotListed == [n \in Node |-> NoNode]
NoOutcome == [n \in Node |-> "none"]

\* Stop and New: what the executor has in memory is lost.
Restart ==
    /\ faults < MaxFaults
    /\ faults' = faults + 1
    /\ token' \in BOOLEAN
    /\ failures' = NoFailures
    /\ attempt' = NoBackoff
    /\ listed' = NotListed
    /\ outcome' = NoOutcome
    /\ UNCHANGED <<nodes, up, edits>>

Seeded(role) ==
    [role |-> role, command |-> IF role = "worker" THEN "join" ELSE "init",
     status |-> "ready", join |-> "active"]

\* The seed's nodes: one is a control plane, the others are workers.
Init ==
    /\ \E master \in Node :
          nodes = [n \in Node |-> Seeded(IF n = master THEN "control-plane" ELSE "worker")]
    /\ token \in BOOLEAN
    /\ failures = NoFailures
    /\ attempt = NoBackoff
    /\ listed = NotListed
    /\ outcome = NoOutcome
    /\ up \in [Node -> BOOLEAN]
    /\ edits = 0
    /\ faults = 0

Next ==
    \/ Poll
    \/ \E n \in Node : SaveClusterNode(n) \/ DeleteClusterNode(n) \/ Machine(n)
    \/ Tick
    \/ Restart

\* The ticker's loop goes on, and every SSH command has a timeout.
Spec ==
    /\ Init /\ [][Next]_vars
    /\ WF_vars(Tick)
    /\ WF_vars(List)
    /\ \A n \in Node : WF_vars(Visit(n)) /\ WF_vars(SaveResult(n))

-------------------------------------------------------------------------------
(* Properties.                                                              *)

\* Every variable holds a value of its type, and no wait is longer than the
\* cap of the backoff allows.
TypeOK ==
    /\ nodes \in [Node -> ClusterNode \cup {NoNode}]
    /\ token \in BOOLEAN
    /\ failures \in [Node \cup {Nobody} -> 0..MaxCount]
    /\ attempt \in [Node \cup {Nobody} -> Nat \cup {NoWait}]
    /\ \A i \in Node \cup {Nobody} :
          attempt[i] # NoWait => \E k \in 0..Cap : attempt[i] <= 2 ^ k
    /\ listed \in [Node -> ClusterNode \cup {NoNode}]
    /\ outcome \in [Node -> Outcome]
    /\ \A n \in Node : outcome[n] = "none" <=> listed[n] = NoNode
    /\ up \in [Node -> BOOLEAN]
    /\ edits \in 0..MaxEdits
    /\ faults \in 0..MaxFaults

\* A node is left alone exactly when it has failed since it last answered,
\* also after it was deleted, saved anew, or its visit panicked.
BackoffMatchesFailures ==
    \A i \in Node \cup {Nobody} : attempt[i] = NoWait <=> failures[i] = 0

\* A round, which may have listed a node long ago, neither brings a deleted
\* node back nor undoes what a user has changed: its role and join command.
PollKeepsUserEdits ==
    [][Poll => \A n \in Node :
          \/ nodes[n] = NoNode /\ nodes'[n] = NoNode
          \/ /\ nodes[n] # NoNode /\ nodes'[n] # NoNode
             /\ nodes'[n].role = nodes[n].role
             /\ nodes'[n].command = nodes[n].command]_vars

\* A node that never answers any more does not stay "ready": failing writes,
\* panics, restarts and edits can delay that, not prevent it.
DeadNodesAreReported ==
    \A n \in Node :
        <>[](~up[n]) => <>[](nodes[n] = NoNode \/ nodes[n].status # "ready")

\* A node that answers for good is visited again, whatever its backoff was,
\* and its join command, if it has one, does not wait for ever.
LiveNodesReturn ==
    \A n \in Node :
        <>[](up[n]) => <>[](/\ failures[n] = 0
                            /\ \/ nodes[n] = NoNode
                               \/ nodes[n].command = "none"
                               \/ nodes[n].join # "join_command_ready")

===============================================================================
