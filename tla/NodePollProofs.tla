---------------------------- MODULE NodePollProofs ----------------------------
(***************************************************************************)
(* Machine-checked proofs of the safety of NodePoll, for any nodes, any    *)
(* thresholds and any number of edits and faults.                          *)
(***************************************************************************)
EXTENDS NodePoll, TLAPS

Index == Node \cup {Nobody}

\* TypeOK without the tie between the visits and the list, part by part
NodesType == nodes \in [Node -> ClusterNode \cup {NoNode}]
ListedType ==
    /\ listed \in [Node -> ClusterNode \cup {NoNode}]
    /\ outcome \in [Node -> Outcome]
    /\ \A n \in Node : outcome[n] = "none" <=> listed[n] = NoNode
AttemptType ==
    /\ attempt \in [Index -> Nat \cup {NoWait}]
    /\ \A i \in Index : attempt[i] # NoWait => \E k \in 0..Cap : attempt[i] <= 2 ^ k
FailuresType == failures \in [Index -> 0..MaxCount]
OthersType ==
    /\ token \in BOOLEAN
    /\ up \in [Node -> BOOLEAN]
    /\ edits \in 0..MaxEdits
    /\ faults \in 0..MaxFaults

\* TypeOK is its parts and the tie between the visits and the list.
LEMMA TypeParts ==
    TypeOK <=> NodesType /\ ListedType /\ AttemptType /\ FailuresType /\ OthersType
  BY DEF TypeOK, NodesType, ListedType, AttemptType, FailuresType, OthersType, Index

(***************************************************************************)
(* The helpers.                                                            *)
(***************************************************************************)

\* The wait after a failure is a number, and no longer than the cap allows.
LEMMA BackoffBound ==
    ASSUME NEW count \in Nat
    PROVE  /\ Backoff(count) \in Nat /\ Backoff(count) # NoWait
           /\ \E k \in 0..Cap : Backoff(count) <= 2 ^ k
  <1>1. AtMost(Cap, count) \in 0..Cap
    BY PollAssumption DEF AtMost
  <1>2. Backoff(count) = 2 ^ AtMost(Cap, count)
    BY DEF Backoff
  <1>3. Backoff(count) \in Nat
    BY <1>1, <1>2, PowerAssumption
  <1>4. Backoff(count) <= Backoff(count)
    BY <1>3
  <1>5. QED
    BY <1>1, <1>2, <1>3, <1>4, PollAssumption

\* A failure is counted from one on, up to the bound of the model.
LEMMA CountBound ==
    ASSUME NEW f \in 0..MaxCount
    PROVE  AtMost(MaxCount, f + 1) \in 1..MaxCount
  BY PollAssumption DEF AtMost

\* A join ends in one of its statuses.
LEMMA JoinType ==
    ASSUME NEW node \in ClusterNode
    PROVE  tryJoinNode(node) \in JoinStatus
  BY DEF tryJoinNode, ClusterNode, JoinStatus

\* The write of the round keeps the types; it creates and deletes no node,
\* and leaves the role and the command alone.
LEMMA StatusWrite ==
    ASSUME NodesType, faults \in 0..MaxFaults, NEW n \in Node,
           NEW status \in {"ready", "unreachable"}, NEW join \in JoinStatus,
           SaveClusterNodeStatus(n, status, join)
    PROVE  /\ NodesType'
           /\ faults' \in 0..MaxFaults
           /\ \A m \in Node : \/ nodes[m] = NoNode /\ nodes'[m] = NoNode
                              \/ /\ nodes[m] # NoNode /\ nodes'[m] # NoNode
                                 /\ nodes'[m].role = nodes[m].role
                                 /\ nodes'[m].command = nodes[m].command
  <1>1. faults' \in 0..MaxFaults
    BY PollAssumption DEF SaveClusterNodeStatus
  <1>2. CASE UNCHANGED nodes
    BY <1>1, <1>2 DEF NodesType
  <1>3. CASE /\ nodes[n] # NoNode
             /\ nodes' = [nodes EXCEPT ![n].status = status, ![n].join = join]
    <2> DEFINE node == [nodes[n] EXCEPT !.status = status, !.join = join]
    <2>1. nodes[n] \in ClusterNode
      BY <1>3 DEF NodesType
    <2>2. /\ node \in ClusterNode
          /\ node.role = nodes[n].role /\ node.command = nodes[n].command
      BY <2>1 DEF ClusterNode
    <2>3. nodes' = [nodes EXCEPT ![n] = node]
      BY <1>3, <2>1 DEF NodesType
    <2>4. node # NoNode
      BY <2>2, PollAssumption
    <2>5. nodes'[n] = node /\ \A m \in Node \ {n} : nodes'[m] = nodes[m]
      BY <2>3 DEF NodesType
    <2>6. NodesType'
      BY <2>2, <2>3 DEF NodesType
    <2>7. \A m \in Node : \/ nodes[m] = NoNode /\ nodes'[m] = NoNode
                          \/ /\ nodes[m] # NoNode /\ nodes'[m] # NoNode
                             /\ nodes'[m].role = nodes[m].role
                             /\ nodes'[m].command = nodes[m].command
      BY <1>3, <2>2, <2>4, <2>5
    <2> HIDE DEF node
    <2>8. QED
      BY <1>1, <2>6, <2>7
  <1>4. QED
    BY <1>2, <1>3 DEF SaveClusterNodeStatus

(***************************************************************************)
(* What a round writes for one node.                                       *)
(***************************************************************************)

\* The effect of a result on everything but the list.
LEMMA ResultEffect ==
    ASSUME TypeOK, NEW n \in Node, SaveResult(n)
    PROVE  \/ /\ SaveClusterNodeStatus(n, listed[n].status, tryJoinNode(listed[n]))
              /\ failures' = [failures EXCEPT ![n] = 0]
              /\ attempt' = [attempt EXCEPT ![n] = NoWait]
           \/ \E i \in Index : Failed(i, n)
  BY DEF SaveResult, Collected, Index

\* What was listed is a node, with the status it had then.
LEMMA ListedIsNode ==
    ASSUME TypeOK, NEW n \in Node, SaveResult(n)
    PROVE  /\ listed[n] \in ClusterNode
           /\ listed[n].status \in {"ready", "unreachable"}
           /\ listed[n].join \in JoinStatus
  <1>1. outcome[n] # "none"
    BY DEF SaveResult
  <1>2. listed[n] \in ClusterNode
    BY <1>1 DEF TypeOK
  <1>3. QED
    BY <1>2 DEF ClusterNode

\* Either nothing is written to the store or one status.
LEMMA ResultWrites ==
    ASSUME TypeOK, NEW n \in Node, SaveResult(n)
    PROVE  \/ \E status \in {"ready", "unreachable"}, join \in JoinStatus :
                 SaveClusterNodeStatus(n, status, join)
           \/ UNCHANGED <<nodes, faults>>
  <1>1. /\ listed[n].status \in {"ready", "unreachable"}
        /\ listed[n].join \in JoinStatus /\ tryJoinNode(listed[n]) \in JoinStatus
    BY ListedIsNode, JoinType
  <1>2. CASE SaveClusterNodeStatus(n, listed[n].status, tryJoinNode(listed[n]))
    BY <1>1, <1>2
  <1>3. ASSUME NEW i \in Index, Failed(i, n)
        PROVE  \/ SaveClusterNodeStatus(n, "unreachable", listed[n].join)
               \/ UNCHANGED <<nodes, faults>>
    BY <1>3 DEF Failed
  <1>4. QED
    BY <1>1, <1>2, <1>3, ResultEffect

\* Either the entry of a node is removed or a failure is counted.
LEMMA ResultCounts ==
    ASSUME TypeOK, BackoffMatchesFailures, NEW n \in Node, SaveResult(n)
    PROVE  FailuresType' /\ AttemptType' /\ BackoffMatchesFailures'
  <1> USE TypeParts DEF FailuresType, AttemptType
  <1>1. CASE /\ failures' = [failures EXCEPT ![n] = 0]
             /\ attempt' = [attempt EXCEPT ![n] = NoWait]
    <2>1. 0 \in 0..MaxCount
      BY PollAssumption
    <2>2. QED
      BY <1>1, <2>1 DEF BackoffMatchesFailures, Index
  <1>2. ASSUME NEW i \in Index, Failed(i, n)
        PROVE  FailuresType' /\ AttemptType' /\ BackoffMatchesFailures'
    <2> DEFINE count == AtMost(MaxCount, failures[i] + 1)
    <2>1. count \in 1..MaxCount /\ count \in Nat /\ count # 0 /\ count \in 0..MaxCount
      BY CountBound, PollAssumption
    <2>2. /\ failures' = [failures EXCEPT ![i] = count]
          /\ attempt' = [attempt EXCEPT ![i] = Backoff(count)]
      BY <1>2 DEF Failed
    <2> HIDE DEF count
    <2>3. /\ Backoff(count) \in Nat /\ Backoff(count) # NoWait
          /\ \E k \in 0..Cap : Backoff(count) <= 2 ^ k
      BY <2>1, BackoffBound
    <2>4. QED
      BY <2>1, <2>2, <2>3 DEF BackoffMatchesFailures, Index
  <1>3. QED
    BY <1>1, <1>2, ResultEffect

(***************************************************************************)
(* Types and the backoff, which are inductive together: one case for each  *)
(* action.                                                                 *)
(***************************************************************************)
IInv == TypeOK /\ BackoffMatchesFailures

\* Removing the entries of nodes that are gone removes both or none.
LEMMA PruneStep ==
    ASSUME IInv, Prune
    PROVE  FailuresType' /\ AttemptType' /\ BackoffMatchesFailures'
  <1> DEFINE active(i) == i \in Node /\ nodes[i] # NoNode
  <1>1. FailuresType /\ AttemptType /\ BackoffMatchesFailures
    BY TypeParts DEF IInv
  <1>2. /\ failures' = [i \in Index |-> IF active(i) THEN failures[i] ELSE 0]
        /\ attempt' = [i \in Index |->
                          IF failures[i] > 0 /\ ~active(i) THEN NoWait ELSE attempt[i]]
    BY DEF Prune, Index
  <1> HIDE DEF active
  <1>3. \A i \in Index : failures[i] \in 0..MaxCount /\ (failures[i] > 0 <=> failures[i] # 0)
    BY <1>1, PollAssumption DEF FailuresType
  <1>4. FailuresType'
    BY <1>1, <1>2, PollAssumption DEF FailuresType
  <1>5. AttemptType'
    BY <1>1, <1>2 DEF AttemptType
  <1>6. BackoffMatchesFailures'
    BY <1>1, <1>2, <1>3 DEF BackoffMatchesFailures, Index
  <1>7. QED
    BY <1>4, <1>5, <1>6

\* A tick only shortens waits.
LEMMA TickStep ==
    ASSUME IInv, Tick
    PROVE  AttemptType' /\ BackoffMatchesFailures'
  <1>1. AttemptType /\ BackoffMatchesFailures
    BY TypeParts DEF IInv
  <1>2. DOMAIN attempt = Index
    BY <1>1 DEF AttemptType
  <1>3. attempt' = [i \in Index |-> IF attempt[i] # NoWait /\ attempt[i] > 0
                                    THEN attempt[i] - 1 ELSE attempt[i]]
    BY <1>2 DEF Tick
  <1>4. ASSUME NEW i \in Index
        PROVE  /\ attempt'[i] \in Nat \cup {NoWait}
               /\ attempt'[i] = NoWait <=> attempt[i] = NoWait
               /\ attempt'[i] # NoWait => attempt'[i] <= attempt[i]
    <2>1. attempt[i] \in Nat \cup {NoWait} /\ NoWait \notin Nat
      BY <1>1, PollAssumption DEF AttemptType
    <2>2. CASE attempt[i] = NoWait
      BY <1>3, <2>2
    <2>3. CASE attempt[i] # NoWait
      <3>1. attempt[i] \in Nat
        BY <2>1, <2>3
      <3>2. attempt'[i] \in Nat /\ attempt'[i] <= attempt[i]
        BY <1>3, <2>3, <3>1
      <3>3. QED
        BY <2>1, <2>3, <3>2
    <2>4. QED
      BY <2>2, <2>3
  <1>5. ASSUME NEW i \in Index, attempt'[i] # NoWait
        PROVE  \E k \in 0..Cap : attempt'[i] <= 2 ^ k
    <2>1. attempt[i] # NoWait /\ attempt'[i] <= attempt[i]
      BY <1>4, <1>5
    <2>2. attempt[i] \in Nat /\ attempt'[i] \in Nat
      BY <1>1, <1>4, <1>5, <2>1 DEF AttemptType
    <2>3. PICK k \in 0..Cap : attempt[i] <= 2 ^ k
      BY <1>1, <2>1 DEF AttemptType
    <2>4. 2 ^ k \in Nat
      BY PowerAssumption
    <2>5. attempt'[i] <= 2 ^ k
      BY <2>1, <2>2, <2>3, <2>4
    <2>6. QED
      BY <2>5
  <1>6. AttemptType'
    BY <1>3, <1>4, <1>5 DEF AttemptType
  <1>7. failures' = failures
    BY DEF Tick
  <1>8. QED
    BY <1>1, <1>4, <1>6, <1>7 DEF BackoffMatchesFailures, Index

\* A round starts from what the store holds; the removed entries go in pairs.
LEMMA ListStep == ASSUME IInv, List PROVE IInv'
  <1>1. NodesType /\ OthersType
    BY TypeParts DEF IInv
  <1>2. FailuresType' /\ AttemptType' /\ BackoffMatchesFailures'
    BY PruneStep DEF List
  <1>3. listed' \in [Node -> ClusterNode \cup {NoNode}]
    BY <1>1 DEF List, NodesType
  <1>4. /\ outcome' \in [Node -> Outcome]
        /\ \A n \in Node : outcome'[n] = "none" <=> listed'[n] = NoNode
    BY DEF List, Outcome
  <1>5. NodesType' /\ OthersType'
    BY <1>1 DEF List, NodesType, OthersType
  <1>6. TypeOK'
    BY <1>2, <1>3, <1>4, <1>5
       DEF TypeOK, NodesType, AttemptType, FailuresType, OthersType, Index
  <1>7. QED
    BY <1>2, <1>6 DEF IInv

\* A visit changes its outcome only, and stays listed.
LEMMA VisitStep == ASSUME IInv, NEW n \in Node, Visit(n) PROVE IInv'
  <1>1. outcome[n] = "working" /\ TypeOK /\ BackoffMatchesFailures
    BY DEF Visit, IInv
  <1>2. PICK o \in {"collected", "failed", "panic"} : outcome' = [outcome EXCEPT ![n] = o]
    BY DEF Visit
  <1>3. /\ outcome' \in [Node -> Outcome]
        /\ \A m \in Node : outcome'[m] = "none" <=> listed[m] = NoNode
    BY <1>1, <1>2 DEF TypeOK, Outcome
  <1>4. faults' \in 0..MaxFaults
    BY <1>1, PollAssumption DEF Visit, TypeOK
  <1>5. UNCHANGED <<nodes, token, failures, attempt, listed, up, edits>>
    BY DEF Visit
  <1>6. QED
    BY <1>1, <1>3, <1>4, <1>5 DEF IInv, TypeOK, BackoffMatchesFailures

\* A result counts or forgets failures and leaves the list.
LEMMA ResultStep == ASSUME IInv, NEW n \in Node, SaveResult(n) PROVE IInv'
  <1>1. TypeOK /\ BackoffMatchesFailures
    BY DEF IInv
  <1>2. NodesType /\ ListedType /\ OthersType
    BY <1>1, TypeParts
  <1>3. FailuresType' /\ AttemptType' /\ BackoffMatchesFailures'
    BY <1>1, ResultCounts
  <1>4. NodesType' /\ faults' \in 0..MaxFaults
    <2>1. faults \in 0..MaxFaults
      BY <1>2 DEF OthersType
    <2>2. CASE UNCHANGED <<nodes, faults>>
      BY <1>2, <2>1, <2>2 DEF NodesType
    <2>3. CASE \E status \in {"ready", "unreachable"}, join \in JoinStatus :
                  SaveClusterNodeStatus(n, status, join)
      BY <1>2, <2>1, <2>3, StatusWrite
    <2>4. QED
      BY <1>1, <2>2, <2>3, ResultWrites
  <1>5. ListedType'
    BY <1>2 DEF SaveResult, ListedType, Outcome
  <1>6. OthersType'
    BY <1>2, <1>4 DEF SaveResult, OthersType
  <1>7. TypeOK'
    BY <1>3, <1>4, <1>5, <1>6
       DEF TypeOK, NodesType, ListedType, AttemptType, FailuresType, OthersType, Index
  <1>8. QED
    BY <1>3, <1>7 DEF IInv

\* The command a save derives is one of the three.
LEMMA CommandType ==
    ASSUME NEW n \in Node, NEW role \in Role, NEW endpoint \in BOOLEAN
    PROVE  buildJoinCommand(n, role, endpoint) \in Command
  BY DEF buildJoinCommand, Command

\* An edit, a machine or the clock touches neither the counters' pairing nor
\* the list.
LEMMA EditStep ==
    ASSUME IInv, NEW n \in Node, SaveClusterNode(n) \/ DeleteClusterNode(n)
    PROVE  IInv'
  <1>1. TypeOK /\ BackoffMatchesFailures
    BY DEF IInv
  <1>2. edits' \in 0..MaxEdits
    BY <1>1, PollAssumption DEF TypeOK, SaveClusterNode, DeleteClusterNode
  <1>3. nodes' \in [Node -> ClusterNode \cup {NoNode}]
    <2>1. CASE SaveClusterNode(n)
      <3>1. PICK role \in Role, status \in {"ready", "unreachable"}, endpoint \in BOOLEAN :
                nodes' = [nodes EXCEPT ![n] =
                    [role |-> role, command |-> buildJoinCommand(n, role, endpoint),
                     status |-> status,
                     join |-> IF buildJoinCommand(n, role, endpoint) = "none"
                              THEN "credential_ready" ELSE "join_command_ready"]]
        BY <2>1 DEF SaveClusterNode
      <3>2. buildJoinCommand(n, role, endpoint) \in Command
        BY CommandType
      <3>3. QED
        BY <1>1, <3>1, <3>2 DEF TypeOK, ClusterNode, JoinStatus
    <2>2. CASE DeleteClusterNode(n)
      BY <1>1, <2>2 DEF TypeOK, DeleteClusterNode
    <2>3. QED
      BY <2>1, <2>2
  <1>4. UNCHANGED <<token, failures, attempt, listed, outcome, up, faults>>
    BY DEF SaveClusterNode, DeleteClusterNode, poll
  <1>5. QED
    BY <1>1, <1>2, <1>3, <1>4 DEF IInv, TypeOK, BackoffMatchesFailures

\* After a restart the executor remembers nothing.
LEMMA RestartStep == ASSUME IInv, Restart PROVE IInv'
  <1>1. TypeOK
    BY DEF IInv
  <1>2. 0 \in 0..MaxCount /\ faults' \in 0..MaxFaults
    BY <1>1, PollAssumption DEF TypeOK, Restart
  <1>3. /\ failures' = [i \in Index |-> 0]
        /\ attempt' = [i \in Index |-> NoWait]
        /\ listed' = [n \in Node |-> NoNode]
        /\ outcome' = [n \in Node |-> "none"]
        /\ token' \in BOOLEAN
        /\ UNCHANGED <<nodes, up, edits>>
    BY DEF Restart, NoFailures, NoBackoff, NotListed, NoOutcome, Index
  <1>4. TypeOK'
    BY <1>1, <1>2, <1>3 DEF TypeOK, Index, Outcome
  <1>5. QED
    BY <1>3, <1>4 DEF IInv, BackoffMatchesFailures, Index

\* The seed's nodes have not failed yet.
LEMMA InitIInv == Init => IInv
  <1> SUFFICES ASSUME Init PROVE IInv
    OBVIOUS
  <1>1. /\ 0 \in 0..MaxCount /\ 0 \in 0..MaxEdits /\ 0 \in 0..MaxFaults
        /\ failures = [i \in Index |-> 0]
        /\ attempt = [i \in Index |-> NoWait]
        /\ listed = [n \in Node |-> NoNode]
        /\ outcome = [n \in Node |-> "none"]
    BY PollAssumption DEF Init, NoFailures, NoBackoff, NotListed, NoOutcome, Index
  <1>2. \A role \in Role : Seeded(role) \in ClusterNode
    BY DEF Seeded, ClusterNode, Command, JoinStatus
  <1>3. nodes \in [Node -> ClusterNode \cup {NoNode}]
    <2>1. "control-plane" \in Role /\ "worker" \in Role
      BY DEF Role
    <2>2. QED
      BY <1>2, <2>1 DEF Init
  <1>4. QED
    BY <1>1, <1>3 DEF Init, IInv, TypeOK, BackoffMatchesFailures, Outcome, Index

\* One case for each action.
LEMMA StepIInv == IInv /\ [Next]_vars => IInv'
  <1> SUFFICES ASSUME IInv, [Next]_vars PROVE IInv'
    OBVIOUS
  <1>1. ASSUME NEW n \in Node, Machine(n)
        PROVE  IInv'
    BY <1>1 DEF Machine, poll, IInv, TypeOK, BackoffMatchesFailures
  <1>2. CASE Tick
    <2>1. UNCHANGED <<nodes, token, failures, listed, outcome, up, edits, faults>>
      BY <1>2 DEF Tick, poll
    <2>2. NodesType' /\ ListedType' /\ FailuresType' /\ OthersType'
      BY <2>1, TypeParts DEF IInv, NodesType, ListedType, FailuresType, OthersType
    <2>3. AttemptType' /\ BackoffMatchesFailures'
      BY <1>2, TickStep
    <2>4. QED
      BY <2>2, <2>3
         DEF IInv, TypeOK, NodesType, ListedType, FailuresType, OthersType, AttemptType, Index
  <1>3. CASE UNCHANGED vars
    BY <1>3 DEF vars, IInv, TypeOK, BackoffMatchesFailures
  <1>4. QED
    BY <1>1, <1>2, <1>3, ListStep, VisitStep, ResultStep, EditStep, RestartStep
       DEF Next, Poll

\* The types and the pairing of failures with waits always hold together.
THEOREM Invariance == Spec => []IInv
  BY InitIInv, StepIInv, PTL DEF Spec

\* Every variable always holds a value of its type, and no wait is ever
\* longer than the cap of the backoff allows.
THEOREM TypeCorrect == Spec => []TypeOK
  <1>1. IInv => TypeOK
    BY DEF IInv
  <1>2. QED
    BY <1>1, Invariance, PTL

\* A node is left alone exactly when it has failed since it last answered.
THEOREM BackoffCorrect == Spec => []BackoffMatchesFailures
  <1>1. IInv => BackoffMatchesFailures
    BY DEF IInv
  <1>2. QED
    BY <1>1, Invariance, PTL

\* A round neither brings a deleted node back nor undoes what a user has
\* changed since the round listed the node.
THEOREM EditsAreKept == Spec => PollKeepsUserEdits
  <1> DEFINE Kept(n) ==
        \/ nodes[n] = NoNode /\ nodes'[n] = NoNode
        \/ /\ nodes[n] # NoNode /\ nodes'[n] # NoNode
           /\ nodes'[n].role = nodes[n].role
           /\ nodes'[n].command = nodes[n].command
      Step == Poll => \A n \in Node : Kept(n)
  <1>1. IInv /\ [Next]_vars => [Step]_vars
    <2> SUFFICES ASSUME IInv, Poll
                 PROVE  \A n \in Node : Kept(n)
      OBVIOUS
    <2>1. TypeOK /\ NodesType /\ faults \in 0..MaxFaults
      BY TypeParts DEF IInv, OthersType
    <2>2. CASE UNCHANGED nodes
      BY <2>2
    <2>3. ASSUME NEW n \in Node, SaveResult(n)
          PROVE  \A m \in Node : Kept(m)
      <3>1. CASE \E status \in {"ready", "unreachable"}, join \in JoinStatus :
                    SaveClusterNodeStatus(n, status, join)
        BY <2>1, <3>1, StatusWrite
      <3>2. QED
        BY <2>1, <2>2, <2>3, <3>1, ResultWrites
    <2>4. QED
      BY <2>2, <2>3 DEF Poll, List, Visit
  <1>2. QED
    BY <1>1, Invariance, PTL DEF Spec, PollKeepsUserEdits

===============================================================================
