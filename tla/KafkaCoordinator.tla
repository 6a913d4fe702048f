---------------------------- MODULE KafkaCoordinator ----------------------------
(***************************************************************************)
(* The group coordinator, src/src/brokers/kafka/engine/group/coordinator.ts, *)
(* and commitOffsets of offsets.ts: pure functions of a GroupState, each   *)
(* giving the next GroupState and the events it schedules.                 *)
(*                                                                         *)
(* Times are ages in clock ticks that saturate just above the timeout they *)
(* are compared with.  A group that state.groups does not hold yet is an   *)
(* Empty one of generation 0.  The timeouts are the same for every member, *)
(* as in all lessons.                                                      *)
(***************************************************************************)
EXTENDS KafkaAssignors

CONSTANTS
  None,              \* null and undefined
  SessionTimeout,    \* sessionTimeoutMs
  MaxPollInterval,   \* maxPollIntervalMs
  RebalanceTimeout   \* rebalanceTimeoutMs: how long a joiner's round is open

ASSUME NoneAssumption == None \notin Consumers /\ None \notin Nat
ASSUME TimeoutsAssumption ==
  /\ SessionTimeout \in Nat
  /\ MaxPollInterval \in Nat
  /\ RebalanceTimeout \in Nat

NoGroup(assignor) ==
  [ state            |-> "Empty",
    generationId     |-> 0,
    leaderMemberId   |-> None,
    assignor         |-> assignor,
    members          |-> <<>>,
    committedOffsets |-> [p \in TopicPartitions |-> None] ]

MemberIds(group) == DOMAIN group.members

Owned(group) == [m \in MemberIds(group) |-> group.members[m].assignment]

\* sortedMemberIds(group)[0], or null.
FirstMember(ids) ==
  LET present == Among(ConsumerOrder, ids)
  IN IF present = <<>> THEN None ELSE present[1]

\* An event of the queue: due after delay ticks.
Event(type, delay, consumer, generation) ==
  [type |-> type, delay |-> delay, consumer |-> consumer, generation |-> generation]

Result(group, events) == [group |-> group, events |-> events]

WithAssignment(members, assignment) ==
  [m \in DOMAIN members |-> [members[m] EXCEPT !.assignment = assignment[m]]]

Eager(assignor) == assignor # "cooperative-sticky"

ClearAssignmentsIfEager(members, assignor) ==
  IF Eager(assignor)
  THEN WithAssignment(members, [m \in DOMAIN members |-> {}])
  ELSE members

-----------------------------------------------------------------------------

\* A mutant: a round that is opened in another one keeps its generation.
OpenRoundInPlace(group, members, leader, timeout) ==
  Result([group EXCEPT !.state = "PreparingRebalance",
                       !.leaderMemberId = leader,
                       !.members = ClearAssignmentsIfEager(members, group.assignor)],
         <<Event("rebalance-complete", timeout, None, group.generationId)>>)

\* A new round: a new generation, whose window closes after timeout ticks.
OpenRound(group, members, leader, timeout) ==
  LET generation == group.generationId + 1
  IN Result([group EXCEPT !.state = "PreparingRebalance",
                          !.generationId = generation,
                          !.leaderMemberId = leader,
                          !.members = ClearAssignmentsIfEager(members, group.assignor)],
            <<Event("rebalance-complete", timeout, None, generation)>>)

\* The last member is gone; the generation and the offsets stay.
Emptied(group) ==
  [group EXCEPT !.state = "Empty", !.members = <<>>, !.leaderMemberId = None]

\* A joiner enters the round that is under way, or opens one.
JoinGroup(group, c) ==
  LET newcomer == [assignment |-> {}, heartbeatAge |-> 0, pollAge |-> 0]
      members == [m \in MemberIds(group) \cup {c} |->
                    IF m = c THEN newcomer ELSE group.members[m]]
      leader == IF group.generationId = 0 THEN c ELSE group.leaderMemberId
  IN IF group.state \in {"Stable", "Empty"}
     THEN OpenRound(group, members, leader, RebalanceTimeout)
     ELSE Result([group EXCEPT !.members = members], <<>>)

\* A voluntary leave opens a round at once, whatever the state; its window is
\* inferred from maxPollIntervalMs.
LeaveGroup(group, c) ==
  LET remaining == Restrict(group.members, MemberIds(group) \ {c})
  IN CASE c \notin MemberIds(group) -> Result(group, <<>>)
       [] MemberIds(group) = {c} -> Result(Emptied(group), <<>>)
       [] OTHER -> OpenRound(group, remaining, FirstMember(DOMAIN remaining), MaxPollInterval)

\* A mutant: the new owners do not wait for the old ones.
HandOutAtOnce(group, target) == [m \in MemberIds(group) |-> Owned(group)[m] \cup target[m]]

\* An eager round gives the target; a cooperative one only takes away what
\* changes hands.
HandOut(group, target) ==
  IF Eager(group.assignor)
  THEN target
  ELSE [m \in MemberIds(group) |-> Owned(group)[m] \ RevocationsFor(Owned(group), target)[m]]

\* The event of an older generation, or of a round that is over, is ignored.
CompleteRebalance(group, generation) ==
  IF group.state # "PreparingRebalance" \/ group.generationId # generation
  THEN Result(group, <<>>)
  ELSE Result([group EXCEPT !.state = "CompletingRebalance",
                            !.leaderMemberId = FirstMember(MemberIds(group)),
                            !.members = WithAssignment(@, HandOut(group, Assign(group.assignor, Owned(group))))],
              <<Event("sync-group", 0, None, generation)>>)

\* A cooperative round is dealt again over what was left after the revocation.
SyncGroup(group, generation) ==
  IF group.state # "CompletingRebalance" \/ group.generationId # generation
  THEN group
  ELSE IF Eager(group.assignor)
       THEN [group EXCEPT !.state = "Stable"]
       ELSE [group EXCEPT !.state = "Stable",
                          !.generationId = @ + 1,
                          !.members = WithAssignment(@, Assign(group.assignor, Owned(group)))]

\* ILLEGAL_GENERATION, and a heartbeat of somebody else, change nothing.
Heartbeat(group, c, generation) ==
  IF c \in MemberIds(group) /\ generation = group.generationId
  THEN [group EXCEPT !.members[c].heartbeatAge = 0]
  ELSE group

Stale(group) ==
  {m \in MemberIds(group) : \/ group.members[m].heartbeatAge > SessionTimeout
                            \/ group.members[m].pollAge > MaxPollInterval}

\* Stale members are removed; only a Stable group opens a round for it.
CheckTimeouts(group) ==
  LET stale == Stale(group)
      remaining == Restrict(group.members, MemberIds(group) \ stale)
  IN CASE stale = {} -> Result(group, <<>>)
       [] stale # {} /\ remaining = <<>> -> Result(Emptied(group), <<>>)
       [] stale # {} /\ remaining # <<>> /\ group.state # "Stable" ->
            Result([group EXCEPT !.members = remaining], <<>>)
       [] OTHER -> OpenRound(group, remaining, FirstMember(DOMAIN remaining), MaxPollInterval)

-----------------------------------------------------------------------------

\* commitOffsets (offsets.ts), from a member and for what it is assigned now:
\* the filter is that of applyCommit.
CommitOffsets(group, c, position) ==
  LET written == {p \in group.members[c].assignment : position[p] # None}
  IN IF c \notin MemberIds(group)
     THEN group
     ELSE [group EXCEPT !.committedOffsets =
             [p \in TopicPartitions |-> IF p \in written THEN position[p] ELSE @[p]]]
=============================================================================
