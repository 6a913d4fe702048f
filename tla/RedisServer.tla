-------------------------------- MODULE RedisServer --------------------------------
(***************************************************************************)
(* The Redis server under the simulation kernel: commands travel, are      *)
(* handled, park on BLPOP and are woken; the active expire cycle,          *)
(* snapshots, crashes, restarts, replication and failover.  These are the  *)
(* reducers of src/src/brokers/redis/engine/index.ts.                      *)
(*                                                                         *)
(* The scheduler is the kernel's own heap (KernelClock), so that events of *)
(* one instant fire in the order of the code, ties of their sequence       *)
(* numbers included.  A slot of the script leaves the choice of its        *)
(* command open until it fires; nothing looks at a command before that.    *)
(* Flights, which only draw, are left out.                                 *)
(***************************************************************************)
EXTENDS RedisScripting

CONSTANTS
  Keys,            \* the names of keys
  Replicas,        \* the replicas a topology may have
  ServerId,        \* topology.server.id
  TravelMs,        \* COMMAND_TRAVEL_MS
  Inputs           \* the topologies and scripts that are simulated

Command == [clientId : Clients, name : STRING, args : Seq(STRING)]

\* What createRedisSimulation is called with: a topology, a script with
\* alternatives, faults, and how far the run is taken.
Input ==
  [ script              : Seq([at : Nat, choices : SUBSET Command]),
    maxmemoryBytes      : Nat \cup {Unlimited},
    evictionPolicy      : Policies,       \* "noeviction" when absent
    activeExpireEveryMs : Nat \ {0},      \* the default when absent
    snapshotEveryMs     : Nat,            \* snapshotIntervalMs, 0 for undefined
    aofAlways           : BOOLEAN,        \* persistence.aof = 'always'
    replicas            : Seq(Replicas),
    lagMs               : [Replicas -> Nat],
    failures            : Seq([at : Nat, kind : {"crash", "restart", "sentinelFailover"},
                               target : Replicas \cup {ServerId}]),
    draws               : Seq(Nat),       \* what the seed makes the generator draw
    durationMs          : Nat ]           \* bound: no later event fires

ASSUME InputsAssumption == \A input \in Inputs : input \in Input

Issued == [clientId : Clients, name : STRING, args : Seq(STRING), commandId : Nat]

\* The events, each with its payload.
Happening ==
  [type : {"command"}, commandId : Nat]
    \cup [type : {"reply"}, command : Issued]
    \cup [type : {"activeExpire", "unblock", "snapshotWrite"}]
    \cup [type : {"crash", "restart", "sentinelFailover"}, target : Replicas \cup {ServerId}]
    \cup [type : {"replicate"}, replicaId : Replicas, writeCounter : Nat]

Clock == INSTANCE KernelClock WITH Kinds <- Happening

VARIABLES
  input,     \* the topology and script simulated; never changed
  state,     \* RedisState, and seq
  server,    \* the rest of it: lastSnapshot, replicaState, primaryId, primaryDown
  heap,      \* the scheduler
  batch,     \* the events of the current instant that are still to fire
  answers,   \* history: the replies journaled for each command
  changed    \* history: the keys each client watches that changed since it did

vars == <<input, state, server, heap, batch, answers, changed>>

CommandIds == DOMAIN input.script

-----------------------------------------------------------------------------
(* createState and seedEvents *)

CreateState(in) ==
  [ now          |-> 0,
    seq          |-> 0,
    rng          |-> in.draws,
    server       |-> [maxmemoryBytes |-> in.maxmemoryBytes, evictionPolicy |-> in.evictionPolicy],
    keys         |-> <<>>,
    keyOrder     |-> <<>>,
    metrics      |-> [commands |-> 0, hits |-> 0, misses |-> 0, expired |-> 0, evicted |-> 0,
                      keysCount |-> 0, memoryUsed |-> 0],
    blocked      |-> <<>>,
    keyVersions  |-> <<>>,
    txQueues     |-> <<>>,
    watched      |-> [c \in Clients |-> NothingWatched],
    writeCounter |-> 0 ]

NoSnapshot == [keys |-> <<>>, keyOrder |-> <<>>, keyVersions |-> <<>>,
               writeCounter |-> 0]

CreateServer(in) ==
  [ lastSnapshot |-> NoSnapshot,
    applied      |-> [r \in Range(in.replicas) |-> 0],
    primaryId    |-> ServerId,
    primaryDown  |-> FALSE ]

SeedEvents(in) ==
  LET commands == [i \in DOMAIN in.script |->
                     [at |-> in.script[i].at, kind |-> [type |-> "command", commandId |-> i]]]
      cycle    == <<[at |-> in.activeExpireEveryMs, kind |-> [type |-> "activeExpire"]]>>
      faults   == [i \in DOMAIN in.failures |->
                     [at |-> in.failures[i].at,
                      kind |-> [type |-> in.failures[i].kind, target |-> in.failures[i].target]]]
      snapshot == IF in.snapshotEveryMs = 0 THEN <<>>
                  ELSE <<[at |-> in.snapshotEveryMs, kind |-> [type |-> "snapshotWrite"]]>>
      seeds    == commands \o cycle \o faults \o snapshot
  IN [i \in DOMAIN seeds |-> [at |-> seeds[i].at, seq |-> i - 1, kind |-> seeds[i].kind]]

-----------------------------------------------------------------------------
(* The kernel: the next batch is taken when the last is done *)

Refilled(rest, scheduler) ==
  IF rest # <<>> \/ scheduler = <<>> THEN [batch |-> rest, heap |-> scheduler]
  ELSE LET popped == Clock!PopDue(scheduler, scheduler[1].at)
       IN [batch |-> popped.due, heap |-> popped.rest]

Event == Head(batch)

Running == batch # <<>> /\ Event.at <= input.durationMs

\* An event of a type fires: its reducer leaves `new` and schedules kinds
\* after delays.
Fires(type) == Running /\ Event.kind.type = type

Current == [state EXCEPT !.now = Event.at]

Reduces(new, newEvents) ==
  LET numbered == [i \in DOMAIN newEvents |->
                     [at |-> new.now + newEvents[i].delay, seq |-> new.seq + i,
                      kind |-> newEvents[i].kind]]
      next     == Refilled(Tail(batch), Clock!PushAll(heap, numbered))
  IN /\ state' = [new EXCEPT !.seq = @ + Len(newEvents)]
     /\ heap' = next.heap
     /\ batch' = next.batch

\* Two records of a key's value and deadline differ.
SameRecord(a, b) ==
  a.value.type = b.value.type /\ a.value.value = b.value.value /\ a.expiresAt = b.expiresAt
Differs(key, before, after) ==
  \/ Found(before, key) # Found(after, key)
  \/ Found(before, key) /\ Found(after, key) /\ ~SameRecord(before.keys[key], after.keys[key])

\* The history of watched keys after a step; `fresh` are watched just now.
Records(client, fresh) ==
  changed' = [c \in Clients |->
                {k \in DOMAIN state'.watched[c] :
                   /\ k \in changed[c] \/ Differs(k, state, state')
                   /\ ~(c = client /\ k \in fresh)}]

NobodyWatches == Records(CHOOSE c \in Clients : TRUE, {})

-----------------------------------------------------------------------------
(* The reducers *)

\* applyCommand: the script's command, whichever it is, sets out.
ApplyCommand ==
  /\ Fires("command")
  /\ \E command \in input.script[Event.kind.commandId].choices :
       Reduces(Current, <<[delay |-> TravelMs,
                      kind |-> [type    |-> "reply",
                                command |-> [clientId |-> command.clientId, name |-> command.name,
                                             args |-> command.args,
                                             commandId |-> Event.kind.commandId]]]>>)
  /\ NobodyWatches
  /\ UNCHANGED <<input, server, answers>>

Answered(commandId, reply) == answers' = [answers EXCEPT ![commandId] = Append(@, reply)]

\* scheduleReplication: one event for each replica, after every command.
ScheduleReplication(new) ==
  [i \in DOMAIN input.replicas |->
     [delay |-> input.lagMs[input.replicas[i]],
      kind  |-> [type |-> "replicate", replicaId |-> input.replicas[i],
                 writeCounter |-> new.writeCounter]]]

IsPush(command) == command.name \in {"LPUSH", "RPUSH"}

\* Mutant: only the client that has waited longest is looked at.
HasWaiterFirst(new, command) ==
  /\ IsPush(command)
  /\ new.blocked # <<>>
  /\ command.args[1] \in Range(Head(new.blocked).keys)

HasWaiter(new, command) ==
  IsPush(command) /\ \E i \in DOMAIN new.blocked : command.args[1] \in Range(new.blocked[i].keys)

\* What follows a handled command.  A parked client that gave a timeout is
\* woken then at the latest; a push on a key that somebody waits for wakes
\* the waiters at this very time.
Replies(command, handled) ==
  LET new     == [handled.state EXCEPT !.metrics.commands = @ + 1]
      timeout == Last(new.blocked).timeoutAt
      wake    == [delay |-> 0, kind |-> [type |-> "unblock"]]
  IN IF handled.parked
     THEN /\ Reduces(new, IF timeout = NoExpiry THEN <<>>
                          ELSE <<[wake EXCEPT !.delay = timeout - new.now]>>)
          /\ UNCHANGED answers
     ELSE /\ Reduces(new, ScheduleReplication(new)
                            \o (IF HasWaiter(new, command) THEN <<wake>> ELSE <<>>))
          /\ Answered(command.commandId, handled.reply)

\* applyReply: the command reaches the server and is queued or handled.
ApplyReply ==
  /\ Fires("reply")
  /\ LET command == Event.kind.command
         context == [state |-> Current, clientId |-> command.clientId, args |-> command.args,
                     commandId |-> command.commandId]
         queued  == /\ IsInTransaction(state, command.clientId)
                    /\ command.name \notin {"MULTI", "EXEC", "DISCARD", "WATCH"}
     IN /\ Replies(command,
                   IF queued
                   THEN Done(QueueCommand(Current, command.clientId, command.name, command.args),
                             Status("QUEUED"))
                   ELSE HandleCommand(command.name, context))
        /\ Records(command.clientId,
                   IF command.name = "WATCH" /\ ~IsInTransaction(state, command.clientId)
                   THEN Range(command.args) ELSE {})
  /\ UNCHANGED <<input, server>>

\* A key that wakes an entry: one that holds a list, dead or alive.
Wakes(s, key) == Found(s, key) /\ s.keys[key].value.type = "list"

Wakeable(s) ==
  {i \in DOMAIN s.blocked : \E k \in Range(s.blocked[i].keys) : Wakes(s, k)}

\* Mutant: the client that has waited least is woken first.
YoungestWakeable(s) == Max(Wakeable(s))

\* nextWakeable: the oldest client one of whose keys holds an element.
NextWakeable(s) == Min(Wakeable(s))

\* Mutant: the entry that leaves is the oldest one, whoever was woken.
UnparkedFirst(blocked, i) == Tail(blocked)

Unparked(blocked, i) == RemoveAt(blocked, i)

\* The entry leaves with what it popped.
Leaves(result, entry, key, popped) ==
  LET value == IF popped.reply.kind = "bulk" THEN popped.reply.value ELSE ""
  IN [ state   |-> [popped.state EXCEPT !.blocked = Unparked(@, NextWakeable(result.state))],
       answers |-> [result.answers EXCEPT ![entry.commandId] = Append(@, Array(<<key, value>>))] ]

\* The entry that wakes pops from the first of its keys that holds a list.
WakeOne(result) ==
  LET s     == result.state
      entry == s.blocked[NextWakeable(s)]
      key   == entry.keys[Min({i \in DOMAIN entry.keys : Wakes(s, entry.keys[i])})]
  IN Leaves(result, entry, key,
            LPOP([state |-> s, clientId |-> entry.clientId, args |-> <<key>>,
                  commandId |-> entry.commandId]))

\* Everyone whose time is up goes with nil.
Unblocks(woken) ==
  LET isOver(entry) == entry.timeoutAt # NoExpiry /\ entry.timeoutAt <= Event.at
      over == {woken.state.blocked[i].commandId :
                 i \in {j \in DOMAIN woken.state.blocked : isOver(woken.state.blocked[j])}}
  IN /\ Reduces([woken.state EXCEPT !.blocked = SelectSeq(@, LAMBDA e : ~isOver(e))], <<>>)
     /\ answers' = [id \in CommandIds |->
                      IF id \in over THEN Append(woken.answers[id], Nil) ELSE woken.answers[id]]

\* applyUnblock: everyone that can be woken, then everyone whose time is up.
ApplyUnblock ==
  /\ Fires("unblock")
  /\ Unblocks(FoldLeft(LAMBDA r, i : IF Wakeable(r.state) = {} THEN r ELSE WakeOne(r),
                       [state |-> Current, answers |-> answers], state.blocked))
  /\ NobodyWatches
  /\ UNCHANGED <<input, server>>

\* applyActiveExpire: a pass, and the next one after the interval.
ApplyActiveExpire ==
  /\ Fires("activeExpire")
  /\ Reduces(ActiveExpirePass(Current),
             <<[delay |-> input.activeExpireEveryMs, kind |-> [type |-> "activeExpire"]]>>)
  /\ NobodyWatches
  /\ UNCHANGED <<input, server, answers>>

Snapshot(s) ==
  [keys |-> s.keys, keyOrder |-> s.keyOrder, keyVersions |-> s.keyVersions,
   writeCounter |-> s.writeCounter]

\* applySnapshotWrite; the interval is defined, or it would not fire.
ApplySnapshotWrite ==
  /\ Fires("snapshotWrite")
  /\ server' = [server EXCEPT !.lastSnapshot = Snapshot(state)]
  /\ Reduces(Current, <<[delay |-> input.snapshotEveryMs, kind |-> [type |-> "snapshotWrite"]]>>)
  /\ NobodyWatches
  /\ UNCHANGED <<input, answers>>

\* applyCrash: what is not persisted is lost, and the server is down.
\* Replicas lose what they had beyond it.
ApplyCrash ==
  /\ Fires("crash")
  /\ LET restored == IF input.aofAlways THEN Snapshot(state) ELSE server.lastSnapshot
         metrics  == RecomputeMemoryMetrics(restored.keys)
     IN IF Event.kind.target # ServerId
        THEN Reduces(Current, <<>>) /\ UNCHANGED server
        ELSE /\ Reduces([Current EXCEPT !.keys         = restored.keys,
                                   !.keyOrder     = restored.keyOrder,
                                   !.keyVersions  = restored.keyVersions,
                                   !.writeCounter = restored.writeCounter,
                                   !.metrics      = metrics @@ @], <<>>)
             /\ server' = [server EXCEPT !.primaryDown = TRUE,
                                         !.applied = [r \in DOMAIN @ |->
                                                        Min({@[r], restored.writeCounter})]]
  /\ NobodyWatches
  /\ UNCHANGED <<input, answers>>

ApplyRestart ==
  /\ Fires("restart")
  /\ server' = [server EXCEPT !.primaryDown = @ /\ Event.kind.target # ServerId]
  /\ Reduces(Current, <<>>)
  /\ NobodyWatches
  /\ UNCHANGED <<input, answers>>

\* applyReplicate: counters arrive in any order; a later one has it all.
ApplyReplicate ==
  /\ Fires("replicate")
  /\ server' = [server EXCEPT !.applied[Event.kind.replicaId] =
                  Max({@, Event.kind.writeCounter})]
  /\ Reduces(Current, <<>>)
  /\ NobodyWatches
  /\ UNCHANGED <<input, answers>>

ApplySentinelFailover ==
  /\ Fires("sentinelFailover")
  /\ server' = [server EXCEPT !.primaryId = Event.kind.target]
  /\ Reduces(Current, <<>>)
  /\ NobodyWatches
  /\ UNCHANGED <<input, answers>>

Init ==
  /\ input \in Inputs
  /\ state = CreateState(input)
  /\ server = CreateServer(input)
  /\ LET first == Refilled(<<>>, Clock!PushAll(<<>>, SeedEvents(input)))
     IN heap = first.heap /\ batch = first.batch
  /\ answers = [id \in DOMAIN input.script |-> <<>>]
  /\ changed = [c \in Clients |-> {}]

Next ==
  \/ ApplyCommand \/ ApplyReply \/ ApplyUnblock \/ ApplyActiveExpire \/ ApplySnapshotWrite
  \/ ApplyCrash \/ ApplyRestart \/ ApplyReplicate \/ ApplySentinelFailover

Spec == Init /\ [][Next]_vars

-----------------------------------------------------------------------------
(* Properties *)

\* The events that are still to fire.
Pending == Range(batch) \cup Range(heap)

\* Whatever is written, evicted, expired or restored, keyOrder lists every
\* key once, and the count and the bytes that eviction goes by are those of
\* the keys that are there.
BooksBalance ==
  /\ IsInjective(state.keyOrder)
  /\ Range(state.keyOrder) = DOMAIN state.keys
  /\ [ keysCount  |-> state.metrics.keysCount,
       memoryUsed |-> state.metrics.memoryUsed ] = RecomputeMemoryMetrics(state.keys)

\* A client parked on BLPOP is never left alone: while one of its keys holds
\* a list, a wake-up is due at this very time, and one is due at its deadline.
\* (Pushes of EXEC and EVAL, which wake nobody, are not in these scripts.)
SleepersAreWatched ==
  \A entry \in Range(state.blocked) :
    /\ (\E k \in Range(entry.keys) : Wakes(state, k)) =>
          \E e \in Pending : e.kind.type = "unblock" /\ e.at = state.now
    /\ entry.timeoutAt # NoExpiry =>
          \E e \in Pending : e.kind.type = "unblock" /\ e.at = entry.timeoutAt

\* A command is on its way, parked or answered: one of them, and once.
EachCommandOnce ==
  \A id \in CommandIds :
    Cardinality({e \in Pending : e.kind.type = "command" /\ e.kind.commandId = id})
      + Cardinality({e \in Pending : e.kind.type = "reply" /\ e.kind.command.commandId = id})
      + Cardinality({i \in DOMAIN state.blocked : state.blocked[i].commandId = id})
      + Len(answers[id]) = 1

\* EXEC goes by versions, but what counts is the data: a watched key whose
\* value or deadline changed since WATCH, by a write, an eviction, an expiry
\* or a deletion, and be it back to what it was, has another version.
WatchSeesEveryChange ==
  \A c \in Clients, k \in Keys :
    k \in changed[c] => Version(state, k) # state.watched[c][k]

\* Of two clients that wait for the same keys, the one that parked first is
\* answered first, be it with an element or at its deadline.
WaitersInTurn ==
  [][\A i, j \in DOMAIN state.blocked :
       /\ i < j
       /\ Range(state.blocked[i].keys) = Range(state.blocked[j].keys)
       /\ Len(answers'[state.blocked[j].commandId]) > 0
       /\ answers'[state.blocked[j].commandId][1] # Nil
       => Len(answers'[state.blocked[i].commandId]) > 0]_vars

\* No step makes the data grow past the budget: eviction frees enough, or the
\* write is refused.  (A crash may bring back more than the budget allows.)
GrowthWithinBudget ==
  [][\/ Event.kind.type = "crash"
     \/ state'.metrics.memoryUsed <= state.metrics.memoryUsed
     \/ state'.server.maxmemoryBytes = Unlimited
     \/ state'.metrics.memoryUsed <= state'.server.maxmemoryBytes]_vars

\* A dead key outlives its deadline by one cycle at most, as long as a pass
\* looks at the whole keyspace.  (No crash brings old deadlines back here.)
DeadKeysGoWithinACycle ==
  input.failures = <<>> /\ Len(state.keyOrder) <= ActiveExpireSample =>
    \A k \in DOMAIN state.keys :
      state.keys[k].expiresAt # NoExpiry =>
        state.now <= state.keys[k].expiresAt + input.activeExpireEveryMs

\* index.ts:474, of the restored write counter: a replica cannot be ahead of
\* its primary.
ReplicaNeverAhead ==
  \A r \in DOMAIN server.applied : server.applied[r] <= state.writeCounter
=============================================================================
