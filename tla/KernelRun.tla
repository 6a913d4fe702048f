-------------------------------- MODULE KernelRun --------------------------------
(***************************************************************************)
(* The simulation kernel of src/src/shell/kernel/run.ts, which drives every *)
(* broker engine: events are dispatched in virtual time, a reducer answers *)
(* each one with new events, and advanceTo, stepOnce and reset may be      *)
(* called in any order.                                                    *)
(*                                                                         *)
(* A reducer is what the kernel sees of it: a dispatch writes one journal  *)
(* line and schedules the events Spawns gives for its kind, each with the  *)
(* next value of state.seq.  The events of a script carry the numbers of   *)
(* seedEvents' own counter, which starts at 0 like state.seq, so that keys *)
(* (at, seq) are not unique.                                               *)
(***************************************************************************)
EXTENDS KernelClock, SequencesExt

CONSTANTS
  Inputs,      \* what a simulation is created for: topology, script, seed
  Script,      \* Script[input]: the scripted [at, kind], in order
  Spawns,      \* Spawns[kind]: the [delay, kind] its reducer schedules
  Invalid,     \* the inputs that validation rejects (options.fatal)
  Ceiling,     \* options.maxEvents
  MaxJournal,  \* MAX_JOURNAL
  MaxTime      \* bound on the targets of advanceTo

ASSUME ScriptAssumption == Script \in [Inputs -> Seq([at : Nat, kind : Kinds])]
ASSUME SpawnsAssumption == Spawns \in [Kinds -> Seq([delay : Nat, kind : Kinds])]
ASSUME InvalidAssumption == Invalid \subseteq Inputs
ASSUME KernelBoundsAssumption == {Ceiling, MaxJournal, MaxTime} \subseteq Nat

Simulation ==
  [ input     : Inputs,
    heap      : Seq(Event),
    now       : Nat,
    seq       : Nat,
    processed : Nat,
    halted    : BOOLEAN,
    journal   : Seq([at : Nat, kind : Kinds]) ]

SeedEvents(input) ==
  [i \in DOMAIN Script[input] |->
     [at |-> Script[input][i].at, seq |-> i - 1, kind |-> Script[input][i].kind]]

CreateKernel(input) ==
  [ input     |-> input,
    heap      |-> PushAll(<<>>, SeedEvents(input)),
    now       |-> 0,
    seq       |-> 0,
    processed |-> 0,
    halted    |-> FALSE,
    journal   |-> <<>> ]

-----------------------------------------------------------------------------
(* run *)

CapJournal(journal) ==
  IF Len(journal) <= MaxJournal THEN journal
  ELSE SubSeq(journal, Len(journal) - MaxJournal + 1, Len(journal))

\* The events a reducer returns for one of its kind.
NewEvents(sim, event) ==
  [i \in DOMAIN Spawns[event.kind] |->
     [at   |-> event.at + Spawns[event.kind][i].delay,
      seq  |-> sim.seq + i,
      kind |-> Spawns[event.kind][i].kind]]

\* One turn of the inner loop.  Once the ceiling is reached the rest of the
\* batch is dropped.
Dispatch(sim, event) ==
  IF sim.halted THEN sim
  ELSE IF sim.processed >= Ceiling THEN [sim EXCEPT !.halted = TRUE]
  ELSE [sim EXCEPT !.processed = @ + 1,
                   !.now       = event.at,
                   !.seq       = @ + Len(Spawns[event.kind]),
                   !.heap      = PushAll(@, NewEvents(sim, event)),
                   !.journal   = CapJournal(Append(@, [at |-> event.at, kind |-> event.kind]))]

\* Mutant: everything due by the target is taken at once.
BatchTimeAll(sim, upTo) == upTo

\* A batch is exactly the events of one virtual time.
BatchTime(sim, upTo) == sim.heap[1].at

DispatchBatch(sim, upTo) ==
  LET popped == PopDue(sim.heap, BatchTime(sim, upTo))
  IN FoldLeft(Dispatch, [sim EXCEPT !.heap = popped.rest], popped.due)

\* Nothing is left to dispatch by upTo.
Done(sim, upTo) == sim.halted \/ sim.heap = <<>> \/ sim.heap[1].at > upTo

\* Each turn dispatches an event, and the ceiling halts an endless run.
Run(sim, upTo) ==
  IF sim.input \in Invalid THEN sim
  ELSE Loop(LAMBDA s : Done(s, upTo), LAMBDA s : DispatchBatch(s, upTo),
            Ceiling + 1, Simulation, sim)

Later(a, b) == IF a < b THEN b ELSE a

AdvancedTo(sim, t) ==
  LET s == Run(sim, t)
  IN IF s.halted THEN s ELSE [s EXCEPT !.now = Later(@, t)]

\* The kernel's step takes the clock to the next event even when nothing may
\* be dispatched.
SteppedOnce(sim) ==
  IF sim.heap = <<>> THEN sim
  ELSE LET next == sim.heap[1].at
           s    == Run(sim, next)
       IN IF s.halted THEN s ELSE [s EXCEPT !.now = next]
=============================================================================
