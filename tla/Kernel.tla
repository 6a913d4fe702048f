--------------------------------- MODULE Kernel ---------------------------------
(***************************************************************************)
(* One simulation and the calls its owner makes of it, in any order:       *)
(* advanceTo, stepOnce and reset of src/src/shell/kernel/run.ts.           *)
(***************************************************************************)
EXTENDS KernelRun

VARIABLES
  simulation,
  reached      \* history: how far it was taken, -1 when nothing was called yet

kernelVars == <<simulation, reached>>

KernelInit ==
  /\ \E input \in Inputs : simulation = CreateKernel(input)
  /\ reached = -1

AdvanceTo(t) ==
  /\ simulation' = AdvancedTo(simulation, t)
  /\ reached' = Later(reached, t)

StepOnce ==
  /\ simulation' = SteppedOnce(simulation)
  /\ reached' = IF simulation.heap = <<>> THEN reached
                ELSE Later(reached, simulation.heap[1].at)

Reset ==
  /\ simulation' = CreateKernel(simulation.input)
  /\ reached' = -1

KernelNext ==
  \/ \E t \in 0 .. MaxTime : AdvanceTo(t)
  \/ StepOnce
  \/ Reset

KernelSpec == KernelInit /\ [][KernelNext]_kernelVars

-----------------------------------------------------------------------------
(* Properties *)

\* All that a simulation holds except its clock.
Contents(sim) == [sim EXCEPT !.now = 0]

\* Rewind is replay: however the calls sliced time, the simulation holds what
\* a fresh one holds after a single advanceTo to the same point.
SlicingDoesNotMatter ==
  Contents(simulation) = Contents(Run(CreateKernel(simulation.input), reached))

\* The journal tells events in the order of virtual time, and nothing that is
\* due stays behind: run.ts drains one timestamp at a time so that events
\* generated on the way are not "stranded".  Until the ceiling is hit, each
\* scheduled event is either dispatched or still pending, once; and nothing is
\* dispatched past the ceiling.
EachEventOnceInOrder ==
  LET j == simulation.journal
  IN /\ simulation.processed <= Ceiling
     /\ \A m, n \in DOMAIN j : m < n => j[m].at <= j[n].at
     /\ simulation.halted \/ simulation.input \in Invalid
        \/ \A i \in DOMAIN simulation.heap : simulation.heap[i].at > reached
     /\ ~simulation.halted =>
          simulation.processed + Len(simulation.heap)
            = Len(Script[simulation.input]) + simulation.seq
=============================================================================
