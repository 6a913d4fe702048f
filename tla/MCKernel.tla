-------------------------------- MODULE MCKernel --------------------------------
(* Instances of Kernel.  An input is its own script: every list of up to three *)
(* lines.  "work" fans out, also into its own instant; "spin" loops within one *)
(* instant for ever; "tick" reschedules itself for ever.                       *)
(*                                                                             *)
(* And what comes before a run: the drafts of Sandboxes, which share nothing   *)
(* with the kernel.  A behaviour is about one of the two.                      *)
EXTENDS Kernel, Sandboxes, TLC

CONSTANTS MaxLines, MaxAt

FourKinds == {"work", "done", "spin", "tick"}

Lines == [at : 0 .. MaxAt, kind : FourKinds]

Scripts == UNION {[1 .. n -> Lines] : n \in 0 .. MaxLines}

OwnScript == [s \in Scripts |-> s]

\* What validation rejects does not matter here, only that nothing of it runs.
Rejected == {s \in Scripts : Len(s) > 1 /\ s[1] = [at |-> MaxAt, kind |-> "tick"]}

After(delay, kind) == [delay |-> delay, kind |-> kind]

FourSpawns ==
  "work" :> <<After(1, "done"), After(0, "done"), After(2, "done")>> @@
  "done" :> <<>> @@
  "spin" :> <<After(0, "spin")>> @@
  "tick" :> <<After(1, "tick"), After(1, "done")>>

KernelOrSandboxInit ==
  \/ KernelInit /\ broker = "none" /\ saved = Nothing /\ EmptySandboxes
  \/ SandboxInit /\ simulation = CreateKernel(<<>>) /\ reached = -1

KernelOrSandboxNext ==
  \/ broker = "none" /\ KernelNext /\ UNCHANGED sandboxVars
  \/ broker # "none" /\ SandboxNext /\ UNCHANGED kernelVars

KernelOrSandboxSpec ==
  KernelOrSandboxInit /\ [][KernelOrSandboxNext]_<<kernelVars, sandboxVars>>
===============================================================================
