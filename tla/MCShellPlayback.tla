---------------------------- MODULE MCShellPlayback ----------------------------
(* Instances of ShellPlayback: a lesson and two sandbox drafts of one broker, *)
(* and a lesson of another.  A draft that loops in one instant and the lesson *)
(* that ticks for ever are halted at the ceiling.                             *)
EXTENDS ShellPlayback, TLC

Line(at, kind) == [at |-> at, kind |-> kind]
After(delay, kind) == [delay |-> delay, kind |-> kind]

FourInputs == {"lesson", "draft1", "draft2", "other"}
TwoDrafts == {"draft1", "draft2"}
Types == {"work", "done", "spin", "tick"}

TypesSpawned ==
  "work" :> <<After(1, "done")>> @@ "done" :> <<>> @@
  "spin" :> <<After(0, "spin")>> @@ "tick" :> <<After(1, "tick")>>

FourScripts ==
  "lesson" :> <<Line(0, "work"), Line(2, "done")>> @@
  "draft1" :> <<Line(1, "done"), Line(2, "spin")>> @@
  "draft2" :> <<Line(2, "work")>> @@
  "other"  :> <<Line(1, "done"), Line(1, "tick")>>

TwoBrokers == [i \in FourInputs |-> IF i = "other" THEN "redis" ELSE "rabbitmq"]
=============================================================================
