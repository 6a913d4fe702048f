------------------------------ MODULE ShellPlayback ------------------------------
(***************************************************************************)
(* Playback: the store of src/src/shell/store.ts and the hook of           *)
(* src/src/shell/useSimulation.ts that keeps one kernel simulation in step *)
(* with it.  The user's clicks change the store; React then renders the    *)
(* hook with the store's values and, after that, runs its three effects    *)
(* when what they depend on has changed; an animation frame advances the   *)
(* simulation and the store's clock while playing.                         *)
(*                                                                         *)
(* An input is a lesson or one state of a broker's sandbox draft.  React   *)
(* is external: updates that come from the store are rendered and their    *)
(* effects run before the next event of the browser, unless deferred       *)
(* opens the window in which other clicks and frames come first, which the *)
(* hook's own comments guard against.  Selection, panes, theme and quiz    *)
(* scores in the store touch none of this and are left out.                *)
(***************************************************************************)
EXTENDS KernelRun

CONSTANTS
  BrokerOf,    \* BrokerOf[input]: the broker module it belongs to
  Sandboxes,   \* the inputs that are sandbox drafts: open-ended
  Duration,    \* durationMs of the lessons
  Deltas,      \* what one frame adds to the virtual time
  MaxClicks    \* bound on the user's actions

ASSUME BrokerAssumption == Sandboxes \subseteq Inputs /\ DOMAIN BrokerOf = Inputs
ASSUME PlaybackAssumption ==
  /\ {Duration, MaxClicks} \subseteq Nat
  /\ Deltas \subseteq Nat \ {0}

VARIABLES
  deferred,   \* other events may come between a click and its effects; fixed
  store,      \* AppState: input, playing, virtualTime, replayToken
  rendered,   \* the store's values in the latest render
  effected,   \* the same, in the latest render whose effects have run
  simRef,     \* the simulation the hook holds
  view,       \* the view state: a snapshot and the broker it was made by
  looping,    \* the animation frame loop: scheduled and not stopped
  clicks      \* user actions so far

playbackVars == <<deferred, store, rendered, effected, simRef, view, looping, clicks>>

ViewOf(s, broker) == [broker |-> broker, state |-> s]

\* The first render has been committed and its effects have run.
PlaybackInit ==
  \E input \in Inputs :
    /\ deferred \in BOOLEAN
    /\ store = [input |-> input, playing |-> FALSE, virtualTime |-> 0, replayToken |-> 0]
    /\ rendered = store
    /\ effected = store
    /\ simRef = AdvancedTo(CreateKernel(input), 0)
    /\ view = ViewOf(simRef, BrokerOf[input])
    /\ looping = FALSE
    /\ clicks = 0

Settled == store = rendered /\ rendered = effected

\* Whether anything but React may go on.
Free == deferred \/ Settled

-----------------------------------------------------------------------------
(* store.ts: the user's actions on the store. *)

Click ==
  /\ Free
  /\ clicks < MaxClicks
  /\ clicks' = clicks + 1

OnlyStore == UNCHANGED <<deferred, rendered, effected, simRef, view, looping>>

\* setBroker, setLesson and openSandbox: another input, from zero.
Open(input) ==
  /\ Click
  /\ store' = [input |-> input, playing |-> FALSE, virtualTime |-> 0,
               replayToken |-> store.replayToken + 1]
  /\ OnlyStore

\* Every edit of the sandbox makes a new draft; the clock stays.
EditSandbox(draft) ==
  /\ Click
  /\ {store.input, draft} \subseteq Sandboxes
  /\ BrokerOf[draft] = BrokerOf[store.input]
  /\ store' = [store EXCEPT !.input = draft]
  /\ OnlyStore

Play ==
  /\ Click
  /\ store' = [store EXCEPT !.playing = TRUE]
  /\ OnlyStore

Pause ==
  /\ Click
  /\ store' = [store EXCEPT !.playing = FALSE]
  /\ OnlyStore

\* Mutant: seeking never asks for a replay.
TokenAfterSeekNever(t) == store.replayToken

\* Only going back asks for a replay.
TokenAfterSeek(t) ==
  IF t < store.virtualTime THEN store.replayToken + 1 ELSE store.replayToken

Seek(t) ==
  /\ Click
  /\ store' = [store EXCEPT !.virtualTime = t, !.replayToken = TokenAfterSeek(t)]
  /\ OnlyStore

\* Mutant: the guard against a step between a broker switch and its rebuild is
\* missing.
MayStepAlways == TRUE

MayStep == view.broker = BrokerOf[rendered.input]

\* The step button: pause(), then stepOnce() of the latest render.
StepClick ==
  /\ Click
  /\ IF MayStep
     THEN /\ simRef' = SteppedOnce(simRef)
          /\ store' = [store EXCEPT !.playing = FALSE, !.virtualTime = simRef'.now]
          /\ view' = ViewOf(simRef', BrokerOf[rendered.input])
     ELSE /\ store' = [store EXCEPT !.playing = FALSE]
          /\ UNCHANGED <<simRef, view>>
  /\ UNCHANGED <<deferred, rendered, effected, looping>>

-----------------------------------------------------------------------------
(* React: a render, then the effects of the render that were due. *)

Render ==
  /\ rendered # store
  /\ rendered' = store
  /\ UNCHANGED <<deferred, store, effected, simRef, view, looping, clicks>>

RebuildDue ==
  \/ rendered.input # effected.input
  \/ rendered.replayToken # effected.replayToken

SeekDue ==
  /\ ~rendered.playing
  /\ \/ rendered.virtualTime # effected.virtualTime
     \/ rendered.playing # effected.playing
     \/ BrokerOf[rendered.input] # BrokerOf[effected.input]

\* The rebuild effect reads the clock from the store; the seek effect has the
\* render's.
Rebuilt ==
  IF RebuildDue THEN AdvancedTo(CreateKernel(rendered.input), store.virtualTime) ELSE simRef

DurationOf(input) == IF input \in Sandboxes THEN {} ELSE {Duration}

\* Mutant: playing is missing from the dependencies of the loop's effect.
LoopDueOnInputOnly ==
  \/ DurationOf(rendered.input) # DurationOf(effected.input)
  \/ BrokerOf[rendered.input] # BrokerOf[effected.input]

LoopDue ==
  \/ rendered.playing # effected.playing
  \/ DurationOf(rendered.input) # DurationOf(effected.input)
  \/ BrokerOf[rendered.input] # BrokerOf[effected.input]

Effects ==
  /\ rendered # effected
  /\ effected' = rendered
  /\ simRef' = IF SeekDue THEN AdvancedTo(Rebuilt, rendered.virtualTime) ELSE Rebuilt
  /\ view' = IF RebuildDue \/ SeekDue THEN ViewOf(simRef', BrokerOf[rendered.input]) ELSE view
  /\ looping' = IF LoopDue THEN rendered.playing ELSE looping
  /\ UNCHANGED <<deferred, store, rendered, clicks>>

-----------------------------------------------------------------------------
(* The requestAnimationFrame loop; in the open-ended sandbox up to MaxTime. *)

Finished(s, input, target) ==
  /\ input \notin Sandboxes
  /\ target > Duration
  /\ s.heap = <<>>

PlayingAfter(s, input, target) ==
  IF s.halted \/ Finished(s, input, target) THEN FALSE ELSE store.playing

Frame(delta) ==
  /\ Free
  /\ looping
  /\ effected.input \in Sandboxes => store.virtualTime + delta <= MaxTime
  /\ LET target == store.virtualTime + delta
         s      == AdvancedTo(simRef, target)
     IN /\ simRef' = s
        /\ store' = [store EXCEPT !.virtualTime = target,
                                  !.playing = PlayingAfter(s, effected.input, target)]
        /\ view' = ViewOf(s, BrokerOf[effected.input])
        /\ looping' = ~(s.halted \/ Finished(s, effected.input, target))
  /\ UNCHANGED <<deferred, rendered, effected, clicks>>

-----------------------------------------------------------------------------

Browser == Render \/ Effects \/ \E delta \in Deltas : Frame(delta)

PlaybackNext ==
  \/ \E input \in Inputs : Open(input)
  \/ \E draft \in Sandboxes : EditSandbox(draft)
  \/ Play
  \/ Pause
  \/ \E t \in 0 .. MaxTime : Seek(t)
  \/ StepClick
  \/ Browser

PlaybackSpec == PlaybackInit /\ [][PlaybackNext]_playbackVars

\* React and the browser never stop together while one of them has work.
PlaybackFairSpec == PlaybackSpec /\ WF_playbackVars(Browser)

-----------------------------------------------------------------------------
(* Properties *)

Progress(s) == [journal |-> s.journal, processed |-> s.processed, seq |-> s.seq]

\* Scrubbing is replay: where React reacts at once and nothing is playing, the
\* canvas shows exactly what a fresh simulation of the current lesson or draft
\* shows at the store's virtual time, whatever was played, sought, stepped,
\* edited or switched before.
PausedViewIsReplay ==
  Settled /\ ~store.playing /\ ~deferred =>
    Progress(view.state) = Progress(Run(CreateKernel(store.input), store.virtualTime))

\* A snapshot is never handed to the components of another broker than the one
\* that produced it.
SnapshotMatchesBroker == view.broker = BrokerOf[view.state.input]

\* A lesson that plays comes to its end and pauses, so the loop does not spin
\* on a finished or halted simulation.
PlayingEnds == (~deferred /\ store.playing /\ store.input \notin Sandboxes) ~> ~store.playing
=============================================================================
