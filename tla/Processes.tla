------------------------------- MODULE Processes -------------------------------
(***************************************************************************)
(* The life of the worker and API processes: the resources each one        *)
(* acquires in turn (cmd/worker/main.go, cmd/api/main.go,                  *)
(* application/worker_lifecycle.go), the loops that run on them, a signal  *)
(* or a failure at any point, and the deferred releases in reverse order.  *)
(* What a loop does in one round is the business of the other modules;     *)
(* here a round only has a beginning and an end.                           *)
(***************************************************************************)
EXTENDS Integers, Sequences, FiniteSets

CONSTANTS WorkerConfig,     \* configurations the worker may be started with
          DefaultConfig     \* DefaultWorkerConfig

\* A configuration holds any integers; the defaults are positive.
ASSUME ProcessesAssumption ==
    /\ WorkerConfig \subseteq [inFlight : Int, fetch : Int]
    /\ DefaultConfig \in [inFlight : Nat \ {0}, fetch : Nat \ {0}]

VARIABLES psKind,       \* which process this is
          psConfig,     \* the worker's configuration, normalised by NewWorker
          psPhase,      \* starting, running, unwinding or exited
          psHeld,       \* how many stages of the plan are held
          psSignal,     \* the process context is cancelled
          psLoop,       \* each loop: off, idle between rounds, or busy in one
          psForced      \* the API returned with requests still in progress

psVars == <<psKind, psConfig, psPhase, psHeld, psSignal, psLoop, psForced>>

\* A mistake: Run defers the shard service's stop after the key queue's.
LeasesStoppedFirst ==
    [worker |-> <<"observability", "metrics", "storage", "consumer", "publisher", "scheduler",
                  "queue", "leases", "background">>,
     api |-> <<"storage", "publisher">>]

\* What is acquired, in order; every release is deferred when its stage is held.
Plan ==
    [worker |-> <<"observability", "metrics", "storage", "consumer", "publisher", "scheduler",
                  "leases", "queue", "background">>,
     api |-> <<"storage", "publisher">>]

\* The goroutines a stage starts, and the stages their rounds use.
LoopsOf(stage) ==
    CASE stage = "scheduler" -> {"scheduler"}
      [] stage = "leases" -> {"renewal"}
      [] stage = "queue" -> {"queue"}
      [] stage = "background" -> {"publish", "batch"}
      [] OTHER -> {}

MainLoop == [worker |-> "fetch", api |-> "requests"]

Uses ==
    [scheduler |-> {"storage", "publisher"},
     renewal   |-> {"storage"},
     queue     |-> {"storage", "consumer", "leases"},
     publish   |-> {"storage", "publisher"},
     batch     |-> {"storage", "leases"},
     fetch     |-> {"consumer", "leases", "queue"},
     requests  |-> {"storage", "publisher"}]

ProcLoop == DOMAIN Uses
Stages == Plan[psKind]
Held == {Stages[i] : i \in 1 .. psHeld}
Top == Stages[psHeld]

-----------------------------------------------------------------------------
(* Configuration *)

\* Without an in-flight bound the whole configuration is the default one; each
\* of the other settings has its own.
normalizeWorkerConfig(c) ==
    LET d == IF c.inFlight = 0 THEN DefaultConfig ELSE c
    IN  [inFlight |-> IF d.inFlight < 0 THEN DefaultConfig.inFlight ELSE d.inFlight,
         fetch |-> IF d.fetch <= 0 THEN DefaultConfig.fetch ELSE d.fetch]

\* NewWorker refuses a fetch larger than the bound.
ConfigRefused(c) == normalizeWorkerConfig(c).fetch > normalizeWorkerConfig(c).inFlight

-----------------------------------------------------------------------------
PsInit ==
    /\ psKind \in {"worker", "api"}
    /\ psConfig \in (IF psKind = "worker" THEN WorkerConfig ELSE {DefaultConfig})
    /\ psPhase = "starting" /\ psHeld = 0
    /\ psSignal = FALSE /\ psForced = FALSE
    /\ psLoop = [l \in ProcLoop |-> "off"]

\* SIGINT or SIGTERM.
Signal ==
    /\ ~psSignal /\ psPhase \in {"starting", "running", "unwinding"}
    /\ psSignal' = TRUE
    /\ UNCHANGED <<psKind, psConfig, psPhase, psHeld, psLoop, psForced>>

\* The next stage is acquired.  The worker is constructed before the scheduler
\* starts, and LeaseManager.Start tolerates every error but a cancelled context.
Acquire ==
    LET stage == Stages[psHeld + 1] IN
    /\ psPhase = "starting" /\ psHeld < Len(Stages)
    /\ stage = "scheduler" => ~ConfigRefused(psConfig)
    /\ psConfig' = IF stage = "scheduler" THEN normalizeWorkerConfig(psConfig) ELSE psConfig
    /\ psHeld' = psHeld + 1
    /\ psLoop' = [l \in ProcLoop |-> IF l \in LoopsOf(stage) THEN "idle" ELSE psLoop[l]]
    /\ UNCHANGED <<psKind, psPhase, psSignal, psForced>>

\* An error before or in acquiring the next stage: run returns, and what is
\* held is released.  Starting the key queue and the loops cannot fail.
AcquireFails ==
    /\ psPhase = "starting" /\ psHeld < Len(Stages)
    /\ Stages[psHeld + 1] \notin {"queue", "background"}
    /\ Stages[psHeld + 1] = "leases" => psSignal
    /\ psPhase' = "unwinding"
    /\ UNCHANGED <<psKind, psConfig, psHeld, psSignal, psLoop, psForced>>

\* Everything is held: runSharded, or the API's server.
RunMain ==
    /\ psPhase = "starting" /\ psHeld = Len(Stages)
    /\ psPhase' = "running"
    /\ psLoop' = [psLoop EXCEPT ![MainLoop[psKind]] = "idle"]
    /\ UNCHANGED <<psKind, psConfig, psHeld, psSignal, psForced>>

\* A loop has been told to stop: by the context, or by the Stop of its stage.
StopRequested(l) ==
    \/ psSignal
    \/ /\ psPhase = "unwinding" /\ psHeld > 0
       /\ l \in LoopsOf(Top) \ LoopsOf("background")

\* A round begins.  A ticker that is due may win over the stop signal in the
\* loops that select over both; the others test for it first.
RoundBegins(l) ==
    /\ psLoop[l] = "idle"
    /\ l \in {"queue", "fetch", "requests"} => ~StopRequested(l)
    /\ psLoop' = [psLoop EXCEPT ![l] = "busy"]
    /\ UNCHANGED <<psKind, psConfig, psPhase, psHeld, psSignal, psForced>>

RoundEnds(l) ==
    /\ psLoop[l] = "busy"
    /\ psLoop' = [psLoop EXCEPT ![l] = "idle"]
    /\ UNCHANGED <<psKind, psConfig, psPhase, psHeld, psSignal, psForced>>

LoopReturns(l) ==
    /\ psLoop[l] = "idle" /\ StopRequested(l)
    /\ psLoop' = [psLoop EXCEPT ![l] = "off"]
    /\ UNCHANGED <<psKind, psConfig, psPhase, psHeld, psSignal, psForced>>

\* The main loop is over and run returns.
MainReturns ==
    /\ psPhase = "running" /\ psLoop[MainLoop[psKind]] = "off"
    /\ psPhase' = "unwinding"
    /\ UNCHANGED <<psKind, psConfig, psHeld, psSignal, psLoop, psForced>>

\* Router.Run returns early: the server fails, or its shutdown runs out of time.
ServerAbandoned ==
    /\ psKind = "api" /\ psPhase = "running"
    /\ psPhase' = "unwinding" /\ psForced' = TRUE
    /\ UNCHANGED <<psKind, psConfig, psHeld, psSignal, psLoop>>

\* The last deferred release: a Stop or Wait returns when the stage's loops
\* have, whatever the shutdown context's deadline, and a Close at once.
Unwind ==
    /\ psPhase = "unwinding" /\ psHeld > 0
    /\ \A l \in LoopsOf(Top) : psLoop[l] = "off"
    /\ psHeld' = psHeld - 1
    /\ UNCHANGED <<psKind, psConfig, psPhase, psSignal, psLoop, psForced>>

\* The process ends, and what still runs ends with it.
Exit ==
    /\ psPhase = "unwinding" /\ psHeld = 0
    /\ psPhase' = "exited" /\ psLoop' = [l \in ProcLoop |-> "off"]
    /\ UNCHANGED <<psKind, psConfig, psHeld, psSignal, psForced>>

PsNext ==
    \/ Signal \/ Acquire \/ AcquireFails \/ RunMain \/ MainReturns \/ ServerAbandoned
    \/ Unwind \/ Exit
    \/ \E l \in ProcLoop : RoundBegins(l) \/ RoundEnds(l) \/ LoopReturns(l)

PsSpec == PsInit /\ [][PsNext]_psVars

-----------------------------------------------------------------------------
(***************************************************************************)
(* Wherever start-up fails and whenever the signal comes, no round of a    *)
(* loop runs on a resource that is not acquired yet or already released -  *)
(* in particular the leases are given up only when the key queue and the   *)
(* batch loop have stopped working under them - except for requests that   *)
(* the API's server abandons.  And what a worker whose loops run fetches   *)
(* at once is within the queue's total bound (its bound per key may still  *)
(* refuse some of it).                                                     *)
(***************************************************************************)
RunsOnHeldResources ==
    /\ \A l \in ProcLoop : psLoop[l] = "busy" /\ ~(l = "requests" /\ psForced) => Uses[l] \subseteq Held
    /\ psLoop["fetch"] # "off" => psConfig.fetch \in 1 .. psConfig.inFlight
=============================================================================
