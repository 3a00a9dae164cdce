---------------------------- MODULE StoreRuntime ---------------------------
(***************************************************************************)
(* The life of the embedded trace store (embeddedtempo/runtime.go,         *)
(* server.go) and of the service inside it (tracing/service.go Serve).     *)
(* Tempo's modules start and stop by themselves, also on a signal the      *)
(* service receives as well; the service pushes into them from goroutines  *)
(* of its own. Any number of processes may be started over a data          *)
(* directory; the one with the lock runs.                                  *)
(*                                                                         *)
(* Tempo is external: it tells the server that it will stop before it      *)
(* stops its modules, as server.go says, and waits for the server to agree.*)
(***************************************************************************)
EXTENDS Naturals

CONSTANTS
    Runtimes,           \* processes started over one directory
    StoreWorkers,       \* workers that push
    MaxRuntimeFaults    \* bound: processes killed, modules that fail

RuntimeAssumption == StoreWorkers \in Nat /\ MaxRuntimeFaults \in Nat
ASSUME RuntimeAssumption

VARIABLES
    flock,          \* the processes that hold runtime.lock
    modules,        \* "none", "up", "down"
    stopAsked,      \* Tempo has a reason to stop: a signal, Stop, a failed module
    stopping,       \* loopbackServer.stopping
    consumers,      \* loopbackServer.consumers
    serving,        \* the goroutine of runService: "waits", "ready", "serves",
                    \* "drains", "returned", "ended"
    pushes,         \* workers in the middle of a push
    exited,
    runtimeFaults

runtimeVars == <<flock, modules, stopAsked, stopping, consumers, serving, pushes,
                 exited, runtimeFaults>>

RuntimeInit ==
    /\ flock = {}
    /\ modules = [p \in Runtimes |-> "none"] /\ serving = [p \in Runtimes |-> "waits"]
    /\ stopAsked = {} /\ stopping = {} /\ exited = {}
    /\ consumers = [p \in Runtimes |-> 0] /\ pushes = [p \in Runtimes |-> 0]
    /\ runtimeFaults = 0

Running(p) == p \in flock /\ p \notin exited

-----------------------------------------------------------------------------
\* A second runtime is refused, and exits.
LockDirectory(p) ==
    /\ p \notin exited /\ p \notin flock
    /\ IF flock = {}
       THEN flock' = {p} /\ UNCHANGED exited
       ELSE exited' = exited \union {p} /\ UNCHANGED flock
    /\ UNCHANGED <<modules, stopAsked, stopping, consumers, serving, pushes,
                   runtimeFaults>>

StartModules(p) ==
    /\ Running(p) /\ modules[p] = "none"
    /\ modules' = [modules EXCEPT ![p] = "up"]
    /\ UNCHANGED <<flock, stopAsked, stopping, consumers, serving, pushes, exited,
                   runtimeFaults>>

\* The goroutine finds the store ready, every tenth of a second.
FindReady(p) ==
    /\ Running(p) /\ modules[p] = "up" /\ serving[p] = "waits"
    /\ serving' = [serving EXCEPT ![p] = "ready"]
    /\ UNCHANGED <<flock, modules, stopAsked, stopping, consumers, pushes, exited,
                   runtimeFaults>>

\* MUTANT of Admits: the stop is not looked for again.
AdmitsReady(p) == TRUE

\* beginServing, under the admission mutex.
Admits(p) == p \notin stopping

BeginServing(p) ==
    /\ Running(p) /\ serving[p] = "ready"
    /\ IF Admits(p)
       THEN /\ consumers' = [consumers EXCEPT ![p] = @ + 1]
            /\ serving' = [serving EXCEPT ![p] = "serves"]
       ELSE /\ serving' = [serving EXCEPT ![p] = "ended"]
            /\ UNCHANGED consumers
    /\ UNCHANGED <<flock, modules, stopAsked, stopping, pushes, exited,
                   runtimeFaults>>

\* Workers push until the queues are closed and empty.
BeginPush(p) ==
    /\ Running(p) /\ serving[p] \in {"serves", "drains"}
    /\ pushes[p] < StoreWorkers
    /\ pushes' = [pushes EXCEPT ![p] = @ + 1]
    /\ UNCHANGED <<flock, modules, stopAsked, stopping, consumers, serving, exited,
                   runtimeFaults>>

EndPush(p) ==
    /\ Running(p) /\ pushes[p] > 0
    /\ pushes' = [pushes EXCEPT ![p] = @ - 1]
    /\ UNCHANGED <<flock, modules, stopAsked, stopping, consumers, serving, exited,
                   runtimeFaults>>

\* Serve leaves its loop: on the signal, or after a minute without work.
LeaveLoop(p) ==
    /\ Running(p) /\ serving[p] = "serves"
    /\ serving' = [serving EXCEPT ![p] = "drains"]
    /\ UNCHANGED <<flock, modules, stopAsked, stopping, consumers, pushes, exited,
                   runtimeFaults>>

\* workers.Wait, and Serve returns.
Drained(p) ==
    /\ Running(p) /\ serving[p] = "drains" /\ pushes[p] = 0
    /\ serving' = [serving EXCEPT ![p] = "returned"]
    /\ UNCHANGED <<flock, modules, stopAsked, stopping, consumers, pushes, exited,
                   runtimeFaults>>

\* consumers.Done, then Stop.
StopTempo(p) ==
    /\ Running(p) /\ serving[p] = "returned"
    /\ consumers' = [consumers EXCEPT ![p] = @ - 1]
    /\ serving' = [serving EXCEPT ![p] = "ended"]
    /\ stopAsked' = stopAsked \union {p}
    /\ UNCHANGED <<flock, modules, stopping, pushes, exited, runtimeFaults>>

\* SIGTERM, for Tempo and for the service.
Signal(p) ==
    /\ Running(p)
    /\ stopAsked' = stopAsked \union {p}
    /\ UNCHANGED <<flock, modules, stopping, consumers, serving, pushes, exited, runtimeFaults>>

\* A module fails, and Tempo stops.
ModuleFails(p) ==
    /\ Running(p) /\ modules[p] = "up" /\ runtimeFaults < MaxRuntimeFaults
    /\ runtimeFaults' = runtimeFaults + 1
    /\ stopAsked' = stopAsked \union {p}
    /\ UNCHANGED <<flock, modules, stopping, consumers, serving, pushes, exited>>

\* SetKeepAlivesEnabled(false): nobody is admitted any more; then it waits.
StopAdmission(p) ==
    /\ Running(p) /\ p \in stopAsked /\ p \notin stopping
    /\ stopping' = stopping \union {p}
    /\ UNCHANGED <<flock, modules, stopAsked, consumers, serving, pushes, exited,
                   runtimeFaults>>

TearDown(p) ==
    /\ Running(p) /\ p \in stopping /\ consumers[p] = 0
    /\ modules[p] # "down"
    /\ modules' = [modules EXCEPT ![p] = "down"]
    /\ UNCHANGED <<flock, stopAsked, stopping, consumers, serving, pushes, exited,
                   runtimeFaults>>

\* Run returns, and the process ends; or it is killed, by the service itself when it has
\* not drained in fifteen seconds.
Exit(p) ==
    /\ Running(p)
    /\ \/ modules[p] = "down" /\ UNCHANGED runtimeFaults
       \/ runtimeFaults < MaxRuntimeFaults /\ runtimeFaults' = runtimeFaults + 1
    /\ exited' = exited \union {p} /\ flock' = flock \ {p}
    /\ pushes' = [pushes EXCEPT ![p] = 0]
    /\ serving' = [serving EXCEPT ![p] = "ended"]
    /\ UNCHANGED <<modules, stopAsked, stopping, consumers>>

-----------------------------------------------------------------------------
Consumer(p) == \/ FindReady(p) \/ BeginServing(p) \/ BeginPush(p) \/ EndPush(p)
               \/ LeaveLoop(p) \/ Drained(p) \/ StopTempo(p)
Tempo(p) == \/ LockDirectory(p) \/ StartModules(p) \/ Signal(p) \/ ModuleFails(p)
            \/ StopAdmission(p) \/ TearDown(p) \/ Exit(p)
RuntimeNext == \E p \in Runtimes : Consumer(p) \/ Tempo(p)
RuntimeSpec == RuntimeInit /\ [][RuntimeNext]_runtimeVars

-----------------------------------------------------------------------------
(* Correctness. *)

\* Nothing is pushed into modules that are not there: the service works only between
\* their start and their stop, whatever comes first of the signal, the admission and the
\* stop, and never in two processes over one directory (embeddedtempo/server.go:43).
PushesIntoLiveModules ==
    \A p \in Runtimes :
       serving[p] \in {"serves", "drains"} \/ pushes[p] > 0
           => modules[p] = "up" /\ flock = {p}
=============================================================================
