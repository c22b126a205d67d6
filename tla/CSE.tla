--------------------------------- MODULE CSE ---------------------------------
(***************************************************************************)
(* The life of the process: the main thread starts the services, waits     *)
(* until the CSE runs, and reads keys. Others end it with shutdown(), or   *)
(* reset it. At the end the interpreter calls _shutdown(), which closes    *)
(* the databases.                                                          *)
(***************************************************************************)
EXTENDS FiniteSets

CONSTANTS
  Caller,   \* threads of the HTTP server and the MQTT client that give up with shutdown()
  Resetter  \* scripts that reset the CSE

VARIABLES
  cseStatus,
  main,        \* what the main thread does
  _stopLoop,   \* tells the keyboard loop to end
  startUp,     \* the actor _startUpFinished
  services,    \* "up" from the first of them until storage.shutdown()
  caller,      \* shutdown() in other threads
  reset,       \* resetCSE()
  isHeadless   \* never changes

cseVars == <<cseStatus, main, _stopLoop, startUp, services, caller, reset, isHeadless>>

TypeOK ==
  /\ cseStatus \in {"STOPPED", "STARTING", "RUNNING", "STOPPING", "RESETTING"}
  /\ main \in {"start", "managers", "bindings", "wait", "loop", "command", "left", "exit", "closing", "ended"}
  /\ _stopLoop \in BOOLEAN
  /\ startUp \in {"none", "pending", "done"}
  /\ services \in {"none", "up", "down"}
  /\ caller \in [Caller -> {"idle", "checked", "stopping", "returned"}]
  /\ reset \in [Resetter -> {"idle", "resetting", "imported", "failed", "returned"}]
  /\ isHeadless \in BOOLEAN

Init ==
  /\ cseStatus = "STOPPED" /\ main = "start" /\ _stopLoop = FALSE /\ startUp = "none" /\ services = "none"
  /\ caller = [c \in Caller |-> "idle"] /\ reset = [r \in Resetter |-> "idle"]
  /\ isHeadless \in BOOLEAN

-----------------------------------------------------------------------------
(* startup() and run() in the main thread.                                 *)

fail ==
  /\ cseStatus' = "STOPPED" /\ main' = "exit"
  /\ UNCHANGED <<_stopLoop, startUp, services, caller, reset, isHeadless>>

begin ==
  /\ main = "start"
  /\ cseStatus' = "STARTING" /\ main' = "managers"
  /\ UNCHANGED <<_stopLoop, startUp, services, caller, reset, isHeadless>>

\* The managers are there, the resources imported, and the bindings begin to serve; or the configuration,
\* the storage or an import cannot be read.
startManagers ==
  /\ main = "managers"
  /\ \/ /\ services' = "up" /\ main' = "bindings"
        /\ UNCHANGED <<cseStatus, _stopLoop, startUp, caller, reset, isHeadless>>
     \/ fail

startBindings ==
  /\ main = "bindings"
  /\ \/ /\ startUp' = "pending" /\ main' = "wait"
        /\ UNCHANGED <<cseStatus, _stopLoop, services, caller, reset, isHeadless>>
     \/ fail

\* The actor, which is not as late as the main thread would wait for it.
_startUpFinished ==
  /\ startUp = "pending" /\ main # "ended"
  /\ cseStatus' = "RUNNING" /\ startUp' = "done"
  /\ UNCHANGED <<main, _stopLoop, services, caller, reset, isHeadless>>

\* Mutant of run: the loop starts with its flag reset.
runReset ==
  /\ main = "wait"
  /\ \/ cseStatus = "RUNNING" /\ main' = "loop"
     \/ cseStatus # "RUNNING" /\ startUp = "done" /\ main' = "exit"
  /\ _stopLoop' = FALSE
  /\ UNCHANGED <<cseStatus, startUp, services, caller, reset, isHeadless>>

\* waitFor() sees that the CSE runs, or gives up, and a TimeoutError ends the process.
run ==
  /\ main = "wait"
  /\ \/ cseStatus = "RUNNING" /\ main' = "loop"
     \/ cseStatus # "RUNNING" /\ startUp = "done" /\ main' = "exit"
  /\ UNCHANGED <<cseStatus, _stopLoop, startUp, services, caller, reset, isHeadless>>

-----------------------------------------------------------------------------
(* The keyboard loop, and what it is interrupted by.                       *)

stopped ==
  /\ main = "loop" /\ _stopLoop
  /\ main' = "left"
  /\ UNCHANGED <<cseStatus, _stopLoop, startUp, services, caller, reset, isHeadless>>

\* Ctrl-C while the process waits, which ends it, or in the loop, which ends the loop only without a console.
interrupt ==
  /\ \/ main = "wait" /\ main' = "exit"
     \/ main = "loop" /\ isHeadless /\ main' = "left"
  /\ UNCHANGED <<cseStatus, _stopLoop, startUp, services, caller, reset, isHeadless>>

\* A key. Its command may take as long as the user wants, as the text UI does.
key ==
  /\ main = "loop" /\ ~isHeadless /\ ~_stopLoop
  /\ main' = "command"
  /\ UNCHANGED <<cseStatus, _stopLoop, startUp, services, caller, reset, isHeadless>>

\* The command returns; or it was shutdownCSE(), which the user has confirmed, and SystemExit ends run().
returnKey ==
  /\ main = "command"
  /\ main' \in {"loop", "exit"}
  /\ UNCHANGED <<cseStatus, _stopLoop, startUp, services, caller, reset, isHeadless>>

\* run() of the console calls shutdown() after the loop.
leave ==
  /\ main = "left"
  /\ IF cseStatus \in {"STOPPING", "STOPPED"} THEN UNCHANGED <<cseStatus, _stopLoop>>
                                              ELSE cseStatus' = "STOPPING" /\ _stopLoop' = TRUE
  /\ main' = "exit"
  /\ UNCHANGED <<startUp, services, caller, reset, isHeadless>>

-----------------------------------------------------------------------------
(* _shutdown() at exit.                                                    *)

_shutdown ==
  /\ main = "exit"
  /\ IF cseStatus = "RUNNING" THEN cseStatus' = "STOPPING" /\ main' = "closing"
                              ELSE main' = "ended" /\ UNCHANGED cseStatus
  /\ UNCHANGED <<_stopLoop, startUp, services, caller, reset, isHeadless>>

close ==
  /\ main = "closing"
  /\ services' = "down" /\ cseStatus' = "STOPPED" /\ main' = "ended"
  /\ UNCHANGED <<_stopLoop, startUp, caller, reset, isHeadless>>

-----------------------------------------------------------------------------
(* shutdown() in another thread: the check, the status, the loop.          *)

Serving == main \notin {"start", "managers", "ended"}

checkStatus(c) ==
  /\ Serving /\ caller[c] = "idle"
  /\ caller' = [caller EXCEPT ![c] = IF cseStatus \in {"STOPPING", "STOPPED"} THEN "returned" ELSE "checked"]
  /\ UNCHANGED <<cseStatus, main, _stopLoop, startUp, services, reset, isHeadless>>

setStopping(c) ==
  /\ Serving /\ caller[c] = "checked"
  /\ cseStatus' = "STOPPING"
  /\ caller' = [caller EXCEPT ![c] = "stopping"]
  /\ UNCHANGED <<main, _stopLoop, startUp, services, reset, isHeadless>>

stopLoop(c) ==
  /\ Serving /\ caller[c] = "stopping"
  /\ _stopLoop' = TRUE
  /\ caller' = [caller EXCEPT ![c] = "returned"]
  /\ UNCHANGED <<cseStatus, main, startUp, services, reset, isHeadless>>

-----------------------------------------------------------------------------
(* resetCSE(), one at a time. The bindings that it pauses are left out.    *)

beginReset(r) ==
  /\ Serving /\ reset[r] = "idle"
  /\ \A q \in Resetter : reset[q] \notin {"resetting", "imported"}
  /\ cseStatus' = "RESETTING"
  /\ reset' = [reset EXCEPT ![r] = "resetting"]
  /\ UNCHANGED <<main, _stopLoop, startUp, services, caller, isHeadless>>

\* The import fails: SystemExit ends the thread, and nothing else.
doImport(r) ==
  /\ Serving /\ reset[r] = "resetting"
  /\ \E result \in {"imported", "failed"} : reset' = [reset EXCEPT ![r] = result]
  /\ UNCHANGED <<cseStatus, main, _stopLoop, startUp, services, caller, isHeadless>>

endReset(r) ==
  /\ Serving /\ reset[r] = "imported"
  /\ cseStatus' = "RUNNING"
  /\ reset' = [reset EXCEPT ![r] = "returned"]
  /\ UNCHANGED <<main, _stopLoop, startUp, services, caller, isHeadless>>

-----------------------------------------------------------------------------
Main == begin \/ startManagers \/ startBindings \/ run \/ stopped \/ leave \/ _shutdown \/ close

Next ==
  \/ Main \/ _startUpFinished \/ interrupt \/ key \/ returnKey
  \/ \E c \in Caller : checkStatus(c) \/ setStopping(c) \/ stopLoop(c)
  \/ \E r \in Resetter : beginReset(r) \/ doImport(r) \/ endReset(r)

Spec == Init /\ [][Next]_cseVars

\* The main thread and the job of the actor go on. The user, the resets and the callers may stop.
FairSpec == Spec /\ WF_cseVars(Main) /\ WF_cseVars(_startUpFinished)

-----------------------------------------------------------------------------
\* When shutdown() has stopped the loop, the process ends, also if it had not yet begun to read keys, or
\* another thread sets the status after that; unless the user is in a command.
StopEnds == _stopLoop ~> (main \in {"ended", "command"})

\* shutdown() in one thread: "The actual shutdown happens in the _shutdown() method." (runtime/CSE.py:372);
\* a CSE that has been running closes its services, the databases among them, before the process ends.
CleansUp == main = "ended" /\ startUp = "done" => services = "down"
=============================================================================
