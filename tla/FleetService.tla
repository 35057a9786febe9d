----------------------------- MODULE FleetService -----------------------------
(***************************************************************************)
(* The persistent local Fleet: commands that start, stop, restart and      *)
(* inspect one service process of a workspace, and the threads of that     *)
(* process.                                                                *)
(*                                                                         *)
(* The commands share three files with the service.  The owner lock is an  *)
(* flock: it belongs to an open file, and a service inherits the open file *)
(* of the command that launched it, so that it is free only when both have *)
(* closed it.  The metadata says what the service last reported.  The stop *)
(* request names a generation.                                             *)
(*                                                                         *)
(* In the service, slots pull and execute packages; the coordinator and    *)
(* the stop watcher look for a stop request; all of them may still be at   *)
(* work when another one decides to stop.                                  *)
(***************************************************************************)
EXTENDS Naturals, FiniteSets

CONSTANTS
    Commands,        \* processes that run one command after another
    Slots,           \* pull loops of a service
    MaxGeneration,   \* bound: how many services are launched
    MaxCrashes       \* bound: how many processes are killed

Generations == 1 .. MaxGeneration

ASSUME FleetAssumption ==
    /\ MaxGeneration \in Nat /\ MaxCrashes \in Nat
    /\ Commands \cap Generations = {}     \* an open file has one owner

VARIABLES
    meta,        \* state.json; generation 0 stands for a missing file
    request,     \* the generation that stop.json names, or 0
    lock,        \* who has the locked file open: commands and generations
    command,     \* command[k]: what command process k does
    service,     \* service[g]: the threads of generation g
    launched,    \* the last generation
    crashes

vars == <<meta, request, lock, command, service, launched, crashes>>

Ended == {"stopped", "failed"}
ServiceStates == {"starting", "ready", "stopping"} \cup Ended

Ops == {"start", "stop", "status"}
Answers == {"none", "error", "stale"} \cup ServiceStates
CommandStates ==
    [op : Ops, restart : BOOLEAN,     \* a start follows the stop
     at : {"idle", "read", "write", "launch", "await", "try", "wait", "probe", "unlock"},
     generation : 0 .. MaxGeneration, seen : {"none"} \cup ServiceStates, answer : Answers]

\* The stop watcher is a thread of its own; `failing` is the exception that the
\* coordinator will raise once everybody has been joined.
ServiceRecords ==
    [at : {"none", "boot", "check", "write", "join", "watcher", "end", "exit", "dead"},
     closed : BOOLEAN,                \* the admission gate
     stop : BOOLEAN,                  \* the stop event
     seen : BOOLEAN,                  \* whether the coordinator saw the gate closed
     failing : BOOLEAN,
     watcher : {"watching", "closing", "gone"},
     slots : [Slots -> {"free", "busy", "returned", "raised"}]]

NoService == [at |-> "none", closed |-> FALSE, stop |-> FALSE, seen |-> FALSE,
              failing |-> FALSE, watcher |-> "watching", slots |-> [s \in Slots |-> "free"]]
Dead == [NoService EXCEPT !.at = "dead"]

TypeOK ==
    /\ meta \in [generation : 0 .. MaxGeneration, state : {"none"} \cup ServiceStates]
    /\ request \in 0 .. MaxGeneration
    /\ lock \subseteq Commands \cup Generations
    /\ command \in [Commands -> CommandStates]
    /\ service \in [Generations -> ServiceRecords]
    /\ launched \in 0 .. MaxGeneration
    /\ crashes \in 0 .. MaxCrashes

Idle == [op |-> "status", restart |-> FALSE, at |-> "idle", generation |-> 0,
         seen |-> "none", answer |-> "none"]

Init ==
    /\ meta = [generation |-> 0, state |-> "none"]
    /\ request = 0
    /\ lock = {}
    /\ command = [k \in Commands |-> Idle]
    /\ service = [g \in Generations |-> NoService]
    /\ launched = 0
    /\ crashes = 0

Alive(g) == service[g].at \notin {"none", "dead"}

-----------------------------------------------------------------------------
(* The metadata.                                                            *)

\* Mutant: a service that is stopping becomes ready again.
Reopening ==
    {<<"starting", "ready">>, <<"starting", "failed">>,
     <<"ready", "stopping">>, <<"ready", "stopped">>, <<"ready", "failed">>,
     <<"stopping", "ready">>, <<"stopping", "stopped">>, <<"stopping", "failed">>}

\* _SERVICE_STATE_TRANSITIONS; nothing leaves an ended state, not even to itself.
Transitions ==
    {<<"starting", "ready">>, <<"starting", "failed">>,
     <<"ready", "stopping">>, <<"ready", "stopped">>, <<"ready", "failed">>,
     <<"stopping", "stopped">>, <<"stopping", "failed">>}

\* _update_state: read, merge and write under the lock of the service's threads.
Reported(g, state) ==
    IF meta.generation = g /\ <<meta.state, state>> \in Transitions
    THEN [meta EXCEPT !.state = state] ELSE meta

-----------------------------------------------------------------------------
(* Commands.                                                                *)

Command(k, ops, step) == command[k].op \in ops /\ command[k].at = step
Goto(k, step) == command' = [command EXCEPT ![k].at = step]

Waits(k) == command' = [command EXCEPT ![k].at = "wait", ![k].seen = "none"]

\* A restart goes on with the start when its stop found no service or ended it.
AfterStop(answer) ==
    IF answer \in Ended \cup {"stale"} THEN [Idle EXCEPT !.op = "start", !.at = "try"] ELSE Idle
Return(k, answer) ==
    command' = [command EXCEPT ![k] = IF @.restart THEN AfterStop(answer) ELSE Idle]

\* A status changes nothing and takes the lock for an instant as a stop does: it
\* is modelled as the end of a stop only.
Begin(k, op, restart) ==
    /\ command[k].at = "idle"
    /\ restart => op = "stop"
    /\ command' = [command EXCEPT ![k] =
          [Idle EXCEPT !.op = op, !.restart = restart,
                                  !.at = IF op = "start" THEN "try" ELSE "read"]]
    /\ UNCHANGED <<meta, request, lock, service, launched, crashes>>

\* The metadata is read before the lock is tried.
ReadState(k) ==
    /\ Command(k, {"stop", "status"}, "read")
    /\ command' = [command EXCEPT
          ![k].at = "try", ![k].generation = meta.generation, ![k].seen = meta.state]
    /\ UNCHANGED <<meta, request, lock, service, launched, crashes>>

\* start_service reserves a generation, or reports the one that is there.
TryStart(k) ==
    /\ Command(k, {"start"}, "try")
    /\ \/ /\ lock = {}
          /\ launched < MaxGeneration
          /\ lock' = {k}
          /\ Goto(k, "write")
       \/ /\ lock # {}
          /\ Return(k, IF meta.generation = 0 THEN "error" ELSE meta.state)
          /\ UNCHANGED lock
    /\ UNCHANGED <<meta, request, service, launched, crashes>>

WriteStarting(k) ==
    /\ Command(k, {"start"}, "write")
    /\ launched' = launched + 1
    /\ meta' = [generation |-> launched', state |-> "starting"]
    /\ command' = [command EXCEPT ![k].at = "launch", ![k].generation = launched']
    /\ UNCHANGED <<request, lock, service, crashes>>

\* Mutant: the lock stays with the command.
HeldByCommand(k, g) == {k}

\* Popen hands the locked file to the service.
Held(k, g) == {k, g}

Launch(k) ==
    LET g == command[k].generation
    IN  /\ Command(k, {"start"}, "launch")
        /\ \/ /\ lock' = Held(k, g)
              /\ service' = [service EXCEPT ![g].at = "boot"]
              /\ Goto(k, "await")
              /\ UNCHANGED meta
           \/ /\ meta' = Reported(g, "failed")
              /\ lock' = lock \ {k}
              /\ Return(k, "error")
              /\ UNCHANGED service
        /\ UNCHANGED <<request, launched, crashes>>

\* The service is ready, or it ended before, or the command does not wait longer.
Await(k, answer) ==
    LET g == command[k].generation
    IN  /\ Command(k, {"start"}, "await")
        /\ answer = "ready" => meta = [generation |-> g, state |-> "ready"]
        /\ Return(k, answer)
        /\ lock' = lock \ {k}
        /\ UNCHANGED <<meta, request, service, launched, crashes>>

\* Whoever finds the lock free takes it and gives it back.
TakeAndAnswer(k, answer) ==
    /\ lock = {}
    /\ lock' = {k}
    /\ command' = [command EXCEPT ![k].at = "unlock", ![k].answer = answer]

Unlock(k) ==
    /\ command[k].at = "unlock"
    /\ lock' = lock \ {k}
    /\ Return(k, command[k].answer)
    /\ UNCHANGED <<meta, request, service, launched, crashes>>

\* Nobody holds the lock: there is no service, whatever it reported last.
Unowned(op, seen) ==
    IF seen = "none" THEN "stopped"
    ELSE IF op = "status" /\ seen \in Ended THEN seen ELSE "stale"

Try(k) ==
    LET c == command[k]
    IN  /\ Command(k, {"stop", "status"}, "try")
        /\ \/ TakeAndAnswer(k, Unowned(c.op, c.seen)) /\ UNCHANGED request
           \/ /\ lock # {}
              /\ IF c.seen = "none" THEN Return(k, "error") /\ UNCHANGED request
                 ELSE IF c.op = "status"
                 THEN Return(k, c.seen) /\ UNCHANGED request
                 ELSE Waits(k) /\ request' = c.generation
              /\ UNCHANGED lock
        /\ UNCHANGED <<meta, service, launched, crashes>>

\* Mutant: what the metadata says is acknowledged.
AfterEndAtOnce(c) == [c EXCEPT !.at = "unlock", !.answer = meta.state]

\* An end in the metadata is not acknowledged before the lock is free.
AfterEnd(c) == [c EXCEPT !.at = "probe", !.seen = meta.state]

\* A successor ends the wait, and its status is the answer.
Wait(k) ==
    LET c == command[k]
    IN  /\ Command(k, {"stop"}, "wait")
        /\ \/ /\ meta.generation # c.generation
              /\ command' = [command EXCEPT ![k].op = "status", ![k].at = "read"]
           \/ /\ meta.generation = c.generation
              /\ meta.state \in Ended
              /\ command' = [command EXCEPT ![k] = AfterEnd(c)]
           \/ Return(k, "stopping")        \* timeout
        /\ UNCHANGED <<meta, request, lock, service, launched, crashes>>

Probe(k) ==
    /\ Command(k, {"stop"}, "probe")
    /\ \/ TakeAndAnswer(k, command[k].seen)
       \/ lock # {} /\ Waits(k) /\ UNCHANGED lock
    /\ UNCHANGED <<meta, request, service, launched, crashes>>

CommandStep(k) ==
    \/ \E op \in {"start", "stop"}, restart \in BOOLEAN : Begin(k, op, restart)
    \/ ReadState(k)
    \/ TryStart(k)
    \/ WriteStarting(k)
    \/ Launch(k)
    \/ \E answer \in {"ready", "error"} : Await(k, answer)
    \/ Try(k)
    \/ Wait(k)
    \/ Probe(k)
    \/ Unlock(k)

-----------------------------------------------------------------------------
(* The service.                                                             *)

UnchangedCommands == UNCHANGED <<request, command, launched>>
At(g, step) == service[g].at = step
Become(g, fields) == service' = [service EXCEPT ![g] = fields]

\* Resources, registration and a first maintenance step.
Boot(g, ready) ==
    /\ At(g, "boot")
    /\ meta' = Reported(g, IF ready THEN "ready" ELSE "failed")
    /\ service' = [service EXCEPT ![g].at = IF ready THEN "check" ELSE "exit"]
    /\ UNCHANGED <<lock, crashes>>
    /\ UnchangedCommands

Serving(g) == service[g].at \in {"check", "write", "join"}

\* PullAdmissionGate.admit
Admits(g) == ~service[g].closed

\* One turn of _run_persistent_slot begins.
Pull(g, s) ==
    /\ Serving(g)
    /\ service[g].slots[s] = "free"
    /\ service' = [service EXCEPT ![g].slots[s] = IF Admits(g) THEN "busy" ELSE "returned"]
    /\ UNCHANGED <<meta, lock, crashes>>
    /\ UnchangedCommands

\* The permit is released, whether the package was executed, there was none, or
\* something unexpected was raised.
Release(g, s, next) ==
    /\ Serving(g)
    /\ service[g].slots[s] = "busy"
    /\ service' = [service EXCEPT ![g].slots[s] = next]
    /\ UNCHANGED <<meta, lock, crashes>>
    /\ UnchangedCommands

\* Something is raised outside the permit: the slot cannot open its Store, or its
\* wait for more work fails.  Both may still happen when the gate is closed.
FailOutside(g, s) ==
    /\ Serving(g)
    /\ service[g].slots[s] = "free"
    /\ service' = [service EXCEPT ![g].slots[s] = "raised"]
    /\ UNCHANGED <<meta, lock, crashes>>
    /\ UnchangedCommands

\* _watch_stop.  It may have passed its test of the stop event already.
Watch(g) ==
    /\ service[g].watcher = "watching"
    /\ Serving(g) \/ At(g, "watcher")
    /\ \/ /\ request = g
          /\ service' = [service EXCEPT ![g].closed = TRUE, ![g].watcher = "closing"]
       \/ /\ service[g].stop
          /\ service' = [service EXCEPT ![g].watcher = "gone"]
    /\ UNCHANGED <<meta, lock, crashes>>
    /\ UnchangedCommands

WatcherReports(g) ==
    /\ service[g].watcher = "closing"
    /\ meta' = Reported(g, "stopping")
    /\ service' = [service EXCEPT ![g].watcher = "gone", ![g].stop = TRUE]
    /\ UNCHANGED <<lock, crashes>>
    /\ UnchangedCommands

\* Mutant: a slot that raised is waited for.
AllReturnedWell(g) == \A s \in Slots : service[g].slots[s] = "returned"

AllReturned(g) == \A s \in Slots : service[g].slots[s] \in {"returned", "raised"}
SomeRaised(g) == \E s \in Slots : service[g].slots[s] = "raised"

\* The coordinator closes the gate for a request and for a slot that raised, and
\* notes what the gate is before it reports.
Coordinate(g) ==
    LET stops == request = g \/ SomeRaised(g)
        closed == service[g].closed \/ stops
    IN  /\ At(g, "check")
        /\ ~AllReturned(g)
        /\ Become(g, [service[g] EXCEPT !.closed = closed, !.stop = @ \/ stops,
                                        !.seen = closed, !.at = "write"])
        /\ UNCHANGED <<meta, lock, crashes>>
        /\ UnchangedCommands

\* on_update, and on_tick, which may raise.
CoordinatorReports(g, failing) ==
    /\ At(g, "write")
    /\ meta' = Reported(g, IF service[g].seen THEN "stopping" ELSE "ready")
    /\ Become(g, [service[g] EXCEPT !.at = IF failing THEN "join" ELSE "check",
                                    !.seen = FALSE, !.failing = failing,
                                    !.closed = @ \/ failing, !.stop = @ \/ failing])
    /\ UNCHANGED <<lock, crashes>>
    /\ UnchangedCommands

LeaveLoop(g) ==
    /\ At(g, "check")
    /\ AllReturned(g)
    /\ Become(g, [service[g] EXCEPT !.at = "join", !.closed = TRUE, !.stop = TRUE])
    /\ UNCHANGED <<meta, lock, crashes>>
    /\ UnchangedCommands

\* Mutant: the end of the coordinator's loop ends the slots.
JoinedAtOnce(g) == TRUE

\* The executor joins every slot.
Joined(g) == AllReturned(g)

JoinSlots(g) ==
    /\ At(g, "join")
    /\ Joined(g)
    /\ Become(g, [service[g] EXCEPT !.at = "watcher", !.failing = @ \/ SomeRaised(g)])
    /\ UNCHANGED <<meta, lock, crashes>>
    /\ UnchangedCommands

JoinWatcher(g) ==
    /\ At(g, "watcher")
    /\ service[g].watcher = "gone"
    /\ service' = [service EXCEPT ![g].at = "end"]
    /\ UNCHANGED <<meta, lock, crashes>>
    /\ UnchangedCommands

End(g) ==
    /\ At(g, "end")
    /\ meta' = Reported(g, IF service[g].failing THEN "failed" ELSE "stopped")
    /\ service' = [service EXCEPT ![g].at = "exit"]
    /\ UNCHANGED <<lock, crashes>>
    /\ UnchangedCommands

\* The operating system closes the files of the process.
Exit(g) ==
    /\ At(g, "exit")
    /\ lock' = lock \ {g}
    /\ Become(g, Dead)
    /\ UNCHANGED <<meta, crashes>>
    /\ UnchangedCommands

ServiceStep(g) ==
    \/ \E ready \in BOOLEAN : Boot(g, ready)
    \/ Coordinate(g)
    \/ \E failing \in BOOLEAN : CoordinatorReports(g, failing)
    \/ LeaveLoop(g)
    \/ JoinSlots(g)
    \/ JoinWatcher(g)
    \/ End(g)
    \/ Exit(g)
SlotStep(g, s) ==
    \/ Pull(g, s)
    \/ FailOutside(g, s)
    \/ \E next \in {"free", "raised"} : Release(g, s, next)
WatcherStep(g) == Watch(g) \/ WatcherReports(g)

-----------------------------------------------------------------------------
\* A process is killed: its files are closed, and the metadata stays.
Killed == crashes < MaxCrashes /\ crashes' = crashes + 1

KillService(g) ==
    /\ Alive(g)
    /\ Killed
    /\ lock' = lock \ {g}
    /\ Become(g, Dead)
    /\ UNCHANGED <<meta, request, command, launched>>

KillCommand(k) ==
    /\ command[k].at # "idle"
    /\ Killed
    /\ lock' = lock \ {k}
    /\ command' = [command EXCEPT ![k] = Idle]
    /\ UNCHANGED <<meta, request, service, launched>>

Next ==
    \/ \E k \in Commands : CommandStep(k) \/ KillCommand(k)
    \/ \E g \in Generations :
          \/ ServiceStep(g)
          \/ \E s \in Slots : SlotStep(g, s)
          \/ WatcherStep(g)
          \/ KillService(g)

Spec == Init /\ [][Next]_vars

\* The threads of a service run.  For a slot this assumes that its Worker's
\* invoke returns, by an answer or an exception: the runtime sets no timeout.
Fairness ==
    \A g \in Generations :
        /\ WF_vars(ServiceStep(g))
        /\ WF_vars(WatcherStep(g))
        /\ \A s \in Slots : WF_vars(SlotStep(g, s))
FairSpec == Spec /\ Fairness

-----------------------------------------------------------------------------
(* Properties.                                                              *)

\* However commands overlap and whoever is killed, one service process at most
\* is alive in a workspace, and nobody reserves a generation beside it.
OneService ==
    /\ \A g, h \in Generations : Alive(g) /\ Alive(h) => g = h
    /\ \A k \in Commands, g \in Generations :
          Command(k, {"start"}, "write") => ~Alive(g)

\* docs/reference/local-fleet-service.md: the metadata of a generation moves
\* forward, from starting to ready, to stopping and to an end, and its end is
\* final, whatever late callbacks report.
Phase(state) ==
    CASE state = "starting" -> 1 [] state = "ready" -> 2 [] state = "stopping" -> 3
      [] state \in Ended -> 4 [] OTHER -> 0

MetadataMovesForward ==
    [][meta'.generation = meta.generation =>
          meta' = meta \/ Phase(meta.state) < Phase(meta'.state)]_vars

\* An end is reported after the slots have drained and the watcher has exited.
EndedIsDrained ==
    \A g \in Generations :
        meta.generation = g /\ meta.state \in Ended /\ Alive(g) =>
            /\ \A s \in Slots : service[g].slots[s] # "busy"
            /\ service[g].watcher # "closing"

\* A stop that answers "stopped" or "failed" has seen the process of that
\* generation gone, so that a restart never starts beside a draining one.
AnsweredStopHasEnded ==
    \A k \in Commands :
        /\ Command(k, {"stop"}, "unlock")
        /\ command[k].answer \in Ended
        /\ command[k].generation # 0
        => ~Alive(command[k].generation)

\* A stop request for the live service is heard: the service ends, unless another
\* request replaces it.  (It waits for the Workers it has invoked.)
StopIsHeard ==
    \A g \in Generations :
        (request = g /\ Alive(g) /\ ~At(g, "boot")) ~> (~Alive(g) \/ request # g)
=============================================================================
