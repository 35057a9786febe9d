------------------------- MODULE FleetServiceProofs -------------------------
(***************************************************************************)
(* Theorems about FleetService, for every number of commands, slots,       *)
(* generations and killed processes.                                       *)
(*                                                                         *)
(* One service at most is alive because an alive service has the lock open *)
(* (AliveHolds), and because a command that may launch one, or that        *)
(* answers that one has ended, holds the lock alone (Alone).  The end is   *)
(* reported when it is final because a service that reports it is about to *)
(* exit (EndedExits) and has been joined before (Joins).                   *)
(***************************************************************************)
EXTENDS FleetService, TLAPS

\* What the threads of one service have done when it is at a step.
Joins(r) ==
    /\ r.at \in {"none", "boot"} =>
          r.watcher = "watching" /\ \A s \in Slots : r.slots[s] = "free"
    /\ r.at = "dead" => r.watcher = "watching"
    /\ r.at \in {"watcher", "end"} => \A s \in Slots : r.slots[s] \in {"returned", "raised"}
    /\ r.at = "end" => r.watcher = "gone"
    /\ r.at = "exit" => r.watcher # "closing" /\ \A s \in Slots : r.slots[s] # "busy"

\* A command that reserves, launches or answers has the lock for itself, and
\* launches a generation that nobody has launched.
Alone(k, c) ==
    /\ c.at \in {"write", "launch", "unlock"} => lock = {k}
    /\ c.at = "write" => launched < MaxGeneration
    /\ c.at = "launch" =>
          /\ c.generation = launched /\ launched \in Generations
          /\ service[launched].at = "none" /\ meta.state = "starting"

ServicesJoin == \A g \in Generations : Joins(service[g])
CommandsAlone == \A k \in Commands : Alone(k, command[k])
AliveHolds == \A g \in Generations : Alive(g) => g \in lock
OneOpen == \A g, h \in Generations : g \in lock /\ h \in lock => g = h
NotYet == \A g \in Generations : g > launched => service[g].at = "none"
MetaLaunched == meta.generation <= launched
EndedExits ==
    \A g \in Generations :
        meta.generation = g /\ meta.state \in Ended /\ Alive(g) => At(g, "exit")

IInv == TypeOK /\ ServicesJoin /\ CommandsAlone /\ AliveHolds /\ OneOpen /\ NotYet
        /\ MetaLaunched /\ EndedExits

-----------------------------------------------------------------------------
LEMMA Disjoint ==
    ASSUME NEW k \in Commands, NEW g \in Generations
    PROVE  k # g
BY FleetAssumption

LEMMA IdleTyped == Idle \in CommandStates
BY FleetAssumption DEF Idle, CommandStates, Ops, Answers, ServiceStates

LEMMA NoServiceTyped ==
    /\ NoService \in ServiceRecords /\ Joins(NoService) /\ NoService.at = "none"
    /\ Dead \in ServiceRecords /\ Joins(Dead) /\ Dead.at = "dead"
BY DEF NoService, Dead, ServiceRecords, Joins

LEMMA ReportedTyped ==
    ASSUME TypeOK, NEW g \in 0 .. MaxGeneration, NEW state \in ServiceStates
    PROVE  /\ Reported(g, state) \in [generation : 0 .. MaxGeneration,
                                      state : {"none"} \cup ServiceStates]
           /\ Reported(g, state).generation = meta.generation
           /\ \/ Reported(g, state) = meta
              \/ /\ meta.generation = g
                 /\ <<meta.state, state>> \in Transitions
                 /\ Reported(g, state).state = state
BY DEF TypeOK, Reported

-----------------------------------------------------------------------------
(* The service.                                                             *)

\* A step of an alive service or of its end.
ServiceFrame(g) ==
    \E r \in ServiceRecords :
        /\ service' = [service EXCEPT ![g] = r]
        /\ Alive(g)
        /\ Joins(r)
        /\ r.at \notin {"none", "boot"} \/ r.at = service[g].at
        /\ lock' = IF r.at = "dead" THEN lock \ {g} ELSE lock
        /\ At(g, "exit") => r.at \in {"exit", "dead"}
        /\ \/ meta' = meta
           \/ \E state \in ServiceStates :
                 meta' = Reported(g, state) /\ (state \in Ended => r.at = "exit")
        /\ UNCHANGED <<request, command, launched>>
        /\ crashes' \in 0 .. MaxCrashes

\* A step that keeps the lock and counts no crash.
LEMMA Frame ==
    ASSUME TypeOK, NEW g \in Generations, Alive(g), NEW r \in ServiceRecords,
           service' = [service EXCEPT ![g] = r], Joins(r),
           r.at \notin {"none", "boot", "dead"},
           At(g, "exit") => r.at = "exit",
           \/ meta' = meta
           \/ \E state \in ServiceStates :
                 meta' = Reported(g, state) /\ (state \in Ended => r.at = "exit"),
           UNCHANGED <<lock, crashes>>, UnchangedCommands
    PROVE  ServiceFrame(g)
<1>1. crashes' \in 0 .. MaxCrashes /\ UNCHANGED <<request, command, launched>>
    BY DEF TypeOK, UnchangedCommands
<1> QED BY <1>1 DEF ServiceFrame

LEMMA ServiceSteps ==
    ASSUME TypeOK, ServicesJoin, NEW g \in Generations,
           ServiceStep(g) \/ (\E s \in Slots : SlotStep(g, s)) \/ WatcherStep(g) \/ KillService(g)
    PROVE  ServiceFrame(g)
<1>0. /\ service \in [Generations -> ServiceRecords]
      /\ service[g] \in ServiceRecords /\ Joins(service[g])
    BY DEF TypeOK, ServicesJoin
<1> USE DEF At, Alive
<1>1. ASSUME NEW ready \in BOOLEAN, Boot(g, ready) PROVE ServiceFrame(g)
  <2> DEFINE r == [service[g] EXCEPT !.at = IF ready THEN "check" ELSE "exit"]
  <2>1. r \in ServiceRecords /\ Joins(r) /\ r.at = (IF ready THEN "check" ELSE "exit")
    BY <1>0, <1>1 DEF ServiceRecords, Joins, Boot
  <2>2. service' = [service EXCEPT ![g] = r]
    BY <1>1 DEF Boot
  <2> HIDE DEF r
  <2>3. \E state \in ServiceStates :
            meta' = Reported(g, state) /\ (state \in Ended => r.at = "exit")
    <3> DEFINE state == IF ready THEN "ready" ELSE "failed"
    <3>1. state \in ServiceStates /\ meta' = Reported(g, state)
      BY <1>1 DEF Boot, ServiceStates, Ended
    <3>2. state \in Ended => r.at = "exit"
      BY <2>1 DEF Ended
    <3> HIDE DEF state
    <3> QED BY <3>1, <3>2
  <2> QED BY <2>1, <2>2, <1>1, <2>3, Frame DEF Boot
<1>2. CASE Coordinate(g)
  <2> DEFINE stops == request = g \/ SomeRaised(g)
             closed == service[g].closed \/ stops
             r == [service[g] EXCEPT !.closed = closed, !.stop = @ \/ stops,
                                     !.seen = closed, !.at = "write"]
  <2>1. r \in ServiceRecords /\ Joins(r) /\ r.at = "write"
    <3>1. stops \in BOOLEAN /\ closed \in BOOLEAN /\ (service[g].stop \/ stops) \in BOOLEAN
      BY DEF SomeRaised
    <3> HIDE DEF stops, closed
    <3> QED BY <3>1, <1>0 DEF ServiceRecords, Joins
  <2>2. service' = [service EXCEPT ![g] = r]
    BY <1>2 DEF Coordinate, Become
  <2> HIDE DEF r
  <2> QED BY <2>1, <2>2, <1>2, Frame DEF Coordinate
<1>3. ASSUME NEW failing \in BOOLEAN, CoordinatorReports(g, failing) PROVE ServiceFrame(g)
  <2> DEFINE r == [service[g] EXCEPT !.at = IF failing THEN "join" ELSE "check",
                                    !.seen = FALSE, !.failing = failing,
                                    !.closed = @ \/ failing, !.stop = @ \/ failing]
  <2>1. r \in ServiceRecords /\ Joins(r) /\ r.at \in {"join", "check"}
    BY <1>0 DEF ServiceRecords, Joins
  <2>2. service' = [service EXCEPT ![g] = r]
    BY <1>3 DEF CoordinatorReports, Become
  <2> HIDE DEF r
  <2>3. \E state \in ServiceStates :
            meta' = Reported(g, state) /\ (state \in Ended => r.at = "exit")
    <3> DEFINE state == IF service[g].seen THEN "stopping" ELSE "ready"
    <3>1. state \in ServiceStates /\ meta' = Reported(g, state)
      BY <1>3 DEF CoordinatorReports, ServiceStates, Ended
    <3>2. state \in Ended => r.at = "exit"
      BY <2>1 DEF Ended
    <3> HIDE DEF state
    <3> QED BY <3>1, <3>2
  <2> QED BY <2>1, <2>2, <1>3, <2>3, Frame DEF CoordinatorReports
<1>4. CASE LeaveLoop(g)
  <2> DEFINE r == [service[g] EXCEPT !.at = "join", !.closed = TRUE, !.stop = TRUE]
  <2>1. r \in ServiceRecords /\ Joins(r) /\ r.at = "join"
    BY <1>0 DEF ServiceRecords, Joins
  <2>2. service' = [service EXCEPT ![g] = r]
    BY <1>4 DEF LeaveLoop, Become
  <2> HIDE DEF r
  <2> QED BY <2>1, <2>2, <1>4, Frame DEF LeaveLoop
<1>5. CASE JoinSlots(g)
  <2> DEFINE r == [service[g] EXCEPT !.at = "watcher", !.failing = @ \/ SomeRaised(g)]
  <2>1. r \in ServiceRecords /\ Joins(r) /\ r.at = "watcher"
    <3>1. (service[g].failing \/ SomeRaised(g)) \in BOOLEAN
      BY DEF SomeRaised
    <3>2. \A s \in Slots : service[g].slots[s] \in {"returned", "raised"}
      BY <1>5 DEF JoinSlots, Joined, AllReturned
    <3> QED BY <3>1, <3>2, <1>0 DEF ServiceRecords, Joins
  <2>2. service' = [service EXCEPT ![g] = r]
    BY <1>5 DEF JoinSlots, Become
  <2> HIDE DEF r
  <2> QED BY <2>1, <2>2, <1>5, Frame DEF JoinSlots
<1>6. CASE JoinWatcher(g)
  <2> DEFINE r == [service[g] EXCEPT !.at = "end"]
  <2>1. r \in ServiceRecords /\ Joins(r) /\ r.at = "end"
    BY <1>0, <1>6 DEF ServiceRecords, Joins, JoinWatcher
  <2>2. service' = [service EXCEPT ![g] = r]
    BY <1>6 DEF JoinWatcher
  <2> HIDE DEF r
  <2> QED BY <2>1, <2>2, <1>6, Frame DEF JoinWatcher
<1>7. CASE End(g)
  <2> DEFINE r == [service[g] EXCEPT !.at = "exit"]
  <2>1. r \in ServiceRecords /\ Joins(r) /\ r.at = "exit"
    BY <1>0, <1>7 DEF ServiceRecords, Joins, End
  <2>2. service' = [service EXCEPT ![g] = r]
    BY <1>7 DEF End
  <2> HIDE DEF r
  <2> QED BY <2>1, <2>2, <1>7, Frame DEF End, ServiceStates, Ended
<1>8. CASE Exit(g) \/ KillService(g)
  <2>1. /\ service' = [service EXCEPT ![g] = Dead] /\ lock' = lock \ {g} /\ meta' = meta
        /\ UNCHANGED <<request, command, launched>> /\ Alive(g)
    BY <1>8 DEF Exit, KillService, Become, UnchangedCommands
  <2>2. crashes' \in 0 .. MaxCrashes
    BY <1>8, FleetAssumption DEF Exit, KillService, Killed, TypeOK
  <2> QED BY <2>1, <2>2, NoServiceTyped DEF ServiceFrame
<1>9. ASSUME NEW s \in Slots, NEW to \in {"free", "busy", "returned", "raised"}, Serving(g),
             service' = [service EXCEPT ![g].slots[s] = to],
             UNCHANGED <<meta, lock, crashes>>, UnchangedCommands
      PROVE  ServiceFrame(g)
  <2> DEFINE r == [service[g] EXCEPT !.slots[s] = to]
  <2>1. r \in ServiceRecords /\ r.at = service[g].at
    BY <1>0 DEF ServiceRecords
  <2>2. service' = [service EXCEPT ![g] = r]
    BY <1>9
  <2>3. Joins(r)
    BY <2>1, <1>9 DEF Serving, Joins
  <2> HIDE DEF r
  <2> QED BY <2>1, <2>2, <2>3, <1>9, Frame DEF Serving
<1>10. ASSUME NEW s \in Slots, SlotStep(g, s) PROVE ServiceFrame(g)
  <2>1. CASE Pull(g, s)
    <3>1. (IF Admits(g) THEN "busy" ELSE "returned") \in {"free", "busy", "returned", "raised"}
      OBVIOUS
    <3> QED BY <2>1, <3>1, <1>9 DEF Pull
  <2>2. ASSUME NEW next \in {"free", "raised"}, Release(g, s, next) PROVE ServiceFrame(g)
    BY <2>2, <1>9 DEF Release
  <2>3. CASE FailOutside(g, s)
    BY <2>3, <1>9 DEF FailOutside
  <2> QED BY <2>1, <2>2, <2>3, <1>10 DEF SlotStep
<1>11. CASE Watch(g)
  <2>1. CASE request = g /\ service' = [service EXCEPT ![g].closed = TRUE, ![g].watcher = "closing"]
    <3> DEFINE r == [service[g] EXCEPT !.closed = TRUE, !.watcher = "closing"]
    <3>1. r \in ServiceRecords /\ Joins(r) /\ r.at = service[g].at
      BY <1>0, <1>11 DEF ServiceRecords, Joins, Watch, Serving
    <3>2. service' = [service EXCEPT ![g] = r]
      BY <2>1, <1>0
    <3> HIDE DEF r
    <3> QED BY <3>1, <3>2, <1>11, Frame DEF Watch, Serving
  <2>2. CASE service' = [service EXCEPT ![g].watcher = "gone"]
    <3> DEFINE r == [service[g] EXCEPT !.watcher = "gone"]
    <3>1. r \in ServiceRecords /\ Joins(r) /\ r.at = service[g].at
      BY <1>0, <1>11 DEF ServiceRecords, Joins, Watch, Serving
    <3>2. service' = [service EXCEPT ![g] = r]
      BY <2>2, <1>0
    <3> HIDE DEF r
    <3> QED BY <3>1, <3>2, <1>11, Frame DEF Watch, Serving
  <2> QED BY <2>1, <2>2, <1>11 DEF Watch
<1>12. CASE WatcherReports(g)
  <2> DEFINE r == [service[g] EXCEPT !.watcher = "gone", !.stop = TRUE]
  <2>1. service[g].at \in {"check", "write", "join", "watcher"}
    BY <1>0, <1>12 DEF ServiceRecords, Joins, WatcherReports
  <2>2. r \in ServiceRecords /\ Joins(r) /\ r.at = service[g].at
    BY <1>0, <2>1 DEF ServiceRecords, Joins
  <2>3. service' = [service EXCEPT ![g] = r]
    BY <1>0, <1>12 DEF WatcherReports
  <2> HIDE DEF r
  <2>5. \E state \in ServiceStates :
            meta' = Reported(g, state) /\ (state \in Ended => r.at = "exit")
    <3> DEFINE state == "stopping"
    <3>1. state \in ServiceStates /\ meta' = Reported(g, state)
      BY <1>12 DEF WatcherReports, ServiceStates, Ended
    <3>2. state \in Ended => r.at = "exit"
      BY <2>1 DEF Ended
    <3> HIDE DEF state
    <3> QED BY <3>1, <3>2
  <2> QED BY <2>1, <2>2, <2>3, <1>12, <2>5, Frame DEF WatcherReports
<1> QED
    BY <1>1, <1>2, <1>3, <1>4, <1>5, <1>6, <1>7, <1>8, <1>10, <1>11, <1>12
    DEF ServiceStep, WatcherStep

-----------------------------------------------------------------------------
(* The commands.                                                            *)

Reserved == {"write", "launch", "unlock"}

\* A step of a command that starts nothing.
QuietFrame(k) ==
    \E c \in CommandStates :
        /\ command' = [command EXCEPT ![k] = c]
        /\ \/ lock' \in {lock, lock \ {k}} /\ c.at \notin Reserved
           \/ /\ lock = {} /\ lock' = {k} /\ c.at \in {"write", "unlock"}
              /\ c.at = "write" => launched < MaxGeneration
        /\ request' \in 0 .. MaxGeneration
        /\ crashes' \in 0 .. MaxCrashes
        /\ UNCHANGED <<service, launched>>
        /\ meta' = meta \/ (meta' = Reported(command[k].generation, "failed")
                            /\ command[k].at = "launch")

LEMMA Quiet ==
    ASSUME TypeOK, NEW k \in Commands, NEW c \in CommandStates,
           command' = [command EXCEPT ![k] = c],
           \/ lock' \in {lock, lock \ {k}} /\ c.at \notin Reserved
           \/ /\ lock = {} /\ lock' = {k} /\ c.at \in {"write", "unlock"}
              /\ c.at = "write" => launched < MaxGeneration,
           request' = request \/ request' = command[k].generation,
           UNCHANGED <<service, launched, crashes>>,
           meta' = meta \/ (meta' = Reported(command[k].generation, "failed")
                            /\ command[k].at = "launch")
    PROVE  QuietFrame(k)
<1>1. request' \in 0 .. MaxGeneration /\ crashes' \in 0 .. MaxCrashes
    BY DEF TypeOK, CommandStates
<1> QED BY <1>1 DEF QuietFrame

LEMMA ReturnMoves ==
    ASSUME TypeOK, NEW k \in Commands, NEW answer, Return(k, answer)
    PROVE  \E c \in CommandStates :
              command' = [command EXCEPT ![k] = c] /\ c.at \notin Reserved
<1>1. AfterStop(answer) \in CommandStates /\ AfterStop(answer).at \notin Reserved
    BY IdleTyped DEF AfterStop, Idle, CommandStates, Ops, Reserved
<1>2. Idle \in CommandStates /\ Idle.at \notin Reserved
    BY IdleTyped DEF Idle, Reserved
<1>3. \/ command' = [command EXCEPT ![k] = AfterStop(answer)]
      \/ command' = [command EXCEPT ![k] = Idle]
    BY DEF Return
<1> QED BY <1>1, <1>2, <1>3

\* The launch that succeeds.
Starts(k) ==
    LET g == command[k].generation
    IN  /\ Command(k, {"start"}, "launch")
        /\ lock' = Held(k, g)
        /\ service' = [service EXCEPT ![g].at = "boot"]
        /\ Goto(k, "await")
        /\ UNCHANGED <<meta, request, launched, crashes>>

LEMMA CommandSteps ==
    ASSUME TypeOK, NEW k \in Commands, CommandStep(k) \/ KillCommand(k)
    PROVE  QuietFrame(k) \/ WriteStarting(k) \/ Starts(k)
<1>0. /\ command \in [Commands -> CommandStates] /\ command[k] \in CommandStates
      /\ command[k].generation \in 0 .. MaxGeneration
      /\ command[k].seen \in {"none"} \cup ServiceStates
      /\ meta.generation \in 0 .. MaxGeneration /\ meta.state \in {"none"} \cup ServiceStates
    BY DEF TypeOK, CommandStates
<1> USE DEF Command
<1>1. ASSUME NEW op \in {"start", "stop"}, NEW restart \in BOOLEAN, Begin(k, op, restart)
      PROVE  QuietFrame(k)
  <2> DEFINE c == [Idle EXCEPT !.op = op, !.restart = restart,
                               !.at = IF op = "start" THEN "try" ELSE "read"]
  <2>1. c \in CommandStates /\ c.at \notin Reserved
    BY IdleTyped DEF Idle, CommandStates, Ops, Reserved
  <2>2. command' = [command EXCEPT ![k] = c]
    BY <1>1 DEF Begin
  <2> HIDE DEF c
  <2> QED BY <2>1, <2>2, <1>1, Quiet DEF Begin
<1>2. CASE ReadState(k)
  <2> DEFINE c == [command[k] EXCEPT !.at = "try", !.generation = meta.generation,
                                     !.seen = meta.state]
  <2>1. c \in CommandStates /\ c.at = "try"
    BY <1>0 DEF CommandStates
  <2>2. command' = [command EXCEPT ![k] = c]
    BY <1>0, <1>2 DEF ReadState
  <2> HIDE DEF c
  <2> QED BY <2>1, <2>2, <1>2, Quiet DEF ReadState, Reserved
<1>3. CASE TryStart(k)
  <2>1. CASE lock = {} /\ launched < MaxGeneration /\ lock' = {k} /\ Goto(k, "write")
    <3> DEFINE c == [command[k] EXCEPT !.at = "write"]
    <3>1. c \in CommandStates /\ c.at = "write"
      BY <1>0 DEF CommandStates
    <3>2. command' = [command EXCEPT ![k] = c]
      BY <2>1 DEF Goto
    <3> HIDE DEF c
    <3> QED BY <3>1, <3>2, <2>1, <1>3, Quiet DEF TryStart
  <2>2. ASSUME NEW answer, Return(k, answer), UNCHANGED lock PROVE QuietFrame(k)
    <3>1. PICK c \in CommandStates : command' = [command EXCEPT ![k] = c] /\ c.at \notin Reserved
      BY <2>2, ReturnMoves
    <3> QED BY <3>1, <2>2, <1>3, Quiet DEF TryStart
  <2> QED BY <2>1, <2>2, <1>3 DEF TryStart
<1>4. CASE Launch(k)
  <2> DEFINE g == command[k].generation
  <2>1. CASE /\ lock' = Held(k, g) /\ service' = [service EXCEPT ![g].at = "boot"]
             /\ Goto(k, "await") /\ UNCHANGED meta
    BY <2>1, <1>4 DEF Launch, Starts
  <2>2. CASE /\ meta' = Reported(g, "failed") /\ lock' = lock \ {k} /\ Return(k, "error")
             /\ UNCHANGED service
    <3>1. PICK c \in CommandStates : command' = [command EXCEPT ![k] = c] /\ c.at \notin Reserved
      BY <2>2, ReturnMoves
    <3> QED BY <3>1, <2>2, <1>4, Quiet DEF Launch
  <2> QED BY <2>1, <2>2, <1>4 DEF Launch
<1>5. ASSUME NEW answer \in {"ready", "error"}, Await(k, answer) PROVE QuietFrame(k)
  <2>1. PICK c \in CommandStates : command' = [command EXCEPT ![k] = c] /\ c.at \notin Reserved
    BY <1>5, ReturnMoves DEF Await
  <2> QED BY <2>1, <1>5, Quiet DEF Await
<1>6. ASSUME NEW answer \in Answers, TakeAndAnswer(k, answer), UNCHANGED <<service, launched, crashes, request, meta>>
      PROVE  QuietFrame(k)
  <2> DEFINE c == [command[k] EXCEPT !.at = "unlock", !.answer = answer]
  <2>1. c \in CommandStates /\ c.at = "unlock"
    BY <1>0, <1>6 DEF CommandStates
  <2>2. command' = [command EXCEPT ![k] = c]
    BY <1>0, <1>6 DEF TakeAndAnswer
  <2> HIDE DEF c
  <2> QED BY <2>1, <2>2, <1>6, Quiet DEF TakeAndAnswer
<1>7. ASSUME NEW answer, Return(k, answer), lock' \in {lock, lock \ {k}},
             UNCHANGED <<service, launched, crashes, request, meta>>
      PROVE  QuietFrame(k)
  <2>1. PICK c \in CommandStates : command' = [command EXCEPT ![k] = c] /\ c.at \notin Reserved
    BY <1>7, ReturnMoves
  <2> QED BY <2>1, <1>7, Quiet
<1>8. ASSUME Waits(k), UNCHANGED lock, UNCHANGED <<service, launched, crashes, meta>>,
             request' = request \/ request' = command[k].generation
      PROVE  QuietFrame(k)
  <2> DEFINE c == [command[k] EXCEPT !.at = "wait", !.seen = "none"]
  <2>1. c \in CommandStates /\ c.at = "wait"
    BY <1>0 DEF CommandStates
  <2>2. command' = [command EXCEPT ![k] = c]
    BY <1>0, <1>8 DEF Waits
  <2> HIDE DEF c
  <2> QED BY <2>1, <2>2, <1>8, Quiet DEF Reserved
<1>9. CASE Unlock(k)
    BY <1>9, <1>7 DEF Unlock
<1>10. CASE Try(k)
  <2>1. CASE TakeAndAnswer(k, Unowned(command[k].op, command[k].seen)) /\ UNCHANGED request
    <3>1. Unowned(command[k].op, command[k].seen) \in Answers
      BY <1>0 DEF Unowned, Answers, ServiceStates, Ended
    <3> QED BY <2>1, <3>1, <1>6, <1>10 DEF Try
  <2>2. ASSUME NEW answer, Return(k, answer), UNCHANGED <<request, lock>> PROVE QuietFrame(k)
    BY <2>2, <1>7, <1>10 DEF Try
  <2>3. CASE Waits(k) /\ request' = command[k].generation /\ UNCHANGED lock
    BY <2>3, <1>8, <1>10 DEF Try
  <2> QED BY <2>1, <2>2, <2>3, <1>10 DEF Try
<1>11. CASE Wait(k)
  <2>0. UNCHANGED <<meta, request, lock, service, launched, crashes>>
    BY <1>11 DEF Wait
  <2>1. CASE command' = [command EXCEPT ![k].op = "status", ![k].at = "read"]
    <3> DEFINE c == [command[k] EXCEPT !.op = "status", !.at = "read"]
    <3>1. c \in CommandStates /\ c.at = "read"
      BY <1>0 DEF CommandStates, Ops
    <3>2. command' = [command EXCEPT ![k] = c]
      BY <1>0, <2>1
    <3> HIDE DEF c
    <3> QED BY <3>1, <3>2, <2>0, Quiet DEF Reserved
  <2>2. CASE command' = [command EXCEPT ![k] = AfterEnd(command[k])]
    <3> DEFINE c == [command[k] EXCEPT !.at = "probe", !.seen = meta.state]
    <3>1. c \in CommandStates /\ c.at = "probe"
      BY <1>0 DEF CommandStates
    <3>2. command' = [command EXCEPT ![k] = c]
      BY <2>2 DEF AfterEnd
    <3> HIDE DEF c
    <3> QED BY <3>1, <3>2, <2>0, Quiet DEF Reserved
  <2>3. CASE Return(k, "stopping")
    BY <2>0, <2>3, <1>7
  <2> QED BY <2>1, <2>2, <2>3, <1>11 DEF Wait
<1>12. CASE Probe(k)
  <2>1. CASE TakeAndAnswer(k, command[k].seen)
    <3>1. command[k].seen \in Answers
      BY <1>0 DEF Answers
    <3> QED BY <2>1, <3>1, <1>6, <1>12 DEF Probe
  <2>2. CASE Waits(k) /\ UNCHANGED lock
    BY <2>2, <1>8, <1>12 DEF Probe
  <2> QED BY <2>1, <2>2, <1>12 DEF Probe
<1>13. CASE KillCommand(k)
  <2>1. crashes' \in 0 .. MaxCrashes /\ request' \in 0 .. MaxGeneration
    BY <1>13, FleetAssumption DEF KillCommand, Killed, TypeOK
  <2>2. command' = [command EXCEPT ![k] = Idle] /\ lock' = lock \ {k}
        /\ UNCHANGED <<meta, service, launched>>
    BY <1>13 DEF KillCommand
  <2>3. Idle \in CommandStates /\ Idle.at \notin Reserved
    BY IdleTyped DEF Idle, Reserved
  <2> QED BY <2>1, <2>2, <2>3 DEF QuietFrame
<1> QED
    BY <1>1, <1>2, <1>3, <1>4, <1>5, <1>9, <1>10, <1>11, <1>12, <1>13 DEF CommandStep

-----------------------------------------------------------------------------
(* The invariant.                                                           *)

\* While a command has the lock for itself, no service is alive and no other
\* command reserves anything.
LEMMA NobodyBeside ==
    ASSUME IInv, NEW k \in Commands, command[k].at \in Reserved
    PROVE  /\ lock = {k}
           /\ \A g \in Generations : ~Alive(g)
           /\ \A j \in Commands : j # k => command[j].at \notin Reserved
<1>1. lock = {k}
    BY DEF IInv, CommandsAlone, Alone, Reserved
<1>2. \A g \in Generations : ~Alive(g)
    BY <1>1, Disjoint DEF IInv, AliveHolds
<1>3. \A j \in Commands : command[j].at \in Reserved => lock = {j}
    BY DEF IInv, CommandsAlone, Alone, Reserved
<1> QED BY <1>1, <1>2, <1>3

LEMMA ServiceKeeps ==
    ASSUME IInv, NEW g \in Generations, ServiceFrame(g)
    PROVE  IInv'
<1>1. PICK r \in ServiceRecords :
        /\ service' = [service EXCEPT ![g] = r]
        /\ Alive(g)
        /\ Joins(r)
        /\ r.at \notin {"none", "boot"} \/ r.at = service[g].at
        /\ lock' = IF r.at = "dead" THEN lock \ {g} ELSE lock
        /\ At(g, "exit") => r.at \in {"exit", "dead"}
        /\ \/ meta' = meta
           \/ \E state \in ServiceStates :
                 meta' = Reported(g, state) /\ (state \in Ended => r.at = "exit")
        /\ UNCHANGED <<request, command, launched>>
        /\ crashes' \in 0 .. MaxCrashes
    BY DEF ServiceFrame
<1>2. /\ service \in [Generations -> ServiceRecords]
      /\ service'[g] = r /\ \A h \in Generations : h # g => service'[h] = service[h]
      /\ service' \in [Generations -> ServiceRecords]
    BY <1>1 DEF IInv, TypeOK
<1>3. /\ meta' \in [generation : 0 .. MaxGeneration, state : {"none"} \cup ServiceStates]
      /\ meta'.generation = meta.generation
      /\ \/ meta' = meta
         \/ meta.generation = g /\ (meta'.state \in Ended => r.at = "exit")
    <2>1. g \in 0 .. MaxGeneration
        BY FleetAssumption DEF Generations
    <2>2. CASE meta' = meta
        BY <2>2 DEF IInv, TypeOK
    <2>3. ASSUME NEW state \in ServiceStates, meta' = Reported(g, state),
                 state \in Ended => r.at = "exit"
          PROVE  /\ meta' \in [generation : 0 .. MaxGeneration,
                               state : {"none"} \cup ServiceStates]
                 /\ meta'.generation = meta.generation
                 /\ \/ meta' = meta
                    \/ meta.generation = g /\ (meta'.state \in Ended => r.at = "exit")
        BY <2>1, <2>3, ReportedTyped DEF IInv
    <2> QED BY <1>1, <2>2, <2>3
<1>4. TypeOK'
    BY <1>1, <1>2, <1>3 DEF IInv, TypeOK
<1>5. ServicesJoin'
    BY <1>1, <1>2 DEF IInv, ServicesJoin
<1>6. CommandsAlone'
  <2>1. \A k \in Commands : command[k].at \notin Reserved
    BY <1>1, NobodyBeside
  <2> QED BY <1>1, <2>1 DEF CommandsAlone, Alone, Reserved
<1>7. AliveHolds'
  <2>1. SUFFICES ASSUME NEW h \in Generations, service'[h].at \notin {"none", "dead"}
                 PROVE  h \in lock'
    BY DEF AliveHolds, Alive
  <2>2. h \in lock
    BY <1>1, <1>2, <2>1 DEF IInv, AliveHolds, Alive
  <2> QED BY <1>1, <1>2, <2>1, <2>2
<1>8. OneOpen'
    BY <1>1 DEF IInv, OneOpen
<1>9. NotYet'
    BY <1>1, <1>2 DEF IInv, NotYet, Alive
<1>10. MetaLaunched'
    BY <1>1, <1>3 DEF IInv, MetaLaunched
<1>11. EndedExits'
  <2>1. SUFFICES ASSUME NEW h \in Generations, meta'.generation = h, meta'.state \in Ended,
                        service'[h].at \notin {"none", "dead"}
                 PROVE  service'[h].at = "exit"
    BY DEF EndedExits, Alive, At
  <2>2. CASE meta' = meta
    <3>1. meta.state \in Ended /\ meta.generation = h
      BY <2>1, <2>2
    <3>2. CASE h = g
      <4>1. At(g, "exit")
        BY <1>1, <3>1, <3>2 DEF IInv, EndedExits
      <4> QED BY <1>1, <1>2, <2>1, <3>2, <4>1
    <3>3. CASE h # g
      BY <1>2, <2>1, <3>1, <3>3 DEF IInv, EndedExits, Alive, At
    <3> QED BY <3>2, <3>3
  <2>3. CASE meta.generation = g /\ (meta'.state \in Ended => r.at = "exit")
    BY <1>2, <1>3, <2>1, <2>3
  <2> QED BY <1>3, <2>2, <2>3
<1> QED BY <1>4, <1>5, <1>6, <1>7, <1>8, <1>9, <1>10, <1>11 DEF IInv

LEMMA QuietKeeps ==
    ASSUME IInv, NEW k \in Commands, QuietFrame(k)
    PROVE  IInv'
<1>1. PICK c \in CommandStates :
        /\ command' = [command EXCEPT ![k] = c]
        /\ \/ lock' \in {lock, lock \ {k}} /\ c.at \notin Reserved
           \/ /\ lock = {} /\ lock' = {k} /\ c.at \in {"write", "unlock"}
              /\ c.at = "write" => launched < MaxGeneration
        /\ request' \in 0 .. MaxGeneration
        /\ crashes' \in 0 .. MaxCrashes
        /\ UNCHANGED <<service, launched>>
        /\ meta' = meta \/ (meta' = Reported(command[k].generation, "failed")
                            /\ command[k].at = "launch")
    BY DEF QuietFrame
<1>2. /\ command \in [Commands -> CommandStates]
      /\ command'[k] = c /\ \A j \in Commands : j # k => command'[j] = command[j]
      /\ command' \in [Commands -> CommandStates]
    BY <1>1 DEF IInv, TypeOK
<1>3. /\ meta' \in [generation : 0 .. MaxGeneration, state : {"none"} \cup ServiceStates]
      /\ meta'.generation = meta.generation
    <2>1. command[k].generation \in 0 .. MaxGeneration /\ "failed" \in ServiceStates
        BY <1>2 DEF CommandStates, ServiceStates, Ended
    <2>2. CASE meta' = meta
        BY <2>2 DEF IInv, TypeOK
    <2>3. CASE meta' = Reported(command[k].generation, "failed")
        BY <2>1, <2>3, ReportedTyped DEF IInv
    <2> QED BY <1>1, <2>2, <2>3
<1>4. meta' # meta => command[k].at \in Reserved
    BY <1>1 DEF Reserved
<1>5. TypeOK'
    BY <1>1, <1>2, <1>3 DEF IInv, TypeOK
<1>6. ServicesJoin' /\ NotYet' /\ MetaLaunched'
    BY <1>1, <1>3 DEF IInv, ServicesJoin, NotYet, MetaLaunched
<1>7. CommandsAlone'
  <2>1. SUFFICES ASSUME NEW j \in Commands, command'[j].at \in Reserved
                 PROVE  /\ lock' = {j}
                        /\ command'[j].at = "write" => launched < MaxGeneration
                        /\ command'[j].at = "launch" =>
                              /\ command'[j].generation = launched /\ launched \in Generations
                              /\ service[launched].at = "none" /\ meta'.state = "starting"
    BY <1>1 DEF CommandsAlone, Alone, Reserved
  <2>2. CASE j = k
    BY <1>1, <1>2, <2>1, <2>2
  <2>3. CASE j # k
    <3>1. command'[j] = command[j] /\ lock = {j} /\ command[k].at \notin Reserved
      BY <1>2, <2>1, <2>3, NobodyBeside
    <3>2. meta' = meta
      BY <1>4, <3>1
    <3>3. lock' = {j}
      BY <1>1, <2>3, <3>1
    <3>4. Alone(j, command[j])
      BY DEF IInv, CommandsAlone
    <3> QED BY <3>1, <3>2, <3>3, <3>4 DEF Alone
  <2> QED BY <2>2, <2>3
<1>8. AliveHolds'
  <2>1. SUFFICES ASSUME NEW h \in Generations, Alive(h) PROVE h \in lock'
    BY <1>1 DEF AliveHolds, Alive
  <2>2. h \in lock /\ h # k
    BY <2>1, Disjoint DEF IInv, AliveHolds
  <2> QED BY <1>1, <2>2
<1>9. OneOpen'
    BY <1>1, Disjoint DEF IInv, OneOpen
<1>10. EndedExits'
  <2>1. CASE meta' = meta
    BY <1>1, <2>1 DEF IInv, EndedExits, Alive, At
  <2>2. CASE meta' # meta
    <3>1. \A g \in Generations : ~Alive(g)
      BY <1>4, <2>2, NobodyBeside
    <3> QED BY <1>1, <3>1 DEF EndedExits, Alive
  <2> QED BY <2>1, <2>2
<1> QED BY <1>5, <1>6, <1>7, <1>8, <1>9, <1>10 DEF IInv

LEMMA ReserveKeeps ==
    ASSUME IInv, NEW k \in Commands, WriteStarting(k)
    PROVE  IInv'
<1> DEFINE n == launched + 1
<1>1. /\ command[k].at = "write" /\ launched' = n /\ meta' = [generation |-> n, state |-> "starting"]
      /\ command' = [command EXCEPT ![k].at = "launch", ![k].generation = n]
      /\ UNCHANGED <<request, lock, service, crashes>>
    BY DEF WriteStarting, Command
<1>2. /\ lock = {k} /\ \A g \in Generations : ~Alive(g)
      /\ \A j \in Commands : j # k => command[j].at \notin Reserved
    BY <1>1, NobodyBeside DEF Reserved
<1>3. launched < MaxGeneration /\ launched \in 0 .. MaxGeneration /\ MaxGeneration \in Nat
    BY <1>1, FleetAssumption DEF IInv, CommandsAlone, Alone, TypeOK
<1>4. n \in Generations /\ n \in 0 .. MaxGeneration /\ n > launched
    BY <1>3 DEF Generations
<1>5. /\ command \in [Commands -> CommandStates] /\ command[k] \in CommandStates
      /\ meta.generation <= launched /\ service[n].at = "none"
    BY <1>4 DEF IInv, TypeOK, MetaLaunched, NotYet
<1> DEFINE c == [command[k] EXCEPT !.at = "launch", !.generation = n]
<1>6. c \in CommandStates /\ c.at = "launch" /\ c.generation = n
    BY <1>4, <1>5 DEF CommandStates
<1>7. command' = [command EXCEPT ![k] = c]
    BY <1>1, <1>5
<1> HIDE DEF c
<1>8. /\ command'[k] = c /\ \A j \in Commands : j # k => command'[j] = command[j]
      /\ command' \in [Commands -> CommandStates]
    BY <1>5, <1>6, <1>7
<1>9. meta' \in [generation : 0 .. MaxGeneration, state : {"none"} \cup ServiceStates]
      /\ meta'.generation = n /\ meta'.state = "starting"
    BY <1>1, <1>4 DEF ServiceStates
<1>10. TypeOK'
    BY <1>1, <1>4, <1>8, <1>9 DEF IInv, TypeOK
<1>11. ServicesJoin' /\ OneOpen' /\ AliveHolds'
    BY <1>1 DEF IInv, ServicesJoin, OneOpen, AliveHolds, Alive
<1>12. NotYet' /\ MetaLaunched'
    <2>1. \A g \in Generations : g > n => g > launched
        BY <1>3 DEF Generations
    <2> QED BY <1>1, <1>3, <1>9, <2>1 DEF IInv, NotYet, MetaLaunched
<1>13. CommandsAlone'
  <2>1. SUFFICES ASSUME NEW j \in Commands PROVE Alone(j, command[j])'
    BY DEF CommandsAlone
  <2>2. CASE j = k
    BY <1>1, <1>2, <1>4, <1>5, <1>6, <1>8, <1>9, <2>2 DEF Alone
  <2>3. CASE j # k
    BY <1>2, <1>8, <2>3 DEF Alone, Reserved
  <2> QED BY <2>2, <2>3
<1>14. EndedExits'
    BY <1>1, <1>2 DEF EndedExits, Alive
<1> QED BY <1>10, <1>11, <1>12, <1>13, <1>14 DEF IInv

LEMMA StartKeeps ==
    ASSUME IInv, NEW k \in Commands, Starts(k)
    PROVE  IInv'
<1> DEFINE g == launched
<1>1. /\ command[k].at = "launch" /\ command[k].generation = g /\ g \in Generations
      /\ service[g].at = "none" /\ meta.state = "starting"
    BY DEF Starts, Command, IInv, CommandsAlone, Alone
<1>2. /\ lock = {k} /\ \A h \in Generations : ~Alive(h)
      /\ \A j \in Commands : j # k => command[j].at \notin Reserved
    BY <1>1, NobodyBeside DEF Reserved
<1>3. /\ lock' = {k, g} /\ service' = [service EXCEPT ![g].at = "boot"]
      /\ command' = [command EXCEPT ![k].at = "await"]
      /\ UNCHANGED <<meta, request, launched, crashes>>
    BY <1>1 DEF Starts, Held, Goto
<1>4. /\ command \in [Commands -> CommandStates] /\ command[k] \in CommandStates
      /\ service \in [Generations -> ServiceRecords] /\ service[g] \in ServiceRecords
      /\ Joins(service[g])
    BY <1>1 DEF IInv, TypeOK, ServicesJoin
<1> DEFINE c == [command[k] EXCEPT !.at = "await"]
           r == [service[g] EXCEPT !.at = "boot"]
<1>5. c \in CommandStates /\ c.at = "await"
    BY <1>4 DEF CommandStates
<1>6. r \in ServiceRecords /\ r.at = "boot" /\ Joins(r)
    BY <1>1, <1>4 DEF ServiceRecords, Joins
<1>7. command' = [command EXCEPT ![k] = c] /\ service' = [service EXCEPT ![g] = r]
    BY <1>3
<1> HIDE DEF c, r, g
<1>8. /\ command'[k] = c /\ \A j \in Commands : j # k => command'[j] = command[j]
      /\ command' \in [Commands -> CommandStates]
    BY <1>4, <1>5, <1>7
<1>9. /\ service'[g] = r /\ \A h \in Generations : h # g => service'[h] = service[h]
      /\ service' \in [Generations -> ServiceRecords]
    BY <1>1, <1>4, <1>6, <1>7
<1>10. TypeOK'
    BY <1>1, <1>3, <1>8, <1>9 DEF IInv, TypeOK
<1>11. ServicesJoin'
    BY <1>6, <1>9 DEF IInv, ServicesJoin
<1>12. CommandsAlone'
    BY <1>2, <1>5, <1>8 DEF CommandsAlone, Alone, Reserved
<1>13. AliveHolds'
    BY <1>2, <1>3, <1>9 DEF AliveHolds, Alive
<1>14. OneOpen'
    BY <1>3, Disjoint DEF OneOpen
<1>15. NotYet' /\ MetaLaunched'
    <2>1. ~(g > g)
        BY <1>1 DEF Generations
    <2> QED BY <1>3, <1>9, <2>1 DEF IInv, NotYet, MetaLaunched, g
<1>16. EndedExits'
    BY <1>1, <1>3 DEF EndedExits, Ended
<1> QED BY <1>10, <1>11, <1>12, <1>13, <1>14, <1>15, <1>16 DEF IInv

LEMMA InvInit == Init => IInv
<1> SUFFICES ASSUME Init PROVE IInv
    OBVIOUS
<1>1. TypeOK
    BY FleetAssumption, IdleTyped, NoServiceTyped DEF Init, TypeOK
<1>2. \A g \in Generations : service[g] = NoService
    BY DEF Init
<1>3. \A k \in Commands : command[k].at = "idle"
    BY DEF Init, Idle
<1>4. ServicesJoin /\ AliveHolds /\ NotYet /\ EndedExits
    BY <1>2, NoServiceTyped DEF ServicesJoin, AliveHolds, NotYet, EndedExits, Alive
<1>5. CommandsAlone
    BY <1>3 DEF CommandsAlone, Alone
<1>6. OneOpen /\ MetaLaunched
    BY DEF Init, OneOpen, MetaLaunched
<1> QED BY <1>1, <1>4, <1>5, <1>6 DEF IInv

LEMMA InvStep == IInv /\ [Next]_vars => IInv'
<1> SUFFICES ASSUME IInv, [Next]_vars PROVE IInv'
    OBVIOUS
<1>1. TypeOK /\ ServicesJoin
    BY DEF IInv
<1>2. ASSUME NEW k \in Commands, CommandStep(k) \/ KillCommand(k) PROVE IInv'
    BY <1>1, <1>2, CommandSteps, QuietKeeps, ReserveKeeps, StartKeeps
<1>3. ASSUME NEW g \in Generations,
             ServiceStep(g) \/ (\E s \in Slots : SlotStep(g, s)) \/ WatcherStep(g) \/ KillService(g)
      PROVE  IInv'
    BY <1>1, <1>3, ServiceSteps, ServiceKeeps
<1>4. CASE UNCHANGED vars
    BY <1>4 DEF vars, IInv, TypeOK, ServicesJoin, CommandsAlone, Alone, AliveHolds, Alive, OneOpen,
                NotYet, MetaLaunched, EndedExits, At
<1> QED BY <1>2, <1>3, <1>4 DEF Next

-----------------------------------------------------------------------------
\* Files, commands and services are well typed.
THEOREM FleetTypeCorrect == Spec => []TypeOK
<1>1. IInv => TypeOK
    BY DEF IInv
<1> QED BY InvInit, InvStep, <1>1, PTL DEF Spec

\* One service process at most is alive, however commands overlap and whoever
\* is killed.
THEOREM OnlyOneService == Spec => []OneService
<1>1. IInv => OneService
  <2> SUFFICES ASSUME IInv PROVE OneService
    OBVIOUS
  <2>1. \A g, h \in Generations : Alive(g) /\ Alive(h) => g = h
    BY DEF IInv, AliveHolds, OneOpen
  <2>2. \A k \in Commands, g \in Generations : Command(k, {"start"}, "write") => ~Alive(g)
    BY NobodyBeside DEF Command, Reserved
  <2> QED BY <2>1, <2>2 DEF OneService
<1> QED BY InvInit, InvStep, <1>1, PTL DEF Spec

\* A stop that answers with an end has seen the process gone.
THEOREM StopsHaveEnded == Spec => []AnsweredStopHasEnded
<1>1. IInv => AnsweredStopHasEnded
  <2> SUFFICES ASSUME IInv, NEW k \in Commands, Command(k, {"stop"}, "unlock"),
                      command[k].generation # 0
               PROVE  ~Alive(command[k].generation)
    BY DEF AnsweredStopHasEnded
  <2>1. command[k].generation \in Generations
    BY FleetAssumption DEF IInv, TypeOK, CommandStates, Generations
  <2> QED BY <2>1, NobodyBeside DEF Command, Reserved
<1> QED BY InvInit, InvStep, <1>1, PTL DEF Spec

\* When the end is reported, no slot is at work and the stop watcher has
\* nothing left to report.
THEOREM EndsAreDrained == Spec => []EndedIsDrained
<1>1. IInv => EndedIsDrained
    BY DEF IInv, EndedExits, EndedIsDrained, ServicesJoin, Joins, At
<1> QED BY InvInit, InvStep, <1>1, PTL DEF Spec

\* The metadata of a generation moves forward only, and its end is final.
THEOREM MetadataForward == Spec => MetadataMovesForward
<1> DEFINE Forward == meta'.generation = meta.generation =>
                         meta' = meta \/ Phase(meta.state) < Phase(meta'.state)
<1>1. IInv /\ [Next]_vars => [Forward]_vars
  <2> SUFFICES ASSUME IInv, [Next]_vars PROVE Forward
    OBVIOUS
  <2>0. TypeOK /\ ServicesJoin
    BY DEF IInv
  <2>1. ASSUME NEW g \in 0 .. MaxGeneration, NEW state \in ServiceStates,
               meta' = Reported(g, state)
        PROVE  Forward
    <3>1. \A t \in Transitions : Phase(t[1]) < Phase(t[2])
      BY DEF Transitions, Phase, Ended
    <3>2. meta' = meta \/ (<<meta.state, state>> \in Transitions /\ meta' = [meta EXCEPT !.state = state])
      BY <2>1 DEF Reported
    <3>3. meta' = [meta EXCEPT !.state = state] => meta'.state = state
      BY <2>0 DEF TypeOK
    <3> QED BY <3>1, <3>2, <3>3
  <2>2. ASSUME NEW k \in Commands, CommandStep(k) \/ KillCommand(k) PROVE Forward
    <3>1. CASE QuietFrame(k)
      <4>1. command[k].generation \in 0 .. MaxGeneration /\ "failed" \in ServiceStates
        BY <2>0 DEF TypeOK, CommandStates, ServiceStates, Ended
      <4> QED BY <3>1, <4>1, <2>1 DEF QuietFrame
    <3>2. CASE WriteStarting(k)
      <4>1. meta'.generation = launched + 1
        BY <3>2 DEF WriteStarting
      <4>2. meta.generation <= launched /\ meta.generation \in Nat /\ launched \in Nat
        BY DEF IInv, MetaLaunched, TypeOK
      <4> QED BY <4>1, <4>2
    <3>3. CASE Starts(k)
      BY <3>3 DEF Starts
    <3> QED BY <2>0, <2>2, <3>1, <3>2, <3>3, CommandSteps
  <2>3. ASSUME NEW g \in Generations,
               ServiceStep(g) \/ (\E s \in Slots : SlotStep(g, s)) \/ WatcherStep(g) \/ KillService(g)
        PROVE  Forward
    <3>1. ServiceFrame(g)
      BY <2>0, <2>3, ServiceSteps
    <3>2. g \in 0 .. MaxGeneration
      BY FleetAssumption DEF Generations
    <3>3. meta' = meta \/ \E state \in ServiceStates : meta' = Reported(g, state)
      BY <3>1 DEF ServiceFrame
    <3> QED BY <3>2, <3>3, <2>1
  <2>4. CASE UNCHANGED vars
    BY <2>4 DEF vars
  <2> QED BY <2>2, <2>3, <2>4 DEF Next
<1> QED BY InvInit, InvStep, <1>1, PTL DEF Spec, MetadataMovesForward
=============================================================================
