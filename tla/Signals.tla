------------------------------ MODULE Signals ------------------------------
(***************************************************************************)
(* Programs in which a thread tells another something: the journeys of the *)
(* two condition variable programs of section 3, the interruptible threads *)
(* of interruptible_thread, and the future that two threads share.         *)
(***************************************************************************)
EXTENDS ProgramThreads

CONSTANTS Total,       \* total_distance, 5 in the code
          Loops        \* how often an interruptible thread goes round, 10

ASSUME SignalsAssumption == Total \in Nat \ {0} /\ Loops \in Nat \ {0}

VARIABLES role,        \* thread -> which function it runs
          distance,    \* distance_coverd
          counter,     \* thread -> its counter
          flag,        \* thread -> its this_thread_flag
          late,        \* history: rounds that thread began since it was set
          promised,    \* whether the promise was fulfilled
          valid,       \* whether the future still has its shared state
          printed      \* history: how many threads have printed the value

signalVars == <<role, distance, counter, flag, late, promised, valid, printed>>

\* One thread for each function of the program, but for print_result.
Roles ==
  CASE program = "journey" -> {"keep_moving", "ask_driver", "keep_awake"}
    [] program = "interruptible" -> {"main", "do_something", "do_something_else"}
    [] program \in {"future", "shared_future"} -> {"main", "print_result"}
    [] OTHER -> {"none"}

SignalInit ==
  /\ role \in [Threads -> Roles]
  /\ \A t, u \in Threads : t # u /\ role[t] = role[u] => role[t] \in {"print_result", "none"}
  /\ "main" \in Roles => \E t \in Threads : role[t] = "main"
  /\ distance = 0
  /\ counter = [t \in Threads |-> 0]
  /\ flag = [t \in Threads |-> FALSE]
  /\ late = [t \in Threads |-> 0]
  /\ promised = FALSE /\ valid = TRUE /\ printed = 0

Runs(t, f) == role[t] = f
-----------------------------------------------------------------------------
(* The journey: the driver and the passenger of one program, the passenger *)
(* of the other who stays awake.                                           *)

MaxDistance == Total + 2   \* bound: the driver drives on for ever

\* distance_coverd++
DriveOn(t) ==
  /\ Runs(t, "keep_moving") /\ distance < MaxDistance
  /\ Move(t, "idle", "tell")
  /\ distance' = distance + 1
  /\ UNCHANGED <<role, counter, flag, late, promised, valid, printed>>

\* if (distance_coverd == total_distance) cv.notify_one()
Tell(t) ==
  /\ Runs(t, "keep_moving")
  /\ IF distance = Total THEN NotifyOne(t, "tell", "idle", "idle") ELSE Move(t, "tell", "idle")
  /\ UNCHANGED signalVars

LockJourney(t) ==
  /\ Runs(t, "ask_driver")
  /\ Lock(t, "m", "idle", "look") /\ UNCHANGED signalVars

\* cv.wait: the predicate holds, or the passenger is about to sleep;
Look(t) ==
  /\ Runs(t, "ask_driver")
  /\ IF distance = Total THEN Unlock(t, {"m"}, "look", "done") ELSE Move(t, "look", "block")
  /\ UNCHANGED signalVars

\* the driver, who takes no mutex, may tell him in between.
FallAsleep(t) == Sleep(t, "m", "block") /\ UNCHANGED signalVars

PassengerSpurious(t) ==
  Runs(t, "ask_driver") /\ WakesUp(t, "idle") /\ UNCHANGED signalVars

\* while (distance_coverd < distance_my_destination)
StopPolling(t) ==
  /\ Runs(t, "keep_awake") /\ distance >= Total
  /\ Move(t, "idle", "done") /\ UNCHANGED signalVars

JourneyStep(t) ==
  DriveOn(t) \/ Tell(t) \/ LockJourney(t) \/ Look(t) \/ FallAsleep(t) \/ StopPolling(t)
-----------------------------------------------------------------------------
(* Two jthread_local objects.                                              *)

\* What main does, in this order; the destructors run from the last object on.
Main ==
  <<<<"start", "do_something_else">>, <<"get", "do_something_else">>,
    <<"start", "do_something">>, <<"get", "do_something">>,
    <<"interrupt", "do_something">>, <<"interrupt", "do_something_else">>,
    <<"join", "do_something">>, <<"join", "do_something_else">>>>

AtMain(t, what, u) ==
  /\ Runs(t, "main") /\ counter[t] < Len(Main)
  /\ Main[counter[t] + 1] = <<what, role[u]>>

MainGoesOn(t) ==
  /\ counter' = [counter EXCEPT ![t] = @ + 1]
  /\ UNCHANGED <<role, distance, late, promised, valid, printed>>

\* The constructor starts the thread,
StartJThread(t, u) ==
  /\ AtMain(t, "start", u) /\ pc[u] = "idle"
  /\ pc' = [pc EXCEPT ![u] = "set_value"]
  /\ MainGoesOn(t)
  /\ UNCHANGED <<program, mut, calls, wakeups, broken, flag>>

\* and waits for the address of its flag.
GetFlag(t, u) ==
  /\ AtMain(t, "get", u) /\ pc[u] \notin {"idle", "set_value"}
  /\ MainGoesOn(t) /\ UNCHANGED <<frame, flag>>

\* interrupt: the flag of a thread that has ended is gone.
Interrupt(t, u) ==
  /\ AtMain(t, "interrupt", u)
  /\ IF pc[u] = "done" THEN Break(t) /\ UNCHANGED flag
     ELSE flag' = [flag EXCEPT ![u] = TRUE] /\ UNCHANGED frame
  /\ MainGoesOn(t)

\* ~jthread_local
JoinJThread(t, u) ==
  /\ AtMain(t, "join", u) /\ pc[u] = "done"
  /\ MainGoesOn(t) /\ UNCHANGED <<frame, flag>>

SetAddress(t) == Move(t, "set_value", "loop") /\ UNCHANGED signalVars

\* interrupt_point: the thread returns when its flag is set, if it asks.
InterruptPoint(t) ==
  /\ Runs(t, "do_something") /\ flag[t]
  /\ Move(t, "loop", "done") /\ UNCHANGED signalVars

LoopOver(t) == counter[t] = Loops /\ Move(t, "loop", "done") /\ UNCHANGED signalVars

\* The loop is entered, and at its end comes ++counter.
EnterLoop(t) ==
  /\ counter[t] < Loops /\ ~(Runs(t, "do_something") /\ flag[t])
  /\ Move(t, "loop", "round") /\ UNCHANGED signalVars

GoRound(t) ==
  /\ Move(t, "round", "loop")
  /\ counter' = [counter EXCEPT ![t] = @ + 1]
  /\ late' = [late EXCEPT ![t] = @ + IF flag[t] THEN 1 ELSE 0]
  /\ UNCHANGED <<role, distance, flag, promised, valid, printed>>

JThreadStep(t) ==
  \/ SetAddress(t) \/ InterruptPoint(t) \/ LoopOver(t) \/ EnterLoop(t) \/ GoRound(t)
  \/ \E u \in Threads :
       StartJThread(t, u) \/ GetFlag(t, u) \/ Interrupt(t, u) \/ JoinJThread(t, u)
-----------------------------------------------------------------------------
(* Two threads and one future, or shared_future.                           *)

\* prom.set_value(5)
SetValue(t) ==
  /\ Runs(t, "main") /\ Move(t, "idle", "done")
  /\ promised' = TRUE
  /\ UNCHANGED <<role, distance, counter, flag, late, valid, printed>>

\* if (fut.valid()), which only print_result1 asks.
AskValid(t) ==
  /\ Runs(t, "print_result")
  /\ Move(t, "idle", IF valid THEN "get" ELSE "done") /\ UNCHANGED signalVars

\* get() throws at once without a shared state, and nothing catches it;
CallGet(t) ==
  /\ Runs(t, "print_result") /\ pc[t] = "get"
  /\ IF valid THEN Move(t, "get", "wait") ELSE Break(t)
  /\ UNCHANGED signalVars

\* of two threads that wait in get() of one future the second finds its shared
\* state gone, and prints what it has or dies.
TakeValue(t) ==
  /\ Runs(t, "print_result") /\ promised /\ pc[t] = "wait"
  /\ \/ /\ Move(t, "wait", "done")
        /\ valid' = (program = "shared_future")
        /\ printed' = printed + 1
     \/ /\ ~valid /\ Break(t)
        /\ UNCHANGED <<valid, printed>>
  /\ UNCHANGED <<role, distance, counter, flag, late, promised>>

FutureStep(t) == SetValue(t) \/ AskValid(t) \/ CallGet(t) \/ TakeValue(t)
-----------------------------------------------------------------------------
(* Properties.                                                             *)

\* A passenger who has fallen asleep before the stop is woken, and one who stays
\* awake gets there although the driver drives on.  (More is not promised: told
\* while he is falling asleep the passenger misses the stop, and woken he may
\* find it behind him, and sleep for good.)
WokenInTime ==
  \A t \in Threads :
    /\ (program = "journey" /\ pc[t] = "asleep" /\ distance < Total) ~> (pc[t] # "asleep")
    /\ <>[](program = "journey" /\ Runs(t, "keep_awake") => pc[t] = "done")

\* An interrupted thread that asks begins no other round, one that does not
\* ask makes all of its rounds, and main ends after both.
Interrupted ==
  \A t \in Threads :
    /\ Runs(t, "do_something") => late[t] <= 1
    /\ Runs(t, "do_something_else") /\ pc[t] = "done" /\ ~broken => counter[t] = Loops
    /\ program = "interruptible" /\ Runs(t, "main") /\ counter[t] = Len(Main) =>
         \A u \in Threads \ {t} : pc[u] = "done"

\* In the end main has come to its end, and both threads have the value of a
\* shared_future; only the future of one thread can bring the program down.
SignalsEnd ==
  /\ program = "interruptible" /\ ~broken =>
       \A t \in Threads : Runs(t, "main") => counter[t] = Len(Main)
  /\ program = "future" => broken \/ printed > 0
  /\ program = "shared_future" => ~broken /\ printed = Cardinality(Threads) - 1
=============================================================================
