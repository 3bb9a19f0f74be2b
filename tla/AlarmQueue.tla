----------------------------- MODULE AlarmQueue -----------------------------
(***************************************************************************)
(* AlarmQueue: a heap of alarms, and beside it, for every function that is *)
(* registered approximately, a heap of its alarms, which suppresses a      *)
(* registration close to one that is there.                                *)
(*                                                                         *)
(* Once are the functions that are registered approximately and return 0,  *)
(* Again those of them that may return a delay (one alarm of each, as the  *)
(* node does with flush_all_send_buffers), Exact those of register_alarm,  *)
(* which may as well.  Any of them may raise.  Times are relative: left is *)
(* the time until an alarm is due, and no alarm is more than MaxLate late. *)
(* MaxAlarms bounds the registrations.                                     *)
(***************************************************************************)
EXTENDS Integers, FiniteSets

CONSTANTS Once, Again, Exact, Delay, Slop, MaxAlarms, MaxLate

\* A function is registered in one way only.
ASSUME AlarmConstants ==
    /\ Once \cap Again = {} /\ Once \cap Exact = {} /\ Again \cap Exact = {}
    /\ Delay \in Nat /\ Slop \in Nat /\ MaxLate \in Nat

VARIABLES
    alarms,       \* the heap, ordered by left and count
    approx,       \* approx_alarms_scheduled[fn]: the counts of the alarms in its heap
    uniq_count,
    firing,       \* the loop of fire_alarms: the time since it began, and the alarm it fires
    live,         \* counts of the alarms that are neither unregistered nor finished
    asserted      \* the assertion of _pop_and_cleanup_approx_alarm has held so far

alarmqueue == <<alarms, approx, uniq_count, firing, live, asserted>>

NoAlarm == [fn |-> "none", left |-> 0, count |-> 0, is_active |-> FALSE]
NotFiring == [since |-> -1, alarm |-> NoAlarm]

InLoop == firing.since # -1
InCallback == firing.alarm.count # 0

Before(a, b) == a.left < b.left \/ (a.left = b.left /\ a.count < b.count)
First(set) == CHOOSE a \in set : \A b \in set \ {a} : Before(a, b)

\* An alarm keeps its place in the heap of its function while it is being fired.
AlarmOf(n) == IF InCallback /\ firing.alarm.count = n THEN firing.alarm
              ELSE CHOOSE a \in alarms : a.count = n

-----------------------------------------------------------------------------
(* Registration, from a handler or from a callback.  fire_alarms holds the *)
(* lock, so that other threads wait while it runs.                         *)

MayCall == InLoop => InCallback

Push(fn, delay) ==
    /\ alarms' = alarms \cup {[fn |-> fn, left |-> delay, count |-> uniq_count + 1, is_active |-> TRUE]}
    /\ uniq_count' = uniq_count + 1
    /\ live' = live \cup {uniq_count'}

\* fire_immediately, which nothing in the repository passes, fires and leaves the queue as
\* it is.  uniq_count is read before the lock is taken, so that two threads may give two
\* alarms one count; it orders alarms of one time, and the assertion on it compares alarms
\* that were registered under the lock.
RegisterAlarm(fn, delay) ==
    /\ MayCall /\ fn \in Exact /\ uniq_count < MaxAlarms
    /\ Push(fn, delay)
    /\ UNCHANGED <<approx, firing, asserted>>

\* Mutant: only a later alarm suppresses a registration.
SuppressedByLater(fn, delay) ==
    \E n \in approx[fn] : delay <= AlarmOf(n).left /\ AlarmOf(n).left <= delay + Slop

\* Some alarm of the function fires within slop of the time asked for.
Suppressed(fn, delay) ==
    \E n \in approx[fn] : delay - Slop <= AlarmOf(n).left /\ AlarmOf(n).left <= delay + Slop

RegisterApproxAlarm(fn, delay) ==
    /\ MayCall /\ uniq_count < MaxAlarms
    /\ fn \in Once \cup Again /\ (fn \in Again => approx[fn] = {})
    /\ ~Suppressed(fn, delay)
    /\ Push(fn, delay)
    /\ approx' = [approx EXCEPT ![fn] = @ \cup {uniq_count'}]
    /\ UNCHANGED <<firing, asserted>>

\* The cancelled alarms at the head of the heap are popped.
WithoutInactiveHead(set) ==
    {a \in set : \E b \in set : b.is_active /\ (b = a \/ Before(b, a))}

UnregisterAlarm(a) ==
    /\ MayCall /\ a.fn \in Exact /\ a.is_active
    /\ alarms' = WithoutInactiveHead((alarms \ {a}) \cup {[a EXCEPT !.is_active = FALSE]})
    /\ live' = live \ {a.count}
    /\ UNCHANGED <<approx, uniq_count, firing, asserted>>

\* A callback cancels the alarm that fires it: if it returns a delay the alarm is pushed
\* again, and dropped when it is due.
UnregisterFiring ==
    /\ InCallback /\ firing.alarm.fn \in Exact /\ firing.alarm.is_active
    /\ firing' = [firing EXCEPT !.alarm.is_active = FALSE]
    /\ alarms' = WithoutInactiveHead(alarms)
    /\ live' = live \ {firing.alarm.count}
    /\ UNCHANGED <<approx, uniq_count, asserted>>

-----------------------------------------------------------------------------
(* fire_alarms                                                             *)

\* The loop is entered when some alarm is ready.
FireAlarms ==
    /\ ~InLoop /\ \E a \in alarms : a.left <= 0
    /\ firing' = [since |-> 0, alarm |-> NoAlarm]
    /\ UNCHANGED <<alarms, approx, uniq_count, live, asserted>>

\* Ready at curr_time, which is read before the loop.
Ready(a) == a.left <= -firing.since

PopAlarm ==
    /\ InLoop /\ ~InCallback /\ alarms # {}
    /\ LET a == First(alarms)
       IN  /\ Ready(a)
           /\ alarms' = alarms \ {a}
           /\ firing' = IF a.is_active THEN [firing EXCEPT !.alarm = a] ELSE firing
    /\ UNCHANGED <<approx, uniq_count, live, asserted>>

LoopEnds ==
    /\ InLoop /\ ~InCallback
    /\ alarms # {} => ~Ready(First(alarms))
    /\ firing' = NotFiring
    /\ UNCHANGED <<alarms, approx, uniq_count, live, asserted>>

\* Mutant: the alarm is left in the heap of its function.
PopAndCleanupApproxAlarmKept(a) == UNCHANGED <<approx, asserted>>

\* _pop_and_cleanup_approx_alarm, for a function that is in approx_alarms_scheduled.
PopAndCleanupApproxAlarm(a) ==
    IF a.fn \notin Exact
    THEN LET heap == {AlarmOf(n) : n \in approx[a.fn]}
         IN  /\ asserted' = (asserted /\ First(heap).count = a.count)
             /\ approx' = [approx EXCEPT ![a.fn] = @ \ {First(heap).count}]
    ELSE UNCHANGED <<approx, asserted>>

\* The callback returns 0 or None, or raises.
CallbackEnds ==
    /\ InCallback
    /\ PopAndCleanupApproxAlarm(firing.alarm)
    /\ firing' = [firing EXCEPT !.alarm = NoAlarm]
    /\ live' = live \ {firing.alarm.count}
    /\ UNCHANGED <<alarms, uniq_count>>

\* Mutant: the alarm gets its next time and is not pushed.
RescheduledLost(a, delay) == alarms

Rescheduled(a, delay) == alarms \cup {[a EXCEPT !.left = delay]}

\* The callback returns a delay.
CallbackReschedules ==
    /\ InCallback /\ firing.alarm.fn \notin Once
    /\ alarms' = Rescheduled(firing.alarm, Delay)
    /\ firing' = [firing EXCEPT !.alarm = NoAlarm]
    /\ UNCHANGED <<approx, uniq_count, live, asserted>>

TimePasses ==
    /\ \A a \in alarms : a.left > -MaxLate
    /\ InCallback => firing.alarm.left > -MaxLate
    /\ InLoop => firing.since < MaxLate
    /\ alarms' = {[a EXCEPT !.left = @ - 1] : a \in alarms}
    /\ firing' = IF ~InLoop THEN firing
                 ELSE [since |-> firing.since + 1,
                       alarm |-> IF InCallback THEN [firing.alarm EXCEPT !.left = @ - 1] ELSE NoAlarm]
    /\ UNCHANGED <<approx, uniq_count, live, asserted>>

-----------------------------------------------------------------------------
AlarmsInit ==
    /\ alarms = {} /\ approx = [fn \in Once \cup Again |-> {}]
    /\ uniq_count = 0 /\ firing = NotFiring /\ live = {} /\ asserted = TRUE

\* What the event loop does next, which does not depend on other threads.
LoopStep == FireAlarms \/ PopAlarm \/ LoopEnds \/ CallbackEnds \/ CallbackReschedules

AlarmsNext ==
    \/ \E fn \in Exact, delay \in 0..Delay : RegisterAlarm(fn, delay)
    \/ \E fn \in Once \cup Again, delay \in 1..Delay : RegisterApproxAlarm(fn, delay)
    \/ (\E a \in alarms : UnregisterAlarm(a)) \/ UnregisterFiring
    \/ LoopStep
    \/ TimePasses

\* The event loop fires alarms, callbacks end and time passes.
AlarmsSpec ==
    /\ AlarmsInit /\ [][AlarmsNext]_alarmqueue
    /\ WF_alarmqueue(LoopStep) /\ WF_alarmqueue(TimePasses)

-----------------------------------------------------------------------------
\* The heap of a function holds exactly its alarms that are still to fire or firing,
\* and the alarm that was just fired is the first of it, as the code asserts.
ApproxInStep ==
    /\ asserted
    /\ \A fn \in Once \cup Again :
          approx[fn] = {a.count : a \in {b \in alarms : b.fn = fn}}
                       \cup IF InCallback /\ firing.alarm.fn = fn THEN {firing.alarm.count} ELSE {}

\* Two alarms of one function are more than slop apart: it "will only be executed once
\* in that time interval, even if multiple calls to this method are made".
ApproxSpaced ==
    \A fn \in Once : \A m, n \in approx[fn] :
        m # n => AlarmOf(m).left - AlarmOf(n).left \notin -Slop..Slop

\* Every alarm that was registered and not cancelled fires, one that reschedules
\* itself again and again, whatever the callbacks of the others do.
EachFires ==
    \A n \in 1..MaxAlarms :
        [](n \in live => <>(n \notin live \/ (InCallback /\ firing.alarm.count = n)))

=============================================================================
