----------------------------- MODULE AlarmProofs -----------------------------
(***************************************************************************)
(* Proofs about the alarms and what relies on them.  AlarmQueue: the heaps *)
(* of the functions registered approximately stay in step with the heap of *)
(* the alarms, for any functions, delays, slop, number of alarms and       *)
(* lateness.  ExpiringSet: for every set of items, time to live and        *)
(* lateness of the event loop.                                             *)
(***************************************************************************)
EXTENDS AlarmQueue, ExpiringSet, WellFoundedInduction, TLAPS

USE ZenonT(40)

-----------------------------------------------------------------------------
(* AlarmQueue                                                              *)

Alarm == [fn : Once \cup Again \cup Exact, left : Int, count : Nat \ {0}, is_active : BOOLEAN]

AlarmTypes ==
    /\ alarms \subseteq Alarm
    /\ approx \in [Once \cup Again -> SUBSET Nat]
    /\ uniq_count \in Nat
    /\ firing \in [since : Int, alarm : Alarm \cup {NoAlarm}]
    /\ firing.since >= -1
    /\ InCallback => InLoop

\* An alarm is known by its count, is not too late, and only one of
\* register_alarm is ever cancelled.
Counted ==
    /\ \A a, b \in alarms : a.count = b.count => a = b
    /\ \A a \in alarms : /\ a.count <= uniq_count /\ a.left >= -MaxLate
                         /\ a.fn \notin Exact => a.is_active
    /\ InCallback => /\ firing.alarm.count <= uniq_count
                     /\ firing.alarm.fn \notin Exact => firing.alarm.is_active
                     /\ \A a \in alarms : a.count # firing.alarm.count

\* A function that reschedules itself has one alarm.
Single ==
    \A fn \in Again : \A m, n \in approx[fn] : m = n

\* The alarm being fired is due, and before the others of its function: what is
\* registered meanwhile is due later.
FiringFirst ==
    InCallback => /\ firing.alarm.left <= 0
                  /\ \A a \in alarms : a.fn = firing.alarm.fn /\ a.fn \in Once => Before(firing.alarm, a)

\* The alarms of a function, the one being fired among them, are more than slop apart.
Spaced ==
    /\ \A a, b \in alarms : a.fn = b.fn /\ a.fn \in Once /\ a # b => a.left - b.left \notin -Slop..Slop
    /\ InCallback => \A a \in alarms : a.fn = firing.alarm.fn /\ a.fn \in Once =>
                        a.left - firing.alarm.left \notin -Slop..Slop

AlarmInv == AlarmTypes /\ Counted /\ ApproxInStep /\ Single /\ FiringFirst /\ Spaced

-----------------------------------------------------------------------------
\* A nonempty set of natural numbers has a least element.
LEMMA Least ==
    ASSUME NEW T, T \subseteq Nat, T # {}
    PROVE  \E x \in T : \A y \in T : x <= y
<1> DEFINE R == OpToRel(<, Nat)
<1>1. PICK x \in T : \A y \in T : ~(<<y, x>> \in R)
    BY WFMin, NatLessThanWellFounded
<1>2. \A y \in T : ~(y < x)
    BY <1>1 DEF OpToRel
<1> QED
    BY SMTT(60), <1>2

\* The head of the heap: alarms are totally ordered.
LEMMA FirstFacts ==
    ASSUME AlarmTypes, Counted, alarms # {}
    PROVE  /\ First(alarms) \in alarms
           /\ \A b \in alarms : b # First(alarms) => Before(First(alarms), b)
<1> DEFINE Lefts == {a.left + MaxLate : a \in alarms}
<1>1. Lefts \subseteq Nat /\ Lefts # {}
    BY SMTT(60), AlarmConstants DEF AlarmTypes, Counted, Alarm
<1> HIDE DEF Lefts
<1>2. PICK l \in Lefts : \A x \in Lefts : l <= x
    BY <1>1, Least
<1> DEFINE Soonest == {a \in alarms : a.left + MaxLate = l}
           Counts == {a.count : a \in Soonest}
<1>3. Counts \subseteq Nat /\ Counts # {}
    BY SMTT(60), <1>2 DEF AlarmTypes, Alarm, Lefts
<1> HIDE DEF Counts
<1>4. PICK c \in Counts : \A x \in Counts : c <= x
    BY <1>3, Least
<1>5. PICK a \in Soonest : a.count = c
    BY <1>4 DEF Counts
<1>6. ASSUME NEW b \in alarms, b # a PROVE Before(a, b)
  <2>1. a \in alarms /\ a.left \in Int /\ b.left \in Int /\ a.count \in Nat /\ b.count \in Nat
      BY <1>5, <1>6 DEF AlarmTypes, Alarm
  <2>2. a.left <= b.left
    <3>1. a.left + MaxLate = l /\ l <= b.left + MaxLate
        BY <1>2, <1>5, <1>6 DEF Lefts
    <3> QED
        BY SMTT(60), <2>1, <3>1, AlarmConstants
  <2>3. CASE a.left = b.left
    <3>1. a.count <= b.count
        BY <2>3, <1>4, <1>5, <1>6 DEF Counts
    <3>2. a.count # b.count
        BY <1>6, <2>1 DEF Counted
    <3> QED
        BY SMTT(60), <3>1, <3>2, <2>1, <2>3 DEF Before
  <2> QED
      BY SMTT(60), <2>1, <2>2, <2>3 DEF Before
<1>7. a \in alarms /\ \A b \in alarms \ {a} : Before(a, b)
    BY <1>5, <1>6
<1> QED
    BY <1>7 DEF First

\* A count in the heap of a function is one of its alarms, found by its count.
LEMMA AlarmOfFacts ==
    ASSUME AlarmTypes, Counted, ApproxInStep, NEW fn \in Once \cup Again, NEW n \in approx[fn]
    PROVE  /\ AlarmOf(n).fn = fn /\ AlarmOf(n).count = n
           /\ AlarmOf(n) \in alarms \/ (InCallback /\ AlarmOf(n) = firing.alarm)
<1>1. CASE InCallback /\ firing.alarm.count = n
  <2>1. AlarmOf(n) = firing.alarm
      BY <1>1 DEF AlarmOf
  <2>2. firing.alarm.fn = fn
      BY SMTT(60), <1>1 DEF ApproxInStep, Counted
  <2> QED
      BY <1>1, <2>1, <2>2
<1>2. CASE ~(InCallback /\ firing.alarm.count = n)
  <2>1. PICK a \in alarms : a.fn = fn /\ a.count = n
      BY SMTT(60), <1>2 DEF ApproxInStep
  <2>2. AlarmOf(n) \in alarms /\ AlarmOf(n).count = n
      BY <1>2, <2>1 DEF AlarmOf
  <2> QED
      BY <2>1, <2>2 DEF Counted
<1> QED
    BY <1>1, <1>2

\* The invariant says what the property does about the alarms of a function.
LEMMA SpacedFacts ==
    ASSUME AlarmInv PROVE ApproxSpaced
<1> SUFFICES ASSUME NEW fn \in Once, NEW m \in approx[fn], NEW n \in approx[fn], m # n
             PROVE  AlarmOf(m).left - AlarmOf(n).left \notin -Slop..Slop
    BY DEF ApproxSpaced
<1> DEFINE a == AlarmOf(m)
           b == AlarmOf(n)
<1>1. /\ a.fn = fn /\ a.count = m /\ (a \in alarms \/ (InCallback /\ a = firing.alarm))
      /\ b.fn = fn /\ b.count = n /\ (b \in alarms \/ (InCallback /\ b = firing.alarm))
    BY AlarmOfFacts DEF AlarmInv
<1>2. a # b
    BY SMTT(60), AlarmOfFacts DEF AlarmInv
<1>3. a.left \in Int /\ b.left \in Int /\ Slop \in Nat
    BY SMTT(60), AlarmOfFacts, AlarmConstants DEF AlarmInv, AlarmTypes, Alarm, InCallback, NoAlarm
<1> HIDE DEF a, b
<1>4. a.left - b.left \notin -Slop..Slop \/ b.left - a.left \notin -Slop..Slop
    BY SMTT(60), <1>1, <1>2, AlarmOfFacts DEF AlarmInv, Spaced, a, b
<1> QED
    BY SMTT(60), <1>3, <1>4 DEF a, b

-----------------------------------------------------------------------------
\* register_alarm and what is left of register_approx_alarm once it is not
\* suppressed push an alarm with a new count.
LEMMA PushFacts ==
    ASSUME AlarmInv, NEW fn \in Once \cup Again \cup Exact, NEW delay \in 0..Delay,
           Push(fn, delay), UNCHANGED firing
    PROVE  LET new == [fn |-> fn, left |-> delay, count |-> uniq_count + 1, is_active |-> TRUE]
           IN  /\ new \in Alarm /\ alarms' = alarms \cup {new}
               /\ \A a \in alarms : a.count # uniq_count + 1 /\ a.left \in Int /\ a.count \in Nat
               /\ (InCallback' <=> InCallback) /\ (InLoop' <=> InLoop)
               /\ uniq_count' \in Nat /\ uniq_count' = uniq_count + 1
               /\ Counted'
<1> DEFINE new == [fn |-> fn, left |-> delay, count |-> uniq_count + 1, is_active |-> TRUE]
<1>1. new \in Alarm /\ delay \in Int /\ delay >= -MaxLate
    BY SMTT(60), AlarmConstants DEF AlarmInv, AlarmTypes, Alarm
<1>2. alarms' = alarms \cup {new} /\ uniq_count' = uniq_count + 1 /\ uniq_count \in Nat
    BY DEF Push, AlarmInv, AlarmTypes
<1>3. \A a \in alarms : a.count # uniq_count + 1 /\ a.left \in Int /\ a.count \in Nat
    BY SMTT(60), <1>2 DEF AlarmInv, AlarmTypes, Counted, Alarm
<1>4. (InCallback' <=> InCallback) /\ (InLoop' <=> InLoop)
    BY DEF InCallback, InLoop
<1>5. Counted'
  <2>1. ASSUME NEW a \in alarms', NEW b \in alarms', a.count = b.count PROVE a = b
    <3>1. new.count = uniq_count + 1
        OBVIOUS
    <3> HIDE DEF new
    <3> QED
        BY <2>1, <3>1, <1>2, <1>3 DEF AlarmInv, Counted
  <2>2. \A a \in alarms' : /\ a.count <= uniq_count' /\ a.left >= -MaxLate
                           /\ a.fn \notin Exact => a.is_active
      BY SMTT(60), <1>1, <1>2, <1>3 DEF AlarmInv, Counted
  <2>3. ASSUME InCallback
        PROVE  /\ firing.alarm.count <= uniq_count' /\ firing.alarm.count # uniq_count + 1
               /\ firing.alarm.fn \notin Exact => firing.alarm.is_active
               /\ \A a \in alarms : a.count # firing.alarm.count
    <3>1. firing.alarm.count \in Nat
        BY SMTT(60) DEF AlarmInv, AlarmTypes, Alarm, NoAlarm
    <3> QED
        BY SMTT(60), <2>3, <3>1, <1>2 DEF AlarmInv, Counted
  <2>4. InCallback => /\ firing.alarm.count <= uniq_count'
                      /\ firing.alarm.fn \notin Exact => firing.alarm.is_active
                      /\ \A a \in alarms' : a.count # firing.alarm.count
      BY SMTT(60), <2>3, <1>2
  <2> QED
      BY <2>1, <2>2, <2>4, <1>4 DEF Counted
<1> QED
    BY SMTT(60), <1>1, <1>2, <1>3, <1>4, <1>5

\* register_alarm, which leaves the approximate alarms alone.
LEMMA RegisterAlarmKeeps ==
    ASSUME AlarmInv, NEW fn \in Exact, NEW delay \in 0..Delay, RegisterAlarm(fn, delay)
    PROVE  AlarmInv'
<1> DEFINE new == [fn |-> fn, left |-> delay, count |-> uniq_count + 1, is_active |-> TRUE]
<1>1. /\ new \in Alarm /\ alarms' = alarms \cup {new}
      /\ (InCallback' <=> InCallback) /\ (InLoop' <=> InLoop)
      /\ uniq_count' \in Nat
      /\ Counted'
      /\ UNCHANGED <<approx, firing, asserted>>
    BY PushFacts DEF RegisterAlarm
<1>2. AlarmTypes'
    BY <1>1 DEF AlarmInv, AlarmTypes
<1>3. new.fn = fn /\ fn \notin Once /\ fn \notin Again
    BY AlarmConstants
<1> HIDE DEF new
<1>4. ApproxInStep'
    BY SMTT(60), <1>1, <1>3 DEF AlarmInv, ApproxInStep
<1>5. Single' /\ FiringFirst' /\ Spaced'
    BY <1>1, <1>3 DEF AlarmInv, Single, FiringFirst, Spaced
<1> QED
    BY <1>1, <1>2, <1>4, <1>5 DEF AlarmInv

\* register_approx_alarm, when no alarm of the function is within slop of the new one.
LEMMA RegisterApproxAlarmKeeps ==
    ASSUME AlarmInv, NEW fn \in Once \cup Again, NEW delay \in 1..Delay,
           RegisterApproxAlarm(fn, delay)
    PROVE  AlarmInv'
<1> DEFINE new == [fn |-> fn, left |-> delay, count |-> uniq_count + 1, is_active |-> TRUE]
<1>1. /\ new \in Alarm /\ alarms' = alarms \cup {new}
      /\ \A a \in alarms : a.count # uniq_count + 1 /\ a.left \in Int /\ a.count \in Nat
      /\ (InCallback' <=> InCallback) /\ (InLoop' <=> InLoop)
      /\ uniq_count' \in Nat /\ uniq_count' = uniq_count + 1
      /\ Counted'
    BY SMTT(60), PushFacts, AlarmConstants DEF RegisterApproxAlarm
<1>2. /\ UNCHANGED <<firing, asserted>>
      /\ approx' = [approx EXCEPT ![fn] = approx[fn] \cup {uniq_count + 1}]
      /\ fn \in Again => approx[fn] = {}
      /\ ~Suppressed(fn, delay)
    BY <1>1 DEF RegisterApproxAlarm
<1>3. new.fn = fn /\ new.left = delay /\ new.count = uniq_count + 1 /\ delay \in Nat /\ delay >= 1
    BY SMTT(60), AlarmConstants
<1> HIDE DEF new
<1>4. approx' \in [Once \cup Again -> SUBSET Nat]
    BY <1>1, <1>2 DEF AlarmInv, AlarmTypes
<1>5. AlarmTypes'
    BY <1>1, <1>2, <1>4 DEF AlarmInv, AlarmTypes
<1>6. ApproxInStep'
  <2> SUFFICES ASSUME NEW f \in Once \cup Again
               PROVE  approx'[f] = {a.count : a \in {b \in alarms' : b.fn = f}}
                        \cup IF InCallback /\ firing.alarm.fn = f THEN {firing.alarm.count} ELSE {}
      BY <1>1, <1>2 DEF AlarmInv, ApproxInStep
  <2>1. approx[f] = {a.count : a \in {b \in alarms : b.fn = f}}
                        \cup IF InCallback /\ firing.alarm.fn = f THEN {firing.alarm.count} ELSE {}
      BY DEF AlarmInv, ApproxInStep
  <2>2. CASE f = fn
    <3>1. approx'[f] = approx[f] \cup {uniq_count + 1}
        BY <2>2, <1>2 DEF AlarmInv, AlarmTypes
    <3>2. {a.count : a \in {b \in alarms' : b.fn = f}}
            = {a.count : a \in {b \in alarms : b.fn = f}} \cup {uniq_count + 1}
        BY <2>2, <1>1, <1>3
    <3> QED
        BY <2>1, <3>1, <3>2
  <2>3. CASE f # fn
    <3>1. approx'[f] = approx[f]
        BY <2>3, <1>2 DEF AlarmInv, AlarmTypes
    <3>2. {b \in alarms' : b.fn = f} = {b \in alarms : b.fn = f}
        BY <2>3, <1>1, <1>3
    <3> QED
        BY <2>1, <3>1, <3>2
  <2> QED
      BY <2>2, <2>3
<1>7. Single'
    BY <1>2 DEF AlarmInv, AlarmTypes, Single
<1>8. ASSUME InCallback
      PROVE  firing.alarm.left \in Int /\ firing.alarm.left <= 0 /\ Before(firing.alarm, new)
    BY SMTT(60), <1>3, <1>8 DEF AlarmInv, AlarmTypes, Alarm, NoAlarm, FiringFirst, Before
<1>9. FiringFirst'
  <2>1. ASSUME InCallback, NEW a \in alarms', a.fn = firing.alarm.fn, a.fn \in Once
        PROVE  Before(firing.alarm, a)
      BY <2>1, <1>1, <1>8 DEF AlarmInv, FiringFirst
  <2> QED
      BY <2>1, <1>1, <1>2, <1>8 DEF FiringFirst, Before
<1>10. ASSUME NEW a \in alarms \cup (IF InCallback THEN {firing.alarm} ELSE {}), a.fn = fn
       PROVE  a.left \in Int /\ (a.left < delay - Slop \/ a.left > delay + Slop)
  <2>1. a.count \in approx[fn]
      BY SMTT(60), <1>10 DEF AlarmInv, ApproxInStep
  <2>2. AlarmOf(a.count) = a
    <3>1. /\ AlarmOf(a.count).count = a.count
          /\ AlarmOf(a.count) \in alarms \/ (InCallback /\ AlarmOf(a.count) = firing.alarm)
        BY <2>1, AlarmOfFacts DEF AlarmInv
    <3> QED
        BY <1>10, <3>1 DEF AlarmInv, Counted
  <2>3. a.left \in Int /\ Slop \in Nat
      BY <1>1, <1>8, <1>10, AlarmConstants
  <2> QED
      BY SMTT(60), <2>1, <2>2, <2>3, <1>2, <1>3 DEF Suppressed
<1>11. Spaced'
  <2>1. ASSUME NEW a \in alarms', NEW b \in alarms', a.fn = b.fn, a.fn \in Once, a # b
        PROVE  a.left - b.left \notin -Slop..Slop
    <3>1. CASE a = new
        BY SMTT(60), <2>1, <3>1, <1>1, <1>3, <1>10, AlarmConstants
    <3>2. CASE b = new
        BY SMTT(60), <2>1, <3>2, <1>1, <1>3, <1>10, AlarmConstants
    <3>3. CASE a # new /\ b # new
        BY <2>1, <3>3, <1>1 DEF AlarmInv, Spaced
    <3> QED
        BY <3>1, <3>2, <3>3
  <2>2. ASSUME InCallback, NEW a \in alarms', a.fn = firing.alarm.fn, a.fn \in Once
        PROVE  a.left - firing.alarm.left \notin -Slop..Slop
    <3>1. CASE a = new
        BY SMTT(60), <2>2, <3>1, <1>3, <1>8, <1>10, AlarmConstants
    <3>2. CASE a # new
        BY <2>2, <3>2, <1>1 DEF AlarmInv, Spaced
    <3> QED
        BY <3>1, <3>2
  <2> QED
      BY <2>1, <2>2, <1>1, <1>2 DEF Spaced
<1> QED
    BY <1>1, <1>5, <1>6, <1>7, <1>9, <1>11 DEF AlarmInv

\* unregister_alarm cancels one alarm and pops cancelled ones only.
LEMMA UnregisterAlarmKeeps ==
    ASSUME AlarmInv, NEW a \in alarms, UnregisterAlarm(a)
    PROVE  AlarmInv'
<1> DEFINE off == [a EXCEPT !.is_active = FALSE]
<1>1. /\ a \in Alarm /\ off \in Alarm
      /\ off.fn = a.fn /\ off.left = a.left /\ off.count = a.count
      /\ a.fn \in Exact /\ a.fn \notin Once /\ a.fn \notin Again
    BY AlarmConstants DEF AlarmInv, AlarmTypes, Alarm, UnregisterAlarm
<1> HIDE DEF off
<1>2. /\ alarms' \subseteq (alarms \ {a}) \cup {off}
      /\ \A b \in alarms : b.fn \notin Exact => b \in alarms'
      /\ UNCHANGED <<approx, uniq_count, firing, asserted>>
    BY <1>1 DEF UnregisterAlarm, WithoutInactiveHead, off, AlarmInv, Counted
<1>3. AlarmTypes' /\ Single'
    BY <1>1, <1>2 DEF AlarmInv, AlarmTypes, Single, InCallback, InLoop
<1>4. Counted'
    BY SMTT(60), <1>1, <1>2 DEF AlarmInv, Counted, InCallback
<1>5. \A fn \in Once \cup Again : {b \in alarms' : b.fn = fn} = {b \in alarms : b.fn = fn}
    BY <1>1, <1>2, AlarmConstants
<1>6. ApproxInStep'
    BY <1>2, <1>5 DEF AlarmInv, ApproxInStep, InCallback
<1>7. FiringFirst' /\ Spaced'
    BY <1>1, <1>2 DEF AlarmInv, FiringFirst, Spaced, InCallback, Before
<1> QED
    BY <1>3, <1>4, <1>6, <1>7 DEF AlarmInv

\* So is the one that fires.
LEMMA UnregisterFiringKeeps ==
    ASSUME AlarmInv, UnregisterFiring
    PROVE  AlarmInv'
<1> DEFINE a == firing.alarm
           off == [a EXCEPT !.is_active = FALSE]
<1>1. /\ InCallback /\ a \in Alarm /\ off \in Alarm
      /\ off.fn = a.fn /\ off.left = a.left /\ off.count = a.count
      /\ a.fn \in Exact /\ a.fn \notin Once /\ a.fn \notin Again
  <2>1. InCallback /\ a.fn \in Exact
      BY DEF UnregisterFiring
  <2>2. a \in Alarm
      BY SMTT(60), <2>1 DEF AlarmInv, AlarmTypes, NoAlarm, InCallback
  <2> QED
      BY <2>1, <2>2, AlarmConstants DEF Alarm
<1>2. /\ alarms' \subseteq alarms
      /\ \A b \in alarms : b.fn \notin Exact => b \in alarms'
      /\ UNCHANGED <<approx, uniq_count, asserted>>
    BY DEF UnregisterFiring, WithoutInactiveHead, AlarmInv, Counted
<1>3. /\ firing' = [firing EXCEPT !.alarm = off] /\ firing'.alarm = off /\ firing'.since = firing.since
      /\ InCallback' /\ (InLoop' <=> InLoop)
  <2>1. firing' = [firing EXCEPT !.alarm = off]
      BY DEF UnregisterFiring
  <2>2. firing \in [since : Int, alarm : Alarm \cup {NoAlarm}]
      BY DEF AlarmInv, AlarmTypes
  <2> HIDE DEF off
  <2>3. firing'.alarm = off /\ firing'.since = firing.since
      BY <2>1, <2>2
  <2> QED
      BY <1>1, <2>1, <2>3 DEF InCallback, InLoop
<1> HIDE DEF off
<1>4. AlarmTypes' /\ Single'
    BY <1>1, <1>2, <1>3 DEF AlarmInv, AlarmTypes, Single
<1>5. Counted'
    BY <1>1, <1>2, <1>3 DEF AlarmInv, Counted
<1>6. \A fn \in Once \cup Again : {b \in alarms' : b.fn = fn} = {b \in alarms : b.fn = fn}
    BY <1>2, AlarmConstants
<1>7. ApproxInStep'
    BY <1>1, <1>2, <1>3, <1>6 DEF AlarmInv, ApproxInStep
<1>8. FiringFirst' /\ Spaced'
    BY <1>1, <1>2, <1>3 DEF AlarmInv, FiringFirst, Spaced
<1> QED
    BY <1>4, <1>5, <1>7, <1>8 DEF AlarmInv

\* The loop of fire_alarms begins or ends.
LEMMA LoopKeeps ==
    ASSUME AlarmInv, FireAlarms \/ LoopEnds
    PROVE  AlarmInv'
<1>1. /\ UNCHANGED <<alarms, approx, uniq_count, live, asserted>>
      /\ ~InCallback /\ ~InCallback'
      /\ firing' \in [since : Int, alarm : Alarm \cup {NoAlarm}] /\ firing'.since >= -1
    BY SMTT(60) DEF FireAlarms, LoopEnds, NotFiring, NoAlarm, InCallback, InLoop, AlarmInv, AlarmTypes
<1> QED
    BY <1>1 DEF AlarmInv, AlarmTypes, Counted, ApproxInStep, Single, FiringFirst, Spaced

\* The head of the heap is popped and fired, unless it was cancelled.
LEMMA PopAlarmKeeps ==
    ASSUME AlarmInv, PopAlarm
    PROVE  AlarmInv'
<1> DEFINE a == First(alarms)
<1>1. a \in alarms /\ \A b \in alarms : b # a => Before(a, b)
    BY FirstFacts DEF AlarmInv, PopAlarm
<1>2. /\ Ready(a) /\ alarms' = alarms \ {a}
      /\ firing' = IF a.is_active THEN [firing EXCEPT !.alarm = a] ELSE firing
      /\ InLoop /\ ~InCallback
      /\ UNCHANGED <<approx, uniq_count, live, asserted>>
    BY DEF PopAlarm
<1> HIDE DEF a
<1>3. /\ a \in Alarm /\ a.left \in Int /\ a.count \in Nat \ {0} /\ a.fn \in Once \cup Again \cup Exact
      /\ firing.since \in Int /\ firing.since >= 0
    BY SMTT(60), <1>1, <1>2 DEF AlarmInv, AlarmTypes, Alarm, InLoop
<1>4. a.left <= 0
    BY SMTT(60), <1>2, <1>3 DEF Ready
<1>5. CASE ~a.is_active
  <2>1. firing' = firing /\ ~InCallback' /\ InLoop' /\ a.fn \in Exact
      BY <1>1, <1>2, <1>5 DEF InCallback, InLoop, AlarmInv, Counted
  <2>2. \A fn \in Once \cup Again : {b \in alarms' : b.fn = fn} = {b \in alarms : b.fn = fn}
      BY <2>1, <1>2, AlarmConstants
  <2>3. ApproxInStep'
      BY <1>2, <2>1, <2>2 DEF AlarmInv, ApproxInStep
  <2> QED
      BY <1>2, <2>1, <2>3 DEF AlarmInv, AlarmTypes, Counted, Single, FiringFirst, Spaced
<1>6. CASE a.is_active
  <2>1. /\ firing' = [firing EXCEPT !.alarm = a]
        /\ firing'.alarm = a /\ firing'.since = firing.since
        /\ InCallback' /\ InLoop'
      BY <1>2, <1>3, <1>6 DEF InCallback, InLoop, AlarmInv, AlarmTypes
  <2>2. AlarmTypes'
      BY <1>2, <1>3, <2>1 DEF AlarmInv, AlarmTypes
  <2>3. Counted' /\ Single'
      BY <1>1, <1>2, <1>6, <2>1 DEF AlarmInv, Counted, Single
  <2>4. FiringFirst'
      BY <1>1, <1>2, <1>4, <2>1 DEF FiringFirst, Before
  <2>5. Spaced'
      BY <1>1, <1>2, <2>1 DEF AlarmInv, Spaced
  <2>6. ApproxInStep'
    <3> SUFFICES ASSUME NEW fn \in Once \cup Again
                 PROVE  approx[fn] = {b.count : b \in {c \in alarms' : c.fn = fn}}
                          \cup IF a.fn = fn THEN {a.count} ELSE {}
        BY <1>2, <2>1 DEF AlarmInv, ApproxInStep
    <3>1. approx[fn] = {b.count : b \in {c \in alarms : c.fn = fn}}
        BY <1>2 DEF AlarmInv, ApproxInStep
    <3>2. CASE a.fn = fn
      <4>1. {c \in alarms : c.fn = fn} = {c \in alarms' : c.fn = fn} \cup {a}
          BY <1>1, <1>2, <3>2
      <4> QED
          BY SMTT(60), <3>1, <3>2, <4>1
    <3>3. CASE a.fn # fn
      <4>1. {c \in alarms : c.fn = fn} = {c \in alarms' : c.fn = fn}
          BY <1>1, <1>2, <3>3
      <4> QED
          BY <3>1, <3>3, <4>1
    <3> QED
        BY <3>2, <3>3
  <2> QED
      BY <2>2, <2>3, <2>4, <2>5, <2>6 DEF AlarmInv
<1> QED
    BY <1>5, <1>6

\* The alarm that was fired is the first in the heap of its function.
LEMMA FirstOfHeap ==
    ASSUME AlarmInv, InCallback, firing.alarm.fn \notin Exact
    PROVE  First({AlarmOf(n) : n \in approx[firing.alarm.fn]}) = firing.alarm
<1> DEFINE a == firing.alarm
           heap == {AlarmOf(n) : n \in approx[a.fn]}
<1>1. a \in Alarm /\ a.fn \in Once \cup Again /\ a.left \in Int /\ a.count \in Nat
    BY SMTT(60) DEF AlarmInv, AlarmTypes, Alarm, InCallback, NoAlarm
<1>2. a.count \in approx[a.fn] /\ AlarmOf(a.count) = a
    BY <1>1 DEF AlarmInv, ApproxInStep, AlarmOf
<1>3. a \in heap
    BY <1>2
<1>4. ASSUME NEW b \in heap, b # a
      PROVE  Before(a, b) /\ ~Before(b, a)
  <2>1. PICK n \in approx[a.fn] : b = AlarmOf(n)
      BY <1>4
  <2>2. b \in alarms /\ b.fn = a.fn /\ b.count = n
      BY SMTT(60), <1>1, <1>4, <2>1, AlarmOfFacts DEF AlarmInv
  <2>3. a.fn \in Once
    <3>1. n # a.count
        BY <1>2, <1>4, <2>1
    <3> QED
        BY SMTT(60), <1>1, <1>2, <2>1, <3>1 DEF AlarmInv, Single
  <2>4. b.left \in Int /\ b.count \in Nat
      BY <2>2 DEF AlarmInv, AlarmTypes, Alarm
  <2>5. Before(a, b)
      BY <2>2, <2>3 DEF AlarmInv, FiringFirst
  <2> QED
      BY SMTT(60), <1>1, <2>4, <2>5 DEF Before
<1> HIDE DEF heap
<1>5. \A b \in heap \ {a} : Before(a, b)
    BY <1>4
<1>6. /\ First(heap) \in heap
      /\ \A b \in heap \ {First(heap)} : Before(First(heap), b)
    BY <1>3, <1>5 DEF First
<1>7. First(heap) = a
    BY <1>3, <1>4, <1>6
<1> QED
    BY <1>7 DEF heap

\* The callback has ended: the alarm leaves the heap of its function.
LEMMA CallbackEndsKeeps ==
    ASSUME AlarmInv, CallbackEnds
    PROVE  AlarmInv'
<1> DEFINE a == firing.alarm
<1>1. /\ InCallback /\ a \in Alarm
      /\ a.fn \in Once \cup Again \cup Exact
      /\ firing' = [firing EXCEPT !.alarm = NoAlarm]
      /\ ~InCallback' /\ firing'.since = firing.since
      /\ UNCHANGED <<alarms, uniq_count>>
    BY SMTT(60) DEF CallbackEnds, InCallback, AlarmInv, AlarmTypes, Alarm, NoAlarm
<1>2. /\ asserted' = asserted
      /\ a.fn \in Exact => approx' = approx
      /\ a.fn \notin Exact => approx' = [approx EXCEPT ![a.fn] = @ \ {a.count}]
  <2>1. CASE a.fn \in Exact
      BY <2>1 DEF CallbackEnds, PopAndCleanupApproxAlarm
  <2>2. CASE a.fn \notin Exact
    <3>1. First({AlarmOf(n) : n \in approx[a.fn]}) = a
        BY <1>1, <2>2, FirstOfHeap
    <3>2. asserted = TRUE
        BY DEF AlarmInv, ApproxInStep
    <3> QED
        BY <2>2, <3>1, <3>2 DEF CallbackEnds, PopAndCleanupApproxAlarm
  <2> QED
      BY <2>1, <2>2
<1>3. approx' \in [Once \cup Again -> SUBSET Nat]
    BY SMTT(60), <1>2 DEF AlarmInv, AlarmTypes
<1>4. AlarmTypes'
    BY <1>1, <1>3 DEF AlarmInv, AlarmTypes
<1>5. Counted' /\ FiringFirst' /\ Spaced'
    BY <1>1 DEF AlarmInv, Counted, FiringFirst, Spaced
<1>6. \A fn \in Once \cup Again :
          approx'[fn] = IF fn = a.fn THEN approx[fn] \ {a.count} ELSE approx[fn]
    BY <1>2, AlarmConstants DEF AlarmInv, AlarmTypes
<1>7. Single'
    BY <1>6 DEF AlarmInv, Single
<1>8. ApproxInStep'
  <2> SUFFICES ASSUME NEW fn \in Once \cup Again
               PROVE  approx'[fn] = {b.count : b \in {c \in alarms : c.fn = fn}}
      BY <1>1, <1>2 DEF AlarmInv, ApproxInStep
  <2>1. CASE fn = a.fn
    <3>1. approx[fn] = {b.count : b \in {c \in alarms : c.fn = fn}} \cup {a.count}
        BY <1>1, <2>1 DEF AlarmInv, ApproxInStep
    <3>2. a.count \notin {b.count : b \in {c \in alarms : c.fn = fn}}
        BY <1>1 DEF AlarmInv, Counted
    <3> QED
        BY <1>6, <2>1, <3>1, <3>2
  <2>2. CASE fn # a.fn
      BY <1>6, <2>2 DEF AlarmInv, ApproxInStep
  <2> QED
      BY <2>1, <2>2
<1> QED
    BY <1>4, <1>5, <1>7, <1>8 DEF AlarmInv

\* The callback has returned a delay: the alarm goes back with its count.
LEMMA CallbackReschedulesKeeps ==
    ASSUME AlarmInv, CallbackReschedules
    PROVE  AlarmInv'
<1> DEFINE a == firing.alarm
           next == [a EXCEPT !.left = Delay]
<1>1. /\ InCallback /\ a \in Alarm /\ a.fn \notin Once
      /\ firing' = [firing EXCEPT !.alarm = NoAlarm]
      /\ ~InCallback' /\ firing'.since = firing.since
      /\ alarms' = alarms \cup {next}
      /\ UNCHANGED <<approx, uniq_count, asserted>>
    BY SMTT(60), AlarmConstants DEF CallbackReschedules, Rescheduled, InCallback, AlarmInv, AlarmTypes,
           Alarm, NoAlarm
<1>2. /\ next \in Alarm /\ next.fn = a.fn /\ next.count = a.count /\ next.left = Delay
      /\ next.is_active = a.is_active
    BY SMTT(60), <1>1, AlarmConstants DEF Alarm
<1> HIDE DEF next
<1>3. AlarmTypes' /\ Single'
    BY <1>1, <1>2 DEF AlarmInv, AlarmTypes, Single
<1>4. Counted'
  <2>1. a.count <= uniq_count /\ \A b \in alarms : b.count # a.count
      BY <1>1 DEF AlarmInv, Counted
  <2>2. Delay >= -MaxLate
      BY SMTT(60), AlarmConstants
  <2>3. a.fn \notin Exact => a.is_active
      BY <1>1 DEF AlarmInv, Counted
  <2>4. \A b, c \in alarms' : b.count = c.count => b = c
      BY SMTT(60), <1>1, <1>2, <2>1 DEF AlarmInv, Counted
  <2>5. \A b \in alarms' : /\ b.count <= uniq_count' /\ b.left >= -MaxLate
                           /\ b.fn \notin Exact => b.is_active
      BY <1>1, <1>2, <2>1, <2>2, <2>3 DEF AlarmInv, Counted
  <2> QED
      BY <1>1, <2>4, <2>5 DEF Counted
<1>5. FiringFirst' /\ Spaced'
    BY SMTT(60), <1>1, <1>2 DEF AlarmInv, FiringFirst, Spaced
<1>6. ApproxInStep'
  <2> SUFFICES ASSUME NEW fn \in Once \cup Again
               PROVE  approx[fn] = {b.count : b \in {c \in alarms' : c.fn = fn}}
      BY <1>1 DEF AlarmInv, ApproxInStep
  <2>1. CASE fn = a.fn
    <3>1. approx[fn] = {b.count : b \in {c \in alarms : c.fn = fn}} \cup {a.count}
        BY <1>1, <2>1 DEF AlarmInv, ApproxInStep
    <3>2. {c \in alarms' : c.fn = fn} = {c \in alarms : c.fn = fn} \cup {next}
        BY <1>1, <1>2, <2>1
    <3> QED
        BY SMTT(60), <1>2, <3>1, <3>2
  <2>2. CASE fn # a.fn
    <3>1. {c \in alarms' : c.fn = fn} = {c \in alarms : c.fn = fn}
        BY <1>1, <1>2, <2>2
    <3> QED
        BY SMTT(60), <2>2, <3>1 DEF AlarmInv, ApproxInStep
  <2> QED
      BY <2>1, <2>2
<1> QED
    BY <1>3, <1>4, <1>5, <1>6 DEF AlarmInv

\* Time passes for all alarms alike.
LEMMA TimePassesKeeps ==
    ASSUME AlarmInv, TimePasses
    PROVE  AlarmInv'
<1> DEFINE older(a) == [a EXCEPT !.left = @ - 1]
<1>1. \A a \in Alarm : /\ older(a) \in Alarm /\ older(a).fn = a.fn /\ older(a).count = a.count
                       /\ older(a).left = a.left - 1 /\ older(a).is_active = a.is_active
    BY SMTT(60) DEF Alarm
<1>2. /\ alarms' = {older(a) : a \in alarms}
      /\ UNCHANGED <<approx, uniq_count, live, asserted>>
      /\ \A a \in alarms : a \in Alarm /\ a.left > -MaxLate /\ a.left \in Int /\ a.count \in Nat
    BY DEF TimePasses, AlarmInv, AlarmTypes, Alarm
<1> HIDE DEF older
<1>3. /\ InLoop' <=> InLoop
      /\ InCallback' <=> InCallback
      /\ firing' \in [since : Int, alarm : Alarm \cup {NoAlarm}] /\ firing'.since >= -1
      /\ InCallback => firing'.alarm = older(firing.alarm) /\ firing.alarm \in Alarm
                        /\ firing.alarm.left \in Int /\ firing.alarm.count \in Nat
  <2>1. CASE ~InLoop
      BY <2>1 DEF TimePasses, AlarmInv, AlarmTypes, InLoop, InCallback
  <2>2. CASE InLoop /\ ~InCallback
      BY SMTT(60), <2>2 DEF TimePasses, AlarmInv, AlarmTypes, InLoop, InCallback, NoAlarm
  <2>3. CASE InLoop /\ InCallback
    <3>1. firing.alarm \in Alarm /\ firing.alarm.count # 0 /\ firing.since \in Int /\ firing.since >= 0
        BY SMTT(60), <2>3 DEF AlarmInv, AlarmTypes, InCallback, NoAlarm, InLoop
    <3>2. firing' = [since |-> firing.since + 1, alarm |-> older(firing.alarm)]
        BY <2>3 DEF TimePasses, older
    <3>3. firing.alarm.left \in Int /\ firing.alarm.count \in Nat
        BY <3>1 DEF Alarm
    <3>4. firing'.alarm = older(firing.alarm) /\ firing'.since = firing.since + 1
        BY <3>2
    <3>5. InCallback' /\ InLoop'
        BY SMTT(60), <1>1, <3>1, <3>4 DEF InCallback, InLoop
    <3>6. firing' \in [since : Int, alarm : Alarm \cup {NoAlarm}] /\ firing'.since >= -1
        BY SMTT(60), <1>1, <3>1, <3>2
    <3> QED
        BY <2>3, <3>1, <3>3, <3>4, <3>5, <3>6
  <2> QED
      BY <2>1, <2>2, <2>3
<1>4. AlarmTypes' /\ Single'
    BY SMTT(60), <1>1, <1>2, <1>3 DEF AlarmInv, AlarmTypes, Single
<1>5. Counted'
  <2>1. ASSUME NEW a \in alarms', NEW b \in alarms', a.count = b.count PROVE a = b
      BY SMTT(60), <2>1, <1>1, <1>2 DEF AlarmInv, Counted
  <2>2. ASSUME NEW a \in alarms'
        PROVE  /\ a.count <= uniq_count' /\ a.left >= -MaxLate
               /\ a.fn \notin Exact => a.is_active
    <3>1. PICK b \in alarms : a = older(b)
        BY <1>2
    <3>2. b.left - 1 >= -MaxLate
        BY SMTT(60), <1>2, AlarmConstants
    <3> QED
        BY <3>1, <3>2, <1>1, <1>2 DEF AlarmInv, Counted
  <2>3. ASSUME InCallback
        PROVE  /\ firing'.alarm.count <= uniq_count'
               /\ firing'.alarm.fn \notin Exact => firing'.alarm.is_active
               /\ \A a \in alarms' : a.count # firing'.alarm.count
      BY SMTT(60), <2>3, <1>1, <1>2, <1>3 DEF AlarmInv, Counted
  <2> QED
      BY <2>1, <2>2, <2>3, <1>3 DEF Counted
<1>6. ApproxInStep'
  <2> SUFFICES ASSUME NEW fn \in Once \cup Again
               PROVE  approx[fn] = {b.count : b \in {c \in alarms' : c.fn = fn}}
                        \cup IF InCallback' /\ firing'.alarm.fn = fn THEN {firing'.alarm.count} ELSE {}
      BY <1>2 DEF AlarmInv, ApproxInStep
  <2>1. {b.count : b \in {c \in alarms' : c.fn = fn}} = {b.count : b \in {c \in alarms : c.fn = fn}}
      BY SMTT(60), <1>1, <1>2
  <2>2. InCallback => firing'.alarm.fn = firing.alarm.fn /\ firing'.alarm.count = firing.alarm.count
      BY SMTT(60), <1>1, <1>3
  <2> QED
      BY <1>3, <2>1, <2>2 DEF AlarmInv, ApproxInStep
<1>7. \A a, b \in Alarm : Before(a, b) => Before(older(a), older(b))
    BY SMTT(60), <1>1 DEF Before, Alarm
<1>8. FiringFirst'
    BY SMTT(60), <1>1, <1>2, <1>3, <1>7 DEF AlarmInv, FiringFirst
<1>9. Spaced'
  <2>1. ASSUME NEW a \in alarms', NEW b \in alarms', a.fn = b.fn, a.fn \in Once, a # b
        PROVE  a.left - b.left \notin -Slop..Slop
    <3>1. PICK c \in alarms, d \in alarms : a = older(c) /\ b = older(d)
        BY <1>2
    <3>2. c.left - d.left \notin -Slop..Slop
        BY <2>1, <3>1, <1>1, <1>2 DEF AlarmInv, Spaced
    <3>3. a.left - b.left = c.left - d.left
        BY SMTT(60), <3>1, <1>1, <1>2
    <3> QED
        BY <3>2, <3>3
  <2>2. ASSUME InCallback, NEW a \in alarms', a.fn = firing'.alarm.fn, a.fn \in Once
        PROVE  a.left - firing'.alarm.left \notin -Slop..Slop
    <3>1. PICK c \in alarms : a = older(c)
        BY <1>2
    <3>2. c.left - firing.alarm.left \notin -Slop..Slop
        BY SMTT(60), <2>2, <3>1, <1>1, <1>2, <1>3 DEF AlarmInv, Spaced
    <3>3. a.left - firing'.alarm.left = c.left - firing.alarm.left
        BY SMTT(60), <2>2, <3>1, <1>1, <1>2, <1>3
    <3> QED
        BY <3>2, <3>3
  <2> QED
      BY <2>1, <2>2, <1>3 DEF Spaced
<1> QED
    BY <1>4, <1>5, <1>6, <1>8, <1>9 DEF AlarmInv

-----------------------------------------------------------------------------
\* The alarms of the heap, their counts and the heaps of the functions agree in
\* every state that AlarmQueue can be in.
THEOREM AlarmsInvariant ==
    AlarmsSpec => []AlarmInv
<1>1. AlarmsInit => AlarmInv
    BY SMTT(60) DEF AlarmsInit, AlarmInv, AlarmTypes, Counted, ApproxInStep, Single, FiringFirst,
           Spaced, InCallback, InLoop, NotFiring, NoAlarm
<1>2. ASSUME AlarmInv, [AlarmsNext]_alarmqueue PROVE AlarmInv'
  <2>1. CASE UNCHANGED alarmqueue
      BY SMTT(60), <1>2, <2>1 DEF alarmqueue, AlarmInv, AlarmTypes, Counted, ApproxInStep, Single,
             FiringFirst, Spaced, InCallback, InLoop
  <2> QED
      BY <1>2, <2>1, RegisterAlarmKeeps, RegisterApproxAlarmKeeps, UnregisterAlarmKeeps,
         UnregisterFiringKeeps, LoopKeeps, PopAlarmKeeps, CallbackEndsKeeps, CallbackReschedulesKeeps, TimePassesKeeps DEF AlarmsNext, LoopStep
<1> QED
    BY <1>1, <1>2, PTL DEF AlarmsSpec

\* approx_alarms_scheduled holds exactly the alarms that are still to fire or
\* firing, and the assertion of _pop_and_cleanup_approx_alarm never fails.
THEOREM ApproxAlwaysInStep ==
    AlarmsSpec => []ApproxInStep
<1>1. AlarmInv => ApproxInStep
    BY DEF AlarmInv
<1> QED
    BY <1>1, AlarmsInvariant, PTL

\* Two alarms of a function registered with register_approx_alarm are always
\* more than slop apart.
THEOREM ApproxAlwaysSpaced ==
    AlarmsSpec => []ApproxSpaced
<1>1. AlarmInv => ApproxSpaced
    BY SpacedFacts
<1> QED
    BY <1>1, AlarmsInvariant, PTL

-----------------------------------------------------------------------------
(* ExpiringSet                                                             *)

\* What is in the contents is in the queue, and the order is one of its items.
ContentsQueued ==
    /\ contents \subseteq queue.items
    /\ queue.before \subseteq queue.items \X queue.items

\* An item that has not expired has an alarm that fires when it has, or later.
Covered ==
    \A i \in queue.items : age[i] <= Ttl => \E f \in cleanups : f + age[i] >= Ttl

\* As long as the queue has an item there is an alarm.
QueueWatched ==
    queue.items # {} => cleanups # {}

CleanupInv == ItemsTypeOK /\ ContentsQueued /\ Covered /\ QueueWatched

\* The queue's add keeps its shape, and has the items its name says.
LEMMA AddFacts ==
    ASSUME NEW S, NEW q, IsOrdered(q, S), NEW x \in S
    PROVE  /\ IsOrdered(AddItem(q, x), S)
           /\ AddItem(q, x).items = q.items \cup {x}
           /\ q.before \subseteq q.items \X q.items =>
                  AddItem(q, x).before \subseteq AddItem(q, x).items \X AddItem(q, x).items
BY SMTT(60) DEF IsOrdered, AddItem

\* The queue's remove and popitem keep its shape, and take what they should.
LEMMA RemoveFacts ==
    ASSUME NEW S, NEW q, IsOrdered(q, S), NEW X
    PROVE  /\ IsOrdered(RemoveItems(q, X), S)
           /\ RemoveItems(q, X).items = q.items \ X
           /\ q.before \subseteq q.items \X q.items =>
                  RemoveItems(q, X).before \subseteq RemoveItems(q, X).items \X RemoveItems(q, X).items
BY SMTT(60) DEF IsOrdered, RemoveItems

\* Every step keeps the types: ages stop at Ttl + 1, and an alarm is fired before
\* it is more than MaxWait late.
LEMMA TypeStep ==
    ItemsTypeOK /\ [ItemsNext]_expiring => ItemsTypeOK'
<1> SUFFICES ASSUME ItemsTypeOK, [ItemsNext]_expiring PROVE ItemsTypeOK'
    OBVIOUS
<1> USE TimesAssumption
<1>1. ASSUME NEW i \in Item, Add(i) PROVE ItemsTypeOK'
    BY SMTT(60), <1>1, AddFacts DEF ItemsTypeOK, Add, RegisterCleanup
<1>2. ASSUME NEW i \in Item, Remove(i) PROVE ItemsTypeOK'
    BY <1>2 DEF ItemsTypeOK, Remove
<1>3. ASSUME NEW i \in Item, DelItem(i) PROVE ItemsTypeOK'
    BY SMTT(60), <1>3, RemoveFacts DEF ItemsTypeOK, DelItem
<1>4. ASSUME Cleanup PROVE ItemsTypeOK'
    BY SMTT(60), <1>4, RemoveFacts DEF ItemsTypeOK, Cleanup
<1>5. ASSUME Tick PROVE ItemsTypeOK'
    BY SMTT(60), <1>5 DEF ItemsTypeOK, Tick, Expired
<1>6. ASSUME UNCHANGED expiring PROVE ItemsTypeOK'
    BY <1>6 DEF ItemsTypeOK, expiring
<1> QED
    BY <1>1, <1>2, <1>3, <1>4, <1>5, <1>6 DEF ItemsNext

\* After a cleanup an item that has not expired is still covered: the alarm just
\* fired was past its time, so it is not the one that covers the item.
LEMMA CleanupKeepsCovered ==
    ASSUME CleanupInv, ~ExactClock, Cleanup
    PROVE  Covered'
<1> USE TimesAssumption
<1>1. PICK f \in cleanups : f < 0 /\ cleanups' = cleanups \ {f}
    BY DEF Cleanup, FirstDue
<1>2. queue'.items \subseteq queue.items /\ age' = age
    BY SMTT(60), RemoveFacts DEF Cleanup, CleanupInv, ItemsTypeOK
<1>3. SUFFICES ASSUME NEW i \in queue.items, age[i] <= Ttl
               PROVE  \E g \in cleanups \ {f} : g + age[i] >= Ttl
    BY SMTT(60), <1>1, <1>2 DEF Covered
<1>4. PICK g \in cleanups : g + age[i] >= Ttl
    BY <1>3 DEF CleanupInv, Covered
<1>5. g # f
    <2>1. f \in Int /\ i \in Item /\ age[i] \in Nat
        BY SMTT(60) DEF CleanupInv, ItemsTypeOK, IsOrdered
    <2> QED
        BY SMTT(60), <1>1, <1>3, <1>4, <2>1
<1> QED
    BY <1>4, <1>5

\* After a cleanup the queue is empty or still watched: what is left is an item
\* that has not expired, or an item behind such a one.
LEMMA CleanupKeepsWatched ==
    ASSUME CleanupInv, ~ExactClock, Cleanup
    PROVE  QueueWatched'
<1>1. SUFFICES ASSUME NEW i \in queue'.items
               PROVE  cleanups' # {}
    BY DEF QueueWatched
<1>2. queue'.items = queue.items \ ExpiredPrefix /\ age' = age
    BY SMTT(60), RemoveFacts DEF Cleanup, CleanupInv, ItemsTypeOK
<1>3. PICK j \in queue.items : ~Expired(j)
    BY <1>1, <1>2 DEF ExpiredPrefix
<1>4. j \in queue'.items
    BY <1>2, <1>3 DEF ExpiredPrefix
<1>5. age'[j] <= Ttl
    <2>1. age[j] \in Nat
        BY SMTT(60) DEF CleanupInv, ItemsTypeOK, IsOrdered
    <2> QED
        BY SMTT(60), <1>2, <1>3, <2>1, TimesAssumption DEF Expired
<1> QED
    BY <1>4, <1>5, CleanupKeepsCovered DEF Covered

\* The invariant is inductive as long as an alarm never fires at the very instant
\* of its fire_time.
LEMMA InvariantStep ==
    ASSUME ~ExactClock, CleanupInv, [ItemsNext]_expiring
    PROVE  CleanupInv'
<1> USE TimesAssumption
<1>0. ItemsTypeOK'
    BY TypeStep DEF CleanupInv
<1>1. ASSUME NEW i \in Item, Add(i) PROVE (ContentsQueued /\ Covered /\ QueueWatched)'
    <2>1. PICK f \in cleanups' : Ttl <= f
        BY SMTT(60), <1>1 DEF Add, RegisterCleanup
    <2>2. cleanups \subseteq cleanups' /\ contents' = contents \cup {i} /\ queue' = AddItem(queue, i)
        BY <1>1 DEF Add, RegisterCleanup
    <2>3. queue'.items = queue.items \cup {i} /\ ContentsQueued'
        BY SMTT(60), <2>2, AddFacts DEF ContentsQueued, CleanupInv, ItemsTypeOK
    <2>4. f \in Int
        BY SMTT(60), <1>0 DEF ItemsTypeOK
    <2>5. age'[i] = 0 /\ \A j \in Item \ {i} : age'[j] = age[j]
        BY <1>1 DEF Add, CleanupInv, ItemsTypeOK
    <2>6. ASSUME NEW j \in queue'.items, age'[j] <= Ttl PROVE \E g \in cleanups' : g + age'[j] >= Ttl
        <3>1. CASE j = i
            BY SMTT(60), <2>1, <2>4, <2>5, <3>1
        <3>2. CASE j # i
            BY <2>2, <2>3, <2>5, <2>6, <3>2 DEF CleanupInv, ItemsTypeOK, IsOrdered, Covered
        <3> QED
            BY <3>1, <3>2
    <2> QED
        BY <2>1, <2>3, <2>6 DEF Covered, QueueWatched
<1>2. ASSUME NEW i \in Item, Remove(i) PROVE (ContentsQueued /\ Covered /\ QueueWatched)'
    BY <1>2 DEF CleanupInv, ContentsQueued, Covered, QueueWatched, Remove
<1>3. ASSUME NEW i \in Item, DelItem(i) PROVE (ContentsQueued /\ Covered /\ QueueWatched)'
    <2>1. queue'.items = queue.items \ {i} /\ ContentsQueued'
        BY SMTT(60), <1>3, RemoveFacts DEF DelItem, ContentsQueued, CleanupInv, ItemsTypeOK
    <2>2. age' = age /\ cleanups' = cleanups
        BY <1>3 DEF DelItem
    <2>3. Covered /\ QueueWatched
        BY DEF CleanupInv
    <2>4. Covered'
        BY <2>1, <2>2, <2>3 DEF Covered
    <2>5. QueueWatched'
        BY <2>1, <2>2, <2>3 DEF QueueWatched
    <2> QED
        BY <2>1, <2>4, <2>5
<1>4. ASSUME Cleanup PROVE (ContentsQueued /\ Covered /\ QueueWatched)'
    <2>1. ContentsQueued'
        BY SMTT(60), <1>4, RemoveFacts DEF Cleanup, ContentsQueued, CleanupInv, ItemsTypeOK
    <2> QED
        BY <1>4, <2>1, CleanupKeepsCovered, CleanupKeepsWatched
<1>5. ASSUME Tick PROVE (ContentsQueued /\ Covered /\ QueueWatched)'
    <2>1. ContentsQueued' /\ QueueWatched'
        BY <1>5 DEF Tick, CleanupInv, ContentsQueued, QueueWatched
    <2>2. ASSUME NEW i \in queue.items, age'[i] <= Ttl PROVE \E g \in cleanups' : g + age'[i] >= Ttl
        <3>1. i \in Item /\ age[i] \in Nat
            BY SMTT(60) DEF CleanupInv, ItemsTypeOK, IsOrdered
        <3>2. age[i] <= Ttl /\ age'[i] = age[i] + 1
            BY SMTT(60), <1>5, <2>2, <3>1 DEF Tick, Expired
        <3>3. PICK f \in cleanups : f + age[i] >= Ttl
            BY <3>2 DEF CleanupInv, Covered
        <3>4. f \in Int /\ f - 1 \in cleanups'
            BY SMTT(60), <1>5 DEF Tick, CleanupInv, ItemsTypeOK
        <3> QED
            BY SMTT(60), <3>1, <3>2, <3>3, <3>4
    <2> QED
        BY <1>5, <2>1, <2>2 DEF Tick, Covered
<1>6. ASSUME UNCHANGED expiring PROVE (ContentsQueued /\ Covered /\ QueueWatched)'
    BY <1>6 DEF expiring, CleanupInv, ContentsQueued, Covered, QueueWatched
<1> QED
    BY <1>0, <1>1, <1>2, <1>3, <1>4, <1>5, <1>6 DEF ItemsNext, CleanupInv

\* The shapes hold in every reachable state, at any clock.
THEOREM TypeCorrect == ItemsSpec => []ItemsTypeOK
<1>1. ItemsInit => ItemsTypeOK
    BY SMTT(60), TimesAssumption DEF ItemsInit, ItemsTypeOK, NoItems, IsOrdered
<1> QED
    BY <1>1, TypeStep, PTL DEF ItemsSpec

\* Nothing is ever left in the collection without a cleanup to come, for any
\* sequence of adds, refreshes, removals and late alarms, unless an alarm fires at
\* the very instant of its fire_time.
THEOREM NeverStranded ==
    ASSUME ~ExactClock
    PROVE  ItemsSpec => []NothingStranded
<1>1. ItemsInit => CleanupInv
    BY SMTT(60), TimesAssumption
    DEF ItemsInit, CleanupInv, ItemsTypeOK, NoItems, IsOrdered, ContentsQueued, Covered, QueueWatched
<1>2. CleanupInv /\ [ItemsNext]_expiring => CleanupInv'
    BY InvariantStep
<1>3. CleanupInv => NothingStranded
    BY DEF CleanupInv, ContentsQueued, QueueWatched, NothingStranded
<1> QED
    BY <1>1, <1>2, <1>3, PTL DEF ItemsSpec

\* Approximate alarms coalesce: pending cleanups are always further apart than the
\* slop, because a new one is registered only when every other is due before the
\* window opens.
THEOREM CleanupsAlwaysSpaced == ItemsSpec => []CleanupsSpaced
<1> USE TimesAssumption
<1>1. ItemsInit => ItemsTypeOK /\ CleanupsSpaced
    BY SMTT(60) DEF ItemsInit, ItemsTypeOK, NoItems, IsOrdered, CleanupsSpaced
<1>2. ItemsTypeOK /\ CleanupsSpaced /\ [ItemsNext]_expiring => ItemsTypeOK' /\ CleanupsSpaced'
    <2> SUFFICES ASSUME ItemsTypeOK, CleanupsSpaced, [ItemsNext]_expiring PROVE CleanupsSpaced'
        BY TypeStep
    <2>1. ASSUME NEW i \in Item, Add(i) PROVE CleanupsSpaced'
        BY SMTT(60), <2>1 DEF Add, RegisterCleanup, ItemsTypeOK, CleanupsSpaced
    <2>2. ASSUME Tick PROVE CleanupsSpaced'
        BY SMTT(60), <2>2 DEF Tick, ItemsTypeOK, CleanupsSpaced
    <2>3. ASSUME cleanups' \subseteq cleanups PROVE CleanupsSpaced'
        BY <2>3 DEF CleanupsSpaced
    <2> QED
        BY <2>1, <2>2, <2>3 DEF ItemsNext, Remove, DelItem, Cleanup, expiring
<1> QED
    BY <1>1, <1>2, PTL DEF ItemsSpec

=============================================================================
