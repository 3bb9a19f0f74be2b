---------------------------- MODULE ExpiringSet -----------------------------
(***************************************************************************)
(* A collection whose items expire: utils/expiring_set.py and              *)
(* utils/expiring_dict.py (the same contents, queue and alarm), on top of  *)
(* utils/expiration_queue.py and of the approximate alarms of              *)
(* utils/alarm_queue.py.                                                   *)
(*                                                                         *)
(* Time passes in ticks.  An item has the age of its timestamp, an alarm   *)
(* the time left until its fire_time; an age that is past the time to live *)
(* is not told apart from an older one.  approx_alarms_scheduled holds the *)
(* same alarms as the alarm queue, for cleanup returns 0 and never raises. *)
(***************************************************************************)
EXTENDS Integers, OrderedItems

CONSTANTS
    Item,
    Ttl,            \* expiration_time_s
    MaxWait,        \* how late the event loop may fire an alarm
    ExactClock      \* may an alarm fire at the very instant of its fire_time?

ASSUME TimesAssumption ==
    /\ Ttl \in Nat \ {0}
    /\ MaxWait \in Nat \ {0}
    /\ ExactClock \in BOOLEAN

VARIABLES
    contents,
    queue,          \* _expiration_queue: its items, oldest place first
    age,            \* the age of the timestamp of each item of the queue
    cleanups        \* the times left of the alarms that call cleanup

expiring == <<contents, queue, age, cleanups>>

ItemsInit ==
    /\ contents = {}
    /\ queue = NoItems
    /\ age = [i \in Item |-> 0]
    /\ cleanups = {}

Expired(i) == age[i] > Ttl

\* Mutant: twice the slop is added to the delay.
RegisterCleanupLate ==
    cleanups' = IF \E f \in cleanups : Ttl <= f /\ f <= 3 * Ttl
                THEN cleanups
                ELSE cleanups \cup {3 * Ttl}

\* Mutant: any pending alarm will do.
RegisterCleanupOnce ==
    cleanups' = IF cleanups # {} THEN cleanups ELSE {2 * Ttl}

\* Mutant: the window is the time to live at its end only.
RegisterCleanupOften ==
    cleanups' = IF \E f \in cleanups : 2 * Ttl <= f /\ f <= 3 * Ttl
                THEN cleanups
                ELSE cleanups \cup {2 * Ttl}

\* register_approx_alarm(expiration_time * 2, expiration_time, cleanup)
RegisterCleanup ==
    cleanups' = IF \E f \in cleanups : Ttl <= f /\ f <= 3 * Ttl
                THEN cleanups
                ELSE cleanups \cup {2 * Ttl}

\* add.  An item already in the queue gets a new timestamp and keeps its place.
\* (ExpiringDict.__setitem__ adds a new key and changes nothing here for a known
\* one.)
Add(i) ==
    /\ contents' = contents \cup {i}
    /\ queue' = AddItem(queue, i)
    /\ age' = [age EXCEPT ![i] = 0]
    /\ RegisterCleanup

\* ExpiringSet.remove and ExpiringDict.remove_item: the queue keeps the item.
Remove(i) ==
    /\ i \in contents
    /\ contents' = contents \ {i}
    /\ UNCHANGED <<queue, age, cleanups>>

\* ExpiringDict.__delitem__
DelItem(i) ==
    /\ i \in contents
    /\ contents' = contents \ {i}
    /\ queue' = RemoveItems(queue, {i})
    /\ UNCHANGED <<age, cleanups>>

\* remove_expired pops from the front until the item there has not expired.
ExpiredPrefix ==
    {i \in queue.items : Expired(i) /\ \A j \in queue.items : <<j, i>> \in queue.before => Expired(j)}

\* fire_ready_alarms: the alarm that fire_alarms pops next.
FirstDue(f) ==
    /\ \A g \in cleanups : f <= g
    /\ IF ExactClock THEN f <= 0 ELSE f < 0

\* Mutant: remove_expired is called without its callback.
CleanupNoCallback ==
    \E f \in cleanups :
        /\ FirstDue(f)
        /\ cleanups' = cleanups \ {f}
        /\ queue' = RemoveItems(queue, ExpiredPrefix)
        /\ UNCHANGED <<contents, age>>

\* A due alarm is fired.  cleanup returns 0: it does not ask for another one.
Cleanup ==
    \E f \in cleanups :
        /\ FirstDue(f)
        /\ cleanups' = cleanups \ {f}
        /\ queue' = RemoveItems(queue, ExpiredPrefix)
        /\ contents' = contents \ ExpiredPrefix
        /\ UNCHANGED age

\* The clock: alarms wait at most MaxWait ticks to be fired.
Tick ==
    /\ \A f \in cleanups : f > -MaxWait
    /\ cleanups' = {f - 1 : f \in cleanups}
    /\ age' = [i \in Item |-> IF Expired(i) THEN age[i] ELSE age[i] + 1]
    /\ UNCHANGED <<contents, queue>>

ItemsNext ==
    \/ \E i \in Item : Add(i) \/ Remove(i) \/ DelItem(i)
    \/ Cleanup
    \/ Tick

\* Time passes and due alarms are fired.
ItemsSpec == ItemsInit /\ [][ItemsNext]_expiring /\ WF_expiring(Tick) /\ WF_expiring(Cleanup)

-----------------------------------------------------------------------------
(* Properties                                                              *)

\* The shapes of the contents, the queue, the timestamps and the alarms.
ItemsTypeOK ==
    /\ contents \subseteq Item
    /\ IsOrdered(queue, Item)
    /\ age \in [Item -> 0..(Ttl + 1)]
    /\ cleanups \subseteq (-MaxWait)..(2 * Ttl)

\* Whatever is left in the queue will be looked at by a further cleanup: none
\* is the last one as long as an item remains, although cleanup stops at a
\* refreshed item, registers nothing itself, and add relies on an alarm that an
\* earlier add has registered.
NothingStranded ==
    contents # {} => cleanups # {}

\* The referenced function is executed once in an interval of the slop: two
\* pending cleanups are more than the time to live apart, whatever adds came
\* when.
CleanupsSpaced ==
    \A f, g \in cleanups : f < g => g - f > Ttl

AnyAdd == \E i \in Item : Add(i)

\* Once nothing is added any more the collection becomes empty and stays so.
Drains ==
    <>[][~AnyAdd]_expiring => <>[](contents = {})
=============================================================================
