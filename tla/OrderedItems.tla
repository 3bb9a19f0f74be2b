---------------------------- MODULE OrderedItems ----------------------------
(***************************************************************************)
(* The order kept by a Python OrderedDict, which utils/expiration_queue.py *)
(* uses as its queue: the keys, and which of them was inserted before      *)
(* which.  Assigning to a key that is present keeps its place; deleting    *)
(* keys keeps the order of the others; popitem(last=False) takes the key   *)
(* no other key precedes.                                                  *)
(***************************************************************************)

NoItems == [items |-> {}, before |-> {}]

IsOrdered(q, S) ==
    /\ q \in [items : SUBSET S, before : SUBSET (S \X S)]

\* ExpirationQueue.add: a new item goes to the end, a known one stays.
AddItem(q, x) ==
    IF x \in q.items
    THEN q
    ELSE [items  |-> q.items \cup {x},
          before |-> q.before \cup (q.items \X {x})]

\* ExpirationQueue.remove, for every item of X.
RemoveItems(q, X) ==
    [items  |-> q.items \ X,
     before |-> {p \in q.before : p[1] \notin X /\ p[2] \notin X}]

\* ExpirationQueue.get_oldest: x is the first item of the queue.
IsOldest(q, x) ==
    /\ x \in q.items
    /\ \A y \in q.items : <<y, x>> \notin q.before
=============================================================================
