---------------------------- MODULE CommittedRows ----------------------------
(***************************************************************************)
(* What the store promises the handlers of every process: a request looks  *)
(* at the rows that are committed at that moment, as if nobody kept a copy *)
(* of them.  It then changes one row, and the summaries of the process may *)
(* go along; the transaction takes effect as a whole, and only if none of  *)
(* the rows it writes has changed since the request looked.  A transaction *)
(* whose client is gone is like any other.                                 *)
(***************************************************************************)
EXTENDS Naturals

CONSTANTS Instances, Rows, Summaries, None

VARIABLES
    rows,    \* the transaction that wrote each row
    last,    \* number of the last transaction
    seen,    \* the rows the request of a process looked at, or None
    pending  \* transactions that have neither taken effect nor failed

Init ==
    /\ rows = [r \in Rows |-> 0]
    /\ last = 0
    /\ seen = [i \in Instances |-> None]
    /\ pending = {}

Look(i) ==
    /\ seen[i] = None
    /\ seen' = [seen EXCEPT ![i] = rows]
    /\ UNCHANGED <<rows, last, pending>>

\* The request writes nothing, or its process crashes.
Forget(i) ==
    /\ seen[i] # None
    /\ seen' = [seen EXCEPT ![i] = None]
    /\ UNCHANGED <<rows, last, pending>>

Begin(i, r, along) ==
    /\ seen[i] # None
    /\ last' = last + 1
    /\ pending' = pending \cup {[xid |-> last + 1, row |-> r,
                                 writes |-> {r} \cup along, over |-> seen[i]]}
    /\ seen' = [seen EXCEPT ![i] = None]
    /\ UNCHANGED rows

TakeEffect(t) ==
    /\ \A r \in t.writes : rows[r] = t.over[r]
    /\ rows' = [r \in Rows |-> IF r \in t.writes THEN t.xid ELSE rows[r]]
    /\ pending' = pending \ {t}
    /\ UNCHANGED <<last, seen>>

Fail(t) ==
    /\ pending' = pending \ {t}
    /\ UNCHANGED <<rows, last, seen>>

Next ==
    \/ \E i \in Instances :
          \/ Look(i) \/ Forget(i)
          \/ \E r \in Rows, along \in SUBSET Summaries : Begin(i, r, along)
    \/ \E t \in pending : TakeEffect(t) \/ Fail(t)

Spec == Init /\ [][Next]_<<rows, last, seen, pending>>

=============================================================================
