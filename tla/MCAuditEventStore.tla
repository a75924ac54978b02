------------------------- MODULE MCAuditEventStore -------------------------
(* Small instances of AuditEventStore for TLC. *)
EXTENDS AuditEventStore, TLC

CONSTANTS i1, i2, a1, a2, r1, b1, b2, role, evt, t1, t2, p1, p2, x1, x2

Prepared(i, a, b, t) ==
  [id |-> i, row |-> [event |-> evt, rec |-> r1, actor |-> a, anon |-> FALSE,
                      role |-> role, body |-> b, at |-> t]]

\* One event, a retry rebuilt later, and a conflicting use of its id.
OneIdRequests == {Prepared(i1, a1, b1, t1), Prepared(i1, a1, b1, t2), Prepared(i1, a1, b2, t1)}

\* Two events on one record by two actors, and a conflicting use of the first id.
TwoIdRequests == {Prepared(i1, a1, b1, t1), Prepared(i1, a1, b2, t1), Prepared(i2, a2, b1, t1)}

\* Erase a1 alone, a1 with its record, and a call refused for a blank record.
MCErasures == {[identity |-> a1, resources |-> <<>>],
               [identity |-> a1, resources |-> <<r1>>],
               [identity |-> a2, resources |-> <<r1, NoRecord>>]}

\* Two subjects whose erasures meet on one record.
MeetingErasures == {[identity |-> a1, resources |-> <<r1>>],
                    [identity |-> a2, resources |-> <<r1>>]}

\* Goroutines of one kind are interchangeable.
GoroutineSymmetry == Permutations(Appenders) \cup Permutations(Erasers)
=============================================================================
