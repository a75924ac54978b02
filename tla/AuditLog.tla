------------------------------ MODULE AuditLog ------------------------------
(***************************************************************************)
(* What the event store promises: one append-only log in which events are  *)
(* recorded and subjects are erased, each in one atomic step.  There are   *)
(* no transactions, statements, retries or lost answers here.  The SQLite  *)
(* store is shown to implement it (AuditEventStore, ImplementsAuditLog).   *)
(***************************************************************************)
EXTENDS Naturals, Sequences

CONSTANTS Ids, Requests, Erasures, NoRow, NoRole, Erased

VARIABLES
  log,      \* the event recorded under each id, or NoRow
  acked     \* events whose recording was acknowledged

Init == log = [i \in Ids |-> NoRow] /\ acked = {}

\* An entry says what was appended, or what erasures have left of it.
Says(entry, given) ==
  /\ entry # NoRow
  /\ <<entry.event, entry.rec, entry.actor>> = <<given.event, given.rec, given.actor>>
  /\ entry.role \in {given.role, NoRole}
  /\ entry.body \in {given.body, Erased}

\* One or more events enter the log under ids that were free, as given, and
\* events that the log records are acknowledged.
AppendEvents(new, told) ==
  /\ \A e \in new : log[e.id] = NoRow
  /\ \A e, f \in new : e.id = f.id => e = f
  /\ log' = [i \in Ids |-> IF \E e \in new : e.id = i
                           THEN (CHOOSE e \in new : e.id = i).row ELSE log[i]]
  /\ \A e \in told : Says(log'[e.id], e.row)
  /\ acked' = acked \cup told

\* An entry after the erasure of an identity with the resources it declares.
AfterErasure(entry, e) ==
  IF entry = NoRow THEN NoRow
  ELSE IF entry.actor = e.identity /\ ~entry.anon
  THEN [entry EXCEPT !.body = Erased, !.anon = TRUE, !.role = NoRole]
  ELSE IF \E k \in 1..Len(e.resources) : e.resources[k] = entry.rec
  THEN [entry EXCEPT !.body = Erased]
  ELSE entry

\* All events of a subject, and no others, are erased at once.
EraseSubject(e) ==
  /\ log' = [i \in Ids |-> AfterErasure(log[i], e)]
  /\ UNCHANGED acked

Next == \/ \E new \in SUBSET Requests, told \in SUBSET Requests : AppendEvents(new, told)
        \/ \E e \in Erasures : EraseSubject(e)

Spec == Init /\ [][Next]_<<log, acked>>
=============================================================================
