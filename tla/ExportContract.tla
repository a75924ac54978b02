--------------------------- MODULE ExportContract ---------------------------
(***************************************************************************)
(* What the export service promises for each idempotency key of a user: a  *)
(* file is prepared at most once and never changes, its creation and its   *)
(* first download are recorded at most once and only when they happened,   *)
(* and its one token is handed out only after the preparation is recorded. *)
(* There are no requests, races, retries, expiries or keys here.           *)
(* ExportLifecycle is shown to implement it (ImplementsContract).          *)
(***************************************************************************)
EXTENDS Naturals

CONSTANTS Slots, NoFile

VARIABLES
  file,      \* the token and the content of each slot, or NoFile
  stage,     \* "none", "prepared" or "downloaded"
  trail,     \* what the audit trail says: [first, replay, downloaded, conflict]
  issued     \* tokens handed out

contractVars == <<file, stage, trail, issued>>

Init ==
  /\ file = [s \in Slots |-> NoFile]
  /\ stage = [s \in Slots |-> "none"]
  /\ trail = [s \in Slots |->
       [first |-> 0, replay |-> FALSE, downloaded |-> 0, conflict |-> FALSE]]
  /\ issued = {}

Prepare(s) ==
  /\ stage[s] = "none"
  /\ stage' = [stage EXCEPT ![s] = "prepared"]
  /\ file'[s] # NoFile /\ file' = [file EXCEPT ![s] = file'[s]]
  /\ UNCHANGED <<trail, issued>>

RecordPrepared(s) ==
  /\ stage[s] # "none"
  /\ \/ trail[s].first = 0 /\ trail' = [trail EXCEPT ![s].first = 1]
     \/ trail' = [trail EXCEPT ![s].replay = TRUE]
  /\ UNCHANGED <<file, stage, issued>>

RecordConflict(s) ==
  /\ stage[s] # "none"
  /\ trail' = [trail EXCEPT ![s].conflict = TRUE]
  /\ UNCHANGED <<file, stage, issued>>

Issue(s) ==
  /\ trail[s].first = 1 \/ trail[s].replay
  /\ issued' = issued \cup {file[s].token}
  /\ UNCHANGED <<file, stage, trail>>

Download(s) ==
  /\ stage[s] = "prepared" /\ file[s].token \in issued
  /\ stage' = [stage EXCEPT ![s] = "downloaded"]
  /\ UNCHANGED <<file, trail, issued>>

RecordDownload(s) ==
  /\ stage[s] = "downloaded" /\ trail[s].downloaded = 0
  /\ trail' = [trail EXCEPT ![s].downloaded = 1]
  /\ UNCHANGED <<file, stage, issued>>

Next == \E s \in Slots :
  \/ Prepare(s) \/ RecordPrepared(s) \/ RecordConflict(s) \/ Issue(s)
  \/ Download(s) \/ RecordDownload(s)

Spec == Init /\ [][Next]_contractVars
=============================================================================
