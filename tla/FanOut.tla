------------------------------- MODULE FanOut -------------------------------
(***************************************************************************)
(* Calls to all executors, and to the storage.  A fan-out computes its     *)
(* total from m_executorManager->size() and calls the executors it iterates *)
(* over, at that moment or later.                                          *)
(***************************************************************************)
EXTENDS CommitStatus

CONSTANTS Executors,
          Storage     \* the scheduler's own storage, a participant of a commit

ASSUME FanOutAssumption == IsFiniteSet(Executors) /\ Storage \notin Executors

VARIABLE registered   \* the executors m_executorManager iterates over

Participants == Executors \cup {Storage}

Joins(kinds) ==
    [kind : kinds \cup {"NONE"}, total : Nat, asked : SUBSET Participants,
     success : SUBSET Participants, failed : SUBSET Participants, checked : SUBSET Participants,
     delivered : SUBSET [by : Participants, error : BOOLEAN], overlap : BOOLEAN]

RegisterExecutor(e) ==
    /\ e \notin registered
    /\ registered' = registered \cup {e}
=============================================================================
