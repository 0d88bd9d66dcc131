------------------------------ MODULE MCChatTurns ------------------------------
(* Instances of ChatTurns for TLC.  Liveness rules out a SYMMETRY set, so the *)
(* renamings of the two turns and of the two sessions are taken out by hand:  *)
(* of two turns of the same kind, First is the one that starts first.  Two    *)
(* streamed turns share a session: turns of two sessions are taken one batch  *)
(* and one streamed, or both batch.                                           *)
EXTENDS ChatTurns

CONSTANTS First, Second, FirstSession

FirstStartsFirst ==
  turn[First].streamed = turn[Second].streamed /\ turn[First].at = "ready"
    => turn[Second].at = "ready"

MCInit ==
  /\ Init
  /\ turn[First].session = FirstSession
  /\ turn[First].streamed =>
       turn[Second].streamed /\ turn[Second].session = FirstSession

MCSpec == MCInit /\ [][(Next \/ Done) /\ FirstStartsFirst']_vars /\ Fairness
=============================================================================
