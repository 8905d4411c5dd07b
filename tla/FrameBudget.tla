---------------------------- MODULE FrameBudget -----------------------------
(***************************************************************************)
(* One window's frame budget as a state machine: frames are captured, the  *)
(* stream is restarted by a resize, and acknowledgements arrive late, out  *)
(* of date, repeated, or for ids that were never sent.                     *)
(***************************************************************************)
EXTENDS FrameBudgetOps

CONSTANTS
  MaxInFlight,    \* the constructor's argument (a u8; 0 is clamped)
  MaxFrameId      \* bound on the number of frames of a run

ASSUME BudgetAssumption == MaxInFlight \in Nat /\ MaxFrameId \in Nat

VARIABLES
  budget,         \* the FrameBudget
  epoch,          \* history: the first frame id of the current stream
  retired         \* history: frames retired by an ack or by a restart

budgetVars == <<budget, epoch, retired>>

BudgetInit ==
  /\ budget = NewBudget(MaxInFlight)
  /\ epoch = 1
  /\ retired = 0

Capture ==
  /\ budget.next_frame_id <= MaxFrameId
  /\ budget' = OnCaptured(budget)
  /\ UNCHANGED <<epoch, retired>>

Ack(frame_id) ==
  /\ budget' = OnAck(budget, frame_id)
  /\ retired' = retired + (Len(budget.in_flight) - Len(budget'.in_flight))
  /\ UNCHANGED epoch

RestartStream ==
  /\ budget' = Restart(budget)
  /\ epoch' = budget.next_frame_id
  /\ retired' = retired + Len(budget.in_flight)

BudgetNext ==
  \/ Capture
  \/ \E frame_id \in 0 .. MaxFrameId + 1 : Ack(frame_id)
  \/ RestartStream

BudgetSpec == BudgetInit /\ [][BudgetNext]_budgetVars

-----------------------------------------------------------------------------
(***************************************************************************)
(* Type invariant.                                                         *)
(***************************************************************************)
BudgetTypeOK ==
  /\ budget \in [max_in_flight : Nat \ {0}, in_flight : Seq(Nat), next_frame_id : Nat \ {0},
                 dropped : Nat, sent : Nat]
  /\ epoch \in Nat \ {0}
  /\ retired \in Nat

(***************************************************************************)
(* What is in flight is bounded by the budget and is always the newest     *)
(* frames without a gap: the ids are consecutive and end at the last one   *)
(* given out (pacing.rs:45-56, 64-72).                                     *)
(***************************************************************************)
InFlightNewest ==
  LET n == Len(budget.in_flight)
  IN  /\ n <= budget.max_in_flight
      /\ \A i \in 1 .. n : budget.in_flight[i] = budget.next_frame_id - n + i - 1

(***************************************************************************)
(* Every frame ever sent is accounted for exactly once: abandoned, retired *)
(* by an ack or a restart, or still in flight (pacing.rs:84-93).           *)
(***************************************************************************)
FramesConserved ==
  /\ budget.sent = budget.dropped + retired + Len(budget.in_flight)
  /\ budget.sent = budget.next_frame_id - 1

(***************************************************************************)
(* Frames of the stream before the last restart are gone for good: nothing *)
(* in flight is older than the restart (pacing.rs:95-99).                  *)
(***************************************************************************)
RestartForgets ==
  /\ epoch <= budget.next_frame_id
  /\ \A i \in 1 .. Len(budget.in_flight) : budget.in_flight[i] >= epoch

(***************************************************************************)
(* "late acks for the old stream cannot retire new frames"                 *)
(* (pacing.rs:95-96): an ack for a frame older than the last restart       *)
(* changes nothing.                                                        *)
(***************************************************************************)
LateAckHarmless ==
  [][\A frame_id \in 0 .. MaxFrameId + 1 :
       frame_id < epoch /\ Ack(frame_id) => budget' = budget]_budgetVars

(***************************************************************************)
(* An ack is cumulative and never retires a frame newer than itself        *)
(* (pacing.rs:58-60): what is left in flight is exactly what was newer.    *)
(***************************************************************************)
AckCumulative ==
  [][\A frame_id \in 0 .. MaxFrameId + 1 :
       Ack(frame_id) =>
         {budget'.in_flight[i] : i \in DOMAIN budget'.in_flight} =
         {budget.in_flight[i] : i \in {j \in DOMAIN budget.in_flight :
                                         budget.in_flight[j] > frame_id}}]_budgetVars
=============================================================================
