--------------------------- MODULE FrameBudgetOps ---------------------------
(***************************************************************************)
(* The per-window frame budget of the agent (crates/oxagent/src/pacing.rs) *)
(* as operators on a record with the fields of struct FrameBudget.         *)
(***************************************************************************)
EXTENDS Integers, Sequences

(***************************************************************************)
(* new: the limit is clamped to at least 1, ids start at 1.                *)
(***************************************************************************)
NewBudget(max) ==
  [max_in_flight |-> IF max < 1 THEN 1 ELSE max,
   in_flight     |-> <<>>,
   next_frame_id |-> 1,
   dropped       |-> 0,
   sent          |-> 0]

HasHeadroom(b) == Len(b.in_flight) < b.max_in_flight

\* Mutant: a full budget refuses nothing and abandons nothing.
OnCapturedUnbounded(b) ==
  [b EXCEPT !.in_flight = Append(b.in_flight, b.next_frame_id),
            !.next_frame_id = @ + 1,
            !.sent = @ + 1]

\* Mutant: abandoning a frame is not counted.
OnCapturedUncounted(b) ==
  LET kept == IF HasHeadroom(b) THEN b.in_flight ELSE Tail(b.in_flight)
  IN  [b EXCEPT !.in_flight = Append(kept, b.next_frame_id),
                !.next_frame_id = @ + 1,
                !.sent = @ + 1]

(***************************************************************************)
(* on_captured: always admits; at the limit the oldest unacknowledged      *)
(* frame is abandoned.  The id of the new frame is b.next_frame_id.        *)
(***************************************************************************)
OnCaptured(b) ==
  LET kept == IF HasHeadroom(b) THEN b.in_flight ELSE Tail(b.in_flight)
  IN  [max_in_flight |-> b.max_in_flight,
       in_flight     |-> Append(kept, b.next_frame_id),
       next_frame_id |-> b.next_frame_id + 1,
       dropped       |-> IF HasHeadroom(b) THEN b.dropped ELSE b.dropped + 1,
       sent          |-> b.sent + 1]

(***************************************************************************)
(* The number of frames on_ack pops: the loop stops at the first frame     *)
(* whose id is greater than the acknowledged one.                          *)
(***************************************************************************)
Retired(b, frame_id) ==
  CHOOSE n \in 0 .. Len(b.in_flight) :
    /\ \A i \in 1 .. n : b.in_flight[i] <= frame_id
    /\ n < Len(b.in_flight) => b.in_flight[n + 1] > frame_id

\* Mutant: an ack retires the oldest frame, whatever its id.
OnAckPopsOne(b, frame_id) ==
  [b EXCEPT !.in_flight = IF @ = <<>> THEN @ ELSE Tail(@)]

OnAck(b, frame_id) ==
  [b EXCEPT !.in_flight = SubSeq(@, Retired(b, frame_id) + 1, Len(@))]

\* Mutant: a restarted stream is reset to all zeroes.
RestartZeroes(b) == [b EXCEPT !.in_flight = <<>>, !.next_frame_id = 0]

\* Mutant: a restarted stream numbers its frames from 1 again.
RestartRewinds(b) == [b EXCEPT !.in_flight = <<>>, !.next_frame_id = 1]

(***************************************************************************)
(* restart: nothing is in flight any more; the id sequence goes on.        *)
(***************************************************************************)
Restart(b) == [b EXCEPT !.in_flight = <<>>]
=============================================================================
