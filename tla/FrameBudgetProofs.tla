------------------------- MODULE FrameBudgetProofs --------------------------
(***************************************************************************)
(* Proofs about the frame budget, for every limit and every number of      *)
(* frames.                                                                 *)
(***************************************************************************)
EXTENDS FrameBudget, SequenceTheorems, TLAPS

(***************************************************************************)
(* The inductive invariant: the ids in flight are the consecutive ids that *)
(* end at next_frame_id - 1.  Contiguity is what makes the loop of on_ack  *)
(* a subtraction, and with it the count of retired frames exact.           *)
(***************************************************************************)
BudgetInv ==
  /\ BudgetTypeOK
  /\ InFlightNewest
  /\ FramesConserved
  /\ RestartForgets

(***************************************************************************)
(* The loop of on_ack stops, and where it stops: in a run of consecutive   *)
(* ids the number of frames it pops is determined by the first id.         *)
(***************************************************************************)
LEMMA RetiredIsDefined ==
  ASSUME BudgetTypeOK, InFlightNewest, NEW frame_id \in Nat
  PROVE  LET n == Retired(budget, frame_id)
         IN  /\ n \in 0 .. Len(budget.in_flight)
             /\ \A i \in 1 .. n : budget.in_flight[i] <= frame_id
             /\ n < Len(budget.in_flight) => budget.in_flight[n + 1] > frame_id
<1> DEFINE len == Len(budget.in_flight)
           first == budget.next_frame_id - len
           P(n) == /\ \A i \in 1 .. n : budget.in_flight[i] <= frame_id
                   /\ n < len => budget.in_flight[n + 1] > frame_id
           w == IF frame_id < first THEN 0
                ELSE IF frame_id >= first + len THEN len ELSE frame_id - first + 1
<1>1. len \in Nat /\ first \in Int
  BY DEF BudgetTypeOK
<1>2. \A i \in 1 .. len : budget.in_flight[i] = first + i - 1
  BY <1>1 DEF InFlightNewest, BudgetTypeOK
<1>3. w \in 0 .. len
  BY <1>1
<1>4. P(w)
  <2> HIDE DEF first, len
  <2>1. CASE frame_id < first
    BY <1>1, <1>2, <2>1
  <2>2. CASE frame_id >= first + len
    BY <1>1, <1>2, <2>2
  <2>3. CASE frame_id >= first /\ frame_id < first + len
    BY <1>1, <1>2, <2>3
  <2> QED  BY <1>1, <2>1, <2>2, <2>3
<1>5. \E n \in 0 .. len : P(n)
  BY <1>3, <1>4
<1> QED  BY <1>5 DEF Retired

(***************************************************************************)
(* A run of consecutive ids that ends just before next, none older than e. *)
(***************************************************************************)
Run(s, next, e) ==
  /\ s \in Seq(Nat)
  /\ \A i \in 1 .. Len(s) : s[i] = next - Len(s) + i - 1 /\ s[i] >= e

LEMMA RunSuffix ==
  ASSUME NEW s, NEW next \in Nat, NEW e \in Nat, Run(s, next, e), NEW n \in 0 .. Len(s)
  PROVE  LET t == SubSeq(s, n + 1, Len(s))
         IN  Run(t, next, e) /\ Len(t) = Len(s) - n
<1> DEFINE t == SubSeq(s, n + 1, Len(s))
<1>1. s \in Seq(Nat) /\ Len(s) \in Nat /\ n \in Nat /\ n <= Len(s)
  BY DEF Run
<1>2. n + 1 \in Int /\ Len(s) \in Int /\ \A i \in n + 1 .. Len(s) : s[i] \in Nat
  BY <1>1
<1>3. /\ t \in Seq(Nat)
      /\ Len(t) = IF n + 1 <= Len(s) THEN Len(s) - (n + 1) + 1 ELSE 0
      /\ \A i \in 1 .. Len(s) - (n + 1) + 1 : t[i] = s[(n + 1) + i - 1]
  BY <1>2, SubSeqProperties
<1> HIDE DEF t
<1>4. Len(t) = Len(s) - n
  <2>1. Len(t) = IF n + 1 <= Len(s) THEN Len(s) - (n + 1) + 1 ELSE 0
    BY <1>3
  <2>2. CASE n + 1 <= Len(s)
    BY <1>1, <2>1, <2>2
  <2>3. CASE ~(n + 1 <= Len(s))
    BY <1>1, <2>1, <2>3
  <2> QED  BY <2>2, <2>3
<1>5. ASSUME NEW i \in 1 .. Len(t)
      PROVE  t[i] = next - Len(t) + i - 1 /\ t[i] >= e
  <2>1. /\ i \in 1 .. Len(s) - (n + 1) + 1 /\ (n + 1) + i - 1 = i + n
        /\ i + n \in 1 .. Len(s)
    BY <1>1, <1>4
  <2>2. t[i] = s[i + n]
    BY <1>3, <2>1
  <2>3. s[i + n] = next - Len(s) + (i + n) - 1 /\ s[i + n] >= e
    BY <2>1 DEF Run
  <2>4. next - Len(s) + (i + n) - 1 = next - Len(t) + i - 1
    BY <1>1, <1>4
  <2> QED  BY <2>2, <2>3, <2>4
<1> QED  BY <1>3, <1>4, <1>5 DEF Run, t

LEMMA RunTail ==
  ASSUME NEW s, NEW next \in Nat, NEW e \in Nat, Run(s, next, e), s # <<>>
  PROVE  Run(Tail(s), next, e) /\ Len(Tail(s)) = Len(s) - 1
<1>1. s \in Seq(Nat) /\ Len(s) \in Nat /\ Len(s) # 0
  BY DEF Run
<1>2. Tail(s) = SubSeq(s, 1 + 1, Len(s))
  BY <1>1
<1>3. 1 \in 0 .. Len(s)
  BY <1>1
<1> QED  BY <1>2, <1>3, RunSuffix

LEMMA RunAppend ==
  ASSUME NEW s, NEW next \in Nat, NEW e \in Nat, Run(s, next, e), e <= next
  PROVE  Run(Append(s, next), next + 1, e) /\ Len(Append(s, next)) = Len(s) + 1
<1> DEFINE t == Append(s, next)
<1>1. s \in Seq(Nat) /\ Len(s) \in Nat
  BY DEF Run
<1>2. /\ t \in Seq(Nat) /\ Len(t) = Len(s) + 1
      /\ \A i \in 1 .. Len(s) : t[i] = s[i]
      /\ t[Len(s) + 1] = next
  BY <1>1, AppendProperties
<1> HIDE DEF t
<1>3. ASSUME NEW i \in 1 .. Len(t)
      PROVE  t[i] = (next + 1) - Len(t) + i - 1 /\ t[i] >= e
  <2>1. CASE i = Len(s) + 1
    BY <1>1, <1>2, <2>1
  <2>2. CASE i \in 1 .. Len(s)
    <3>1. t[i] = s[i] /\ s[i] = next - Len(s) + i - 1 /\ s[i] >= e
      BY <1>2, <2>2 DEF Run
    <3>2. next - Len(s) + i - 1 = (next + 1) - Len(t) + i - 1
      BY <1>1, <1>2
    <3> QED  BY <3>1, <3>2
  <2> QED  BY <1>1, <1>2, <2>1, <2>2
<1> QED  BY <1>2, <1>3 DEF Run, t

(***************************************************************************)
(* The invariant in terms of runs: what each action's proof starts from    *)
(* and ends with.                                                          *)
(***************************************************************************)
Fields(b, e, r) ==
  /\ b = [max_in_flight |-> b.max_in_flight, in_flight |-> b.in_flight,
          next_frame_id |-> b.next_frame_id, dropped |-> b.dropped, sent |-> b.sent]
  /\ b.max_in_flight \in Nat \ {0} /\ b.next_frame_id \in Nat \ {0}
  /\ b.dropped \in Nat /\ b.sent \in Nat /\ e \in Nat \ {0} /\ r \in Nat
  /\ Run(b.in_flight, b.next_frame_id, e)
  /\ Len(b.in_flight) \in Nat
  /\ Len(b.in_flight) <= b.max_in_flight
  /\ b.sent = b.dropped + r + Len(b.in_flight)
  /\ b.sent = b.next_frame_id - 1
  /\ e <= b.next_frame_id

LEMMA InvFields == BudgetInv <=> Fields(budget, epoch, retired)
<1>1. BudgetInv => Fields(budget, epoch, retired)
  <2> SUFFICES ASSUME BudgetInv PROVE Fields(budget, epoch, retired)
    OBVIOUS
  <2>1. BudgetTypeOK /\ InFlightNewest /\ FramesConserved /\ RestartForgets
    BY DEF BudgetInv
  <2>2. Run(budget.in_flight, budget.next_frame_id, epoch)
    BY <2>1 DEF Run, BudgetTypeOK, InFlightNewest, RestartForgets
  <2> QED  BY <2>1, <2>2 DEF Fields, BudgetTypeOK, InFlightNewest, FramesConserved, RestartForgets
<1>2. Fields(budget, epoch, retired) => BudgetInv
  <2> SUFFICES ASSUME Fields(budget, epoch, retired) PROVE BudgetInv
    OBVIOUS
  <2>1. BudgetTypeOK
    BY DEF Fields, Run, BudgetTypeOK
  <2>2. InFlightNewest
    BY DEF Fields, Run, InFlightNewest
  <2>3. FramesConserved
    BY DEF Fields, FramesConserved
  <2>4. RestartForgets
    BY DEF Fields, Run, RestartForgets
  <2> QED  BY <2>1, <2>2, <2>3, <2>4 DEF BudgetInv
<1> QED  BY <1>1, <1>2

LEMMA InvFieldsNext == BudgetInv' <=> Fields(budget', epoch', retired')
<1>1. BudgetInv' <=> (Fields(budget, epoch, retired))'
  BY InvFields, PTL
<1> QED  BY <1>1

(***************************************************************************)
(* A capture keeps the invariant: at the limit it drops exactly the oldest *)
(* frame.                                                                  *)
(***************************************************************************)
LEMMA CaptureFields ==
  ASSUME NEW b, NEW e, NEW r, Fields(b, e, r)
  PROVE  Fields(OnCaptured(b), e, r)
<1> DEFINE kept == IF HasHeadroom(b) THEN b.in_flight ELSE Tail(b.in_flight)
           lost == IF HasHeadroom(b) THEN 0 ELSE 1
           t == Append(kept, b.next_frame_id)
           c == OnCaptured(b)
<1>1. /\ Run(kept, b.next_frame_id, e) /\ Len(kept) = Len(b.in_flight) - lost
      /\ Len(kept) < b.max_in_flight /\ Len(kept) \in Nat
  <2>1. CASE HasHeadroom(b)
    BY <2>1 DEF HasHeadroom, Fields
  <2>2. CASE ~HasHeadroom(b)
    <3>1. b.in_flight # <<>>
      BY <2>2 DEF HasHeadroom, Fields
    <3>2. Run(Tail(b.in_flight), b.next_frame_id, e) /\ Len(Tail(b.in_flight)) = Len(b.in_flight) - 1
      BY <3>1, RunTail DEF Fields
    <3>3. Len(b.in_flight) # 0
      BY <2>2 DEF HasHeadroom, Fields
    <3> QED  BY <2>2, <3>2, <3>3 DEF Fields
  <2> QED  BY <2>1, <2>2
<1>2. c = [max_in_flight |-> b.max_in_flight, in_flight |-> t,
           next_frame_id |-> b.next_frame_id + 1, dropped |-> b.dropped + lost,
           sent |-> b.sent + 1]
  <2>1. (IF HasHeadroom(b) THEN b.dropped ELSE b.dropped + 1) = b.dropped + lost
    BY DEF Fields
  <2> HIDE DEF kept, lost
  <2> QED  BY <2>1 DEF OnCaptured, kept
<1> HIDE DEF kept, c
<1>3. Run(t, b.next_frame_id + 1, e) /\ Len(t) = Len(kept) + 1
  BY <1>1, RunAppend DEF Fields
<1>4. lost \in Nat
  OBVIOUS
<1> HIDE DEF t, lost
<1>5. /\ c.max_in_flight = b.max_in_flight /\ c.in_flight = t
      /\ c.next_frame_id = b.next_frame_id + 1 /\ c.dropped = b.dropped + lost
      /\ c.sent = b.sent + 1
  BY <1>2
<1>6. Len(t) = Len(b.in_flight) - lost + 1 /\ Len(t) \in Nat /\ Len(t) <= b.max_in_flight
  BY <1>1, <1>3, <1>4 DEF Fields
<1>7. b.sent + 1 = (b.dropped + lost) + r + Len(t)
  BY <1>4, <1>6 DEF Fields
<1>8. b.sent + 1 = (b.next_frame_id + 1) - 1 /\ e <= b.next_frame_id + 1
  BY DEF Fields
<1>9. /\ b.max_in_flight \in Nat \ {0} /\ b.next_frame_id + 1 \in Nat \ {0}
      /\ b.dropped + lost \in Nat /\ b.sent + 1 \in Nat /\ e \in Nat \ {0} /\ r \in Nat
  BY <1>4 DEF Fields
<1>10. Fields(c, e, r)
  BY <1>2, <1>3, <1>5, <1>6, <1>7, <1>8, <1>9 DEF Fields
<1> QED  BY <1>10 DEF c

(***************************************************************************)
(* An ack keeps the invariant: a suffix of consecutive ids is consecutive. *)
(* Frames leave the budget's books as retired, none is lost.               *)
(***************************************************************************)
LEMMA AckFields ==
  ASSUME NEW b, NEW e, NEW r, Fields(b, e, r), NEW n \in 0 .. Len(b.in_flight)
  PROVE  LET t == SubSeq(b.in_flight, n + 1, Len(b.in_flight))
         IN  /\ Fields([b EXCEPT !.in_flight = t], e, r + n)
             /\ Len(b.in_flight) - Len(t) = n
<1> DEFINE t == SubSeq(b.in_flight, n + 1, Len(b.in_flight))
           c == [b EXCEPT !.in_flight = t]
<1>1. Run(t, b.next_frame_id, e) /\ Len(t) = Len(b.in_flight) - n
  BY RunSuffix DEF Fields
<1> HIDE DEF t
<1>2. c = [max_in_flight |-> b.max_in_flight, in_flight |-> t,
           next_frame_id |-> b.next_frame_id, dropped |-> b.dropped, sent |-> b.sent]
  BY DEF Fields
<1> HIDE DEF c
<1>3. /\ c.max_in_flight = b.max_in_flight /\ c.in_flight = t
      /\ c.next_frame_id = b.next_frame_id /\ c.dropped = b.dropped /\ c.sent = b.sent
  BY <1>2
<1>4. /\ Len(t) \in Nat /\ Len(t) <= b.max_in_flight /\ r + n \in Nat
      /\ b.sent = b.dropped + (r + n) + Len(t)
      /\ Len(b.in_flight) - Len(t) = n
  <2>1. /\ Len(b.in_flight) \in Nat /\ n \in Nat /\ n <= Len(b.in_flight)
        /\ b.max_in_flight \in Nat /\ b.dropped \in Nat /\ b.sent \in Nat /\ r \in Nat
        /\ Len(b.in_flight) <= b.max_in_flight
        /\ b.sent = b.dropped + r + Len(b.in_flight)
    BY DEF Fields
  <2>2. Len(t) = Len(b.in_flight) - n
    BY <1>1
  <2> QED  BY <2>1, <2>2
<1>5. Fields(c, e, r + n)
  BY <1>1, <1>2, <1>3, <1>4 DEF Fields
<1> QED  BY <1>4, <1>5 DEF c, t

LEMMA CapturePreserves == BudgetInv /\ Capture => BudgetInv'
<1> SUFFICES ASSUME BudgetInv, Capture PROVE BudgetInv'
  OBVIOUS
<1>1. budget' = OnCaptured(budget) /\ epoch' = epoch /\ retired' = retired
  BY DEF Capture
<1>2. Fields(budget', epoch', retired')
  BY <1>1, InvFields, CaptureFields
<1> QED  BY <1>2, InvFieldsNext

LEMMA AckPreserves ==
  ASSUME BudgetInv, NEW frame_id \in Nat, Ack(frame_id)
  PROVE  BudgetInv'
<1> DEFINE n == Retired(budget, frame_id)
           t == SubSeq(budget.in_flight, n + 1, Len(budget.in_flight))
<1>1. n \in 0 .. Len(budget.in_flight)
  BY RetiredIsDefined DEF BudgetInv
<1>2. budget' = [budget EXCEPT !.in_flight = t]
  BY DEF Ack, OnAck
<1>3. Fields(budget, epoch, retired)
  BY InvFields
<1> HIDE DEF n
<1>4. /\ Fields([budget EXCEPT !.in_flight = t], epoch, retired + n)
      /\ Len(budget.in_flight) - Len(t) = n
  BY <1>1, <1>3, AckFields
<1> HIDE DEF t
<1>5. budget'.in_flight = t
  BY <1>2, <1>3 DEF Fields
<1>6. retired' = retired + n /\ epoch' = epoch
  BY <1>4, <1>5 DEF Ack
<1> QED  BY <1>2, <1>4, <1>6, InvFieldsNext

LEMMA RestartPreserves == BudgetInv /\ RestartStream => BudgetInv'
<1> SUFFICES ASSUME BudgetInv, RestartStream PROVE BudgetInv'
  OBVIOUS
<1>1. Fields(budget, epoch, retired)
  BY InvFields
<1>2. budget' = [max_in_flight |-> budget.max_in_flight, in_flight |-> <<>>,
                 next_frame_id |-> budget.next_frame_id, dropped |-> budget.dropped,
                 sent |-> budget.sent]
  BY <1>1 DEF RestartStream, Restart, Fields
<1>3. epoch' = budget.next_frame_id /\ retired' = retired + Len(budget.in_flight)
  BY DEF RestartStream
<1>4. Run(<<>>, budget.next_frame_id, budget.next_frame_id)
  BY DEF Run
<1>5. Fields(budget', epoch', retired')
  BY <1>1, <1>2, <1>3, <1>4 DEF Fields
<1> QED  BY <1>5, InvFieldsNext

(***************************************************************************)
(* The budget's invariant holds for every limit (0 included, which the     *)
(* constructor clamps) and any interleaving of captures, acks and restarts *)
(* (pacing.rs:27-99).                                                      *)
(***************************************************************************)
THEOREM BudgetInvariant == BudgetSpec => []BudgetInv
<1>1. BudgetInit => BudgetInv
  BY BudgetAssumption DEF BudgetInit, BudgetInv, BudgetTypeOK, InFlightNewest,
     FramesConserved, RestartForgets, NewBudget
<1>2. BudgetInv /\ [BudgetNext]_budgetVars => BudgetInv'
  <2> SUFFICES ASSUME BudgetInv, [BudgetNext]_budgetVars PROVE BudgetInv'
    OBVIOUS
  <2>1. CASE Capture
    BY <2>1, CapturePreserves
  <2>2. ASSUME NEW frame_id \in 0 .. MaxFrameId + 1, Ack(frame_id) PROVE BudgetInv'
    BY <2>2, BudgetAssumption, AckPreserves
  <2>3. CASE RestartStream
    BY <2>3, RestartPreserves
  <2>4. CASE UNCHANGED budgetVars
    BY <2>4 DEF budgetVars, BudgetInv, BudgetTypeOK, InFlightNewest, FramesConserved,
       RestartForgets
  <2> QED  BY <2>1, <2>2, <2>3, <2>4 DEF BudgetNext
<1> QED  BY <1>1, <1>2, PTL DEF BudgetSpec

(***************************************************************************)
(* What is in flight never exceeds the limit and is the newest frames.     *)
(***************************************************************************)
THEOREM BudgetBounded == BudgetSpec => []InFlightNewest
<1>1. BudgetInv => InFlightNewest
  BY DEF BudgetInv
<1> QED  BY <1>1, BudgetInvariant, PTL

(***************************************************************************)
(* No frame is lost from the accounts, whatever order acks arrive in.      *)
(***************************************************************************)
THEOREM BudgetConserved == BudgetSpec => []FramesConserved
<1>1. BudgetInv => FramesConserved
  BY DEF BudgetInv
<1> QED  BY <1>1, BudgetInvariant, PTL

(***************************************************************************)
(* A late ack for the stream before a restart retires nothing              *)
(* (pacing.rs:95-96).                                                      *)
(***************************************************************************)
THEOREM LateAcksAreHarmless == BudgetSpec => LateAckHarmless
<1>1. ASSUME BudgetInv, NEW frame_id \in 0 .. MaxFrameId + 1, frame_id < epoch, Ack(frame_id)
      PROVE  budget' = budget
  <2> DEFINE s == budget.in_flight
             n == Retired(budget, frame_id)
             left == OnAck(budget, frame_id).in_flight
  <2>1. frame_id \in Nat
    BY BudgetAssumption
  <2>2. /\ n \in 0 .. Len(s)
        /\ \A i \in 1 .. n : s[i] <= frame_id
    BY <1>1, <2>1, RetiredIsDefined DEF BudgetInv
  <2>3. /\ s \in Seq(Nat) /\ Len(s) \in Nat /\ epoch \in Nat
        /\ \A i \in 1 .. Len(s) : s[i] >= epoch
    BY <1>1 DEF BudgetInv, BudgetTypeOK, RestartForgets
  <2>4. n = 0
    <3> HIDE DEF n, s
    <3> SUFFICES ASSUME n # 0 PROVE FALSE
      OBVIOUS
    <3>1. 1 \in 1 .. n /\ 1 \in 1 .. Len(s)
      BY <2>2, <2>3
    <3>2. s[1] <= frame_id /\ s[1] >= epoch /\ s[1] \in Nat
      BY <2>2, <2>3, <3>1
    <3> QED  BY <1>1, <2>1, <2>3, <3>2
  <2>5. SubSeq(s, 1, Len(s)) = s
    BY <2>3
  <2>6. budget' = [budget EXCEPT !.in_flight = SubSeq(s, n + 1, Len(s))]
    BY <1>1 DEF Ack, OnAck
  <2> HIDE DEF n
  <2>7. budget' = [budget EXCEPT !.in_flight = s]
    BY <2>4, <2>5, <2>6
  <2> QED  BY <1>1, <2>7 DEF BudgetInv, BudgetTypeOK
<1>2. BudgetInv /\ [BudgetNext]_budgetVars =>
        [\A frame_id \in 0 .. MaxFrameId + 1 :
           frame_id < epoch /\ Ack(frame_id) => budget' = budget]_budgetVars
  BY <1>1
<1> QED  BY <1>2, BudgetInvariant, PTL DEF BudgetSpec, LateAckHarmless
=============================================================================
