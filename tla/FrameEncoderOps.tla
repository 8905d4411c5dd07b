--------------------------- MODULE FrameEncoderOps --------------------------
(***************************************************************************)
(* One window's H.264 encoder as the agent keeps it                        *)
(* (crates/oxagent/src/win/encode.rs, WinFrameEncoder and WindowEncoder),  *)
(* as operators on a record:                                               *)
(*   live     a WindowEncoder exists (encoders has the handle)             *)
(*   gen      which one it is, counted per window                          *)
(*   size     its coded size                                               *)
(*   cpu      it takes CPU pixels (InputPath::Cpu)                         *)
(*   pending  frames accepted by ProcessInput and not yet polled           *)
(*   next     index of the next accepted frame                             *)
(*   failed   the captured size that could not be set up, or NoSize        *)
(* A size is one number; pad_even works on it as it does on a width.       *)
(*                                                                         *)
(* Media Foundation itself is outside the source: whether a transform can  *)
(* be set up, whether ProcessInput accepts a frame and whether             *)
(* ProcessOutput has one ready are arguments.  It is taken to produce one  *)
(* access unit per accepted frame, in order, and an IDR where one was      *)
(* forced and as the first picture of a stream.                            *)
(***************************************************************************)
EXTENDS Integers, Sequences

NoSize == 0

PadEven(size) == size + (size % 2)

NoEncoder == [live |-> FALSE, gen |-> 0, size |-> NoSize, cpu |-> FALSE,
              pending |-> <<>>, next |-> 0, failed |-> NoSize]

(***************************************************************************)
(* WindowEncoder::submit.  frame.gpu is true when frame.data is empty.     *)
(***************************************************************************)
Input(e, frame, force_keyframe, accepted) ==
  IF e.cpu = frame.gpu \/ ~accepted THEN e
  ELSE [e EXCEPT !.pending = Append(@, [key     |-> force_keyframe \/ e.next = 0,
                                        content |-> frame.content,
                                        seq     |-> e.next]),
                 !.next = @ + 1]

(***************************************************************************)
(* What WindowEncoder::new comes to: the GPU input path only for a GPU     *)
(* frame, the CPU path, or an error.                                       *)
(***************************************************************************)
SetupOutcomes(frame) == IF frame.gpu THEN {"gpu", "cpu", "error"} ELSE {"cpu", "error"}

Matches(e, frame) == e.live /\ PadEven(frame.size) = e.size

(***************************************************************************)
(* WinFrameEncoder::submit: rebuilds on a change of the coded size, and    *)
(* forces a keyframe on the first frame of a new encoder.                  *)
(***************************************************************************)
Submit(e, frame, force_keyframe, setup, accepted) ==
  IF e.failed = frame.size THEN e
  ELSE IF Matches(e, frame) THEN Input(e, frame, force_keyframe, accepted)
  ELSE IF setup = "error" THEN [NoEncoder EXCEPT !.gen = e.gen, !.failed = frame.size]
  ELSE LET built == [NoEncoder EXCEPT !.live = TRUE, !.gen = e.gen + 1,
                                      !.size = PadEven(frame.size), !.cpu = (setup = "cpu")]
       IN  Input(built, frame, TRUE, accepted)

\* Mutant: poll keeps the encoder's latest output and throws older ones away.
PolledNewest(e) == [e EXCEPT !.pending = <<>>]

(***************************************************************************)
(* poll, when ProcessOutput has the oldest accepted frame ready.           *)
(***************************************************************************)
CanPoll(e) == e.live /\ e.pending # <<>>
Polled(e) == [e EXCEPT !.pending = Tail(@)]

AccessUnit(e) ==
  [codec |-> "H264", key |-> Head(e.pending).key, size |-> e.size,
   content |-> Head(e.pending).content, gen |-> e.gen, seq |-> Head(e.pending).seq]

WantsCpuFrame(e, size) == e.live /\ e.cpu /\ e.size = PadEven(size)
Failed(e) == e.failed # NoSize
=============================================================================
