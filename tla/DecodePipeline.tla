--------------------------- MODULE DecodePipeline ---------------------------
(***************************************************************************)
(* The client from a frame off the wire to its acknowledgement:            *)
(* run_session_loop (crates/oxclient/src/main.rs), one decode worker per   *)
(* window (decode/pipeline.rs, decode/h264.rs) and the display thread      *)
(* (crates/oxdisplay/src/winit_backend.rs).                                *)
(*                                                                         *)
(* The session task, every worker and the display run concurrently.  They  *)
(* share bounded frame queues, one per window, and three unbounded         *)
(* channels: reports and display events to the session, commands to the    *)
(* display.  The session's select takes any branch that is ready.          *)
(***************************************************************************)
EXTENDS Integers, Sequences, FiniteSets

CONSTANTS
  Windows,        \* window ids, numbers: DecodeTimes orders its keys by them
  MaxFrames,      \* frames the agent sends for a window
  QUEUE_DEPTH,
  CAPACITY,       \* of DecodeTimes
  Faults,         \* what may go wrong: names of the faults below
  DisplayMayClose,
  None

ASSUME PipelineAssumption ==
  /\ Windows \subseteq Nat /\ IsFiniteSet(Windows)
  /\ MaxFrames \in Nat /\ QUEUE_DEPTH \in Nat \ {0} /\ CAPACITY \in Nat \ {0}
  /\ DisplayMayClose \in BOOLEAN

VARIABLES
  window,        \* window -> "new", "open" or "closed" in the client's model
  arrived,       \* window -> id of the last frame read off the wire
  workers,       \* windows the pipeline holds a queue for
  thread,        \* window -> where its worker thread is
  queue,         \* window -> frames sent to the worker and not received
  current,       \* window -> the frame the worker is at
  decoder,       \* window -> the worker's decoder
  reference,     \* window -> frame the codec's reference picture is of, 0 for none
  stalled,       \* the frame that did not fit, which stops the reading
  reports,       \* FrameReports the session has not taken
  commands,      \* DisplayCommands the display has not taken
  native,        \* windows the display has
  presented,     \* Presented events the session has not taken
  decode_times,  \* keys of DecodeTimes
  acked,         \* window -> frames acknowledged
  failed,        \* history: window -> decoded frames the display did not present
  display,       \* whether the display runs
  session        \* whether the session loop runs

workerVars == <<thread, queue, current, decoder, reference>>
displayVars == <<native, failed, display>>
pipelineVars == <<window, arrived, workers, workerVars, stalled, reports, commands,
                  presented, decode_times, acked, displayVars, session>>

Frames == [w : Windows, f : 1 .. MaxFrames, key : BOOLEAN]

PipelineInit ==
  /\ window = [w \in Windows |-> "new"]
  /\ arrived = [w \in Windows |-> 0]
  /\ workers = {}
  /\ thread = [w \in Windows |-> "none"]
  /\ queue = [w \in Windows |-> <<>>]
  /\ current = [w \in Windows |-> None]
  /\ decoder = [w \in Windows |-> "none"]
  /\ reference = [w \in Windows |-> 0]
  /\ stalled = None
  /\ reports = <<>> /\ commands = <<>> /\ presented = <<>>
  /\ native = {} /\ display = TRUE
  /\ failed = [w \in Windows |-> {}]
  /\ decode_times = {}
  /\ acked = [w \in Windows |-> {}]
  /\ session = TRUE

-----------------------------------------------------------------------------
(***************************************************************************)
(* The session task.  A command the display does not take ends it.         *)
(***************************************************************************)
\* Mutant: the wire is read on while a frame is held.
ReadingOn == session

Reading == session /\ stalled = None

Command(c) ==
  IF display THEN commands' = Append(commands, c) /\ UNCHANGED session
             ELSE session' = FALSE /\ UNCHANGED commands

ReadOpened(w) ==
  /\ Reading /\ window[w] = "new"
  /\ window' = [window EXCEPT ![w] = "open"]
  /\ Command([t |-> "create", w |-> w])
  /\ UNCHANGED <<arrived, workers, workerVars, stalled, reports, presented, decode_times,
                 acked, displayVars>>

ReadClosed(w) ==
  /\ Reading /\ window[w] = "open"
  /\ window' = [window EXCEPT ![w] = "closed"]
  /\ workers' = workers \ {w}
  /\ decode_times' = {k \in decode_times : k[1] # w}
  /\ Command([t |-> "destroy", w |-> w])
  /\ UNCHANGED <<arrived, workerVars, stalled, reports, presented, acked, displayVars>>

Dropped(fr) == [t |-> "Dropped", w |-> fr.w, f |-> fr.f]
Decoded(fr) == [t |-> "Decoded", w |-> fr.w, f |-> fr.f]

\* Mutant: a frame that does not fit is dropped and reported, as the agent would.
TrySendDrops(fr, up) ==
  \/ /\ up /\ Len(queue[fr.w]) < QUEUE_DEPTH
     /\ queue' = [queue EXCEPT ![fr.w] = Append(@, fr)]
     /\ workers' = workers \cup {fr.w}
     /\ UNCHANGED <<stalled, reports>>
  \/ /\ up /\ Len(queue[fr.w]) >= QUEUE_DEPTH
     /\ reports' = Append(reports, Dropped(fr))
     /\ UNCHANGED <<queue, workers, stalled>>
  \/ /\ ~up
     /\ workers' = workers \ {fr.w}
     /\ reports' = Append(reports, Dropped(fr))
     /\ UNCHANGED <<queue, stalled>>

\* Mutant: the depth of the queue is not enforced.
TrySendUnbounded(fr, up) ==
  /\ queue' = [queue EXCEPT ![fr.w] = Append(@, fr)]
  /\ workers' = workers \cup {fr.w}
  /\ UNCHANGED <<stalled, reports>>

\* Mutant: a frame for a worker that is gone is not reported.
TrySendSilent(fr, up) ==
  \/ /\ up /\ Len(queue[fr.w]) < QUEUE_DEPTH
     /\ queue' = [queue EXCEPT ![fr.w] = Append(@, fr)]
     /\ workers' = workers \cup {fr.w}
     /\ UNCHANGED <<stalled, reports>>
  \/ /\ up /\ Len(queue[fr.w]) >= QUEUE_DEPTH
     /\ stalled' = fr
     /\ UNCHANGED <<queue, workers, reports>>
  \/ /\ ~up
     /\ workers' = workers \ {fr.w}
     /\ UNCHANGED <<queue, reports, stalled>>

(***************************************************************************)
(* try_send to a worker that is up or not: taken, handed back, or closed.  *)
(***************************************************************************)
TrySend(fr, up) ==
  \/ /\ up /\ Len(queue[fr.w]) < QUEUE_DEPTH
     /\ queue' = [queue EXCEPT ![fr.w] = Append(@, fr)]
     /\ workers' = workers \cup {fr.w}
     /\ UNCHANGED <<stalled, reports>>
  \/ /\ up /\ Len(queue[fr.w]) >= QUEUE_DEPTH
     /\ stalled' = fr
     /\ UNCHANGED <<queue, workers, reports>>
  \/ /\ ~up
     /\ workers' = workers \ {fr.w}
     /\ reports' = Append(reports, Dropped(fr))
     /\ UNCHANGED <<queue, stalled>>

(***************************************************************************)
(* submit: the first frame of a window starts its worker.                  *)
(***************************************************************************)
Submit(fr) ==
  \/ /\ fr.w \in workers
     /\ TrySend(fr, thread[fr.w] # "exited")
     /\ UNCHANGED <<thread, current, decoder, reference>>
  \/ /\ fr.w \notin workers
     /\ TrySend(fr, TRUE)
     /\ thread' = [thread EXCEPT ![fr.w] = "waiting"]
     /\ decoder' = [decoder EXCEPT ![fr.w] = "none"]
     /\ reference' = [reference EXCEPT ![fr.w] = 0]
     /\ UNCHANGED current
  \/ /\ fr.w \notin workers /\ "spawn" \in Faults
     /\ TrySend(fr, FALSE)
     /\ UNCHANGED <<thread, current, decoder, reference>>

ReadFrame(w) ==
  /\ Reading /\ window[w] = "open" /\ arrived[w] < MaxFrames
  /\ arrived' = [arrived EXCEPT ![w] = @ + 1]
  /\ \E key \in BOOLEAN :
       /\ arrived[w] = 0 => key
       /\ Submit([w |-> w, f |-> arrived[w] + 1, key |-> key])
  /\ UNCHANGED <<window, commands, presented, decode_times, acked, displayVars, session>>

\* Mutant: the held frame is forgotten once there is room.
UnstallForgets ==
  /\ session /\ stalled # None
  /\ thread[stalled.w] = "exited" \/ Len(queue[stalled.w]) < QUEUE_DEPTH
  /\ stalled' = None
  /\ UNCHANGED <<window, arrived, workers, workerVars, reports, commands,
                 presented, decode_times, acked, displayVars, session>>

\* Mutant: off by one in the room that is waited for.
UnstallLate ==
  /\ session /\ stalled # None
  /\ Len(queue[stalled.w]) + 1 < QUEUE_DEPTH
  /\ queue' = [queue EXCEPT ![stalled.w] = Append(@, stalled)]
  /\ stalled' = None
  /\ UNCHANGED <<window, arrived, workers, thread, current, decoder, reference, reports,
                 commands, presented, decode_times, acked, displayVars, session>>

(***************************************************************************)
(* wait_for_decode_room: there is room, or the worker is gone and the held *)
(* frame goes with it.                                                     *)
(***************************************************************************)
Unstall ==
  /\ session /\ stalled # None
  /\ \/ /\ thread[stalled.w] # "exited" /\ Len(queue[stalled.w]) < QUEUE_DEPTH
        /\ queue' = [queue EXCEPT ![stalled.w] = Append(@, stalled)]
     \/ /\ thread[stalled.w] = "exited"
        /\ UNCHANGED queue
  /\ stalled' = None
  /\ UNCHANGED <<window, arrived, workers, thread, current, decoder, reference, reports,
                 commands, presented, decode_times, acked, displayVars, session>>

-----------------------------------------------------------------------------
(***************************************************************************)
(* Reports and display events at the session.                              *)
(***************************************************************************)
KeyLE(j, k) == j[1] < k[1] \/ (j[1] = k[1] /\ j[2] <= k[2])
Oldest(keys) == CHOOSE k \in keys : \A j \in keys : KeyLE(k, j)

\* Mutant: nothing is evicted.
RecordUnbounded(keys, k) == keys \cup {k}

Record(keys, k) ==
  (IF Cardinality(keys) >= CAPACITY THEN keys \ {Oldest(keys)} ELSE keys) \cup {k}

Ack(w, f) == acked' = [acked EXCEPT ![w] = @ \cup {f}]

TakeReport ==
  /\ session /\ reports # <<>>
  /\ LET r == Head(reports)
     IN  \/ /\ r.t = "Decoded"
            /\ decode_times' = Record(decode_times, <<r.w, r.f>>)
            /\ UNCHANGED acked
         \/ /\ r.t = "Dropped"
            /\ Ack(r.w, r.f)
            /\ UNCHANGED decode_times
  /\ reports' = Tail(reports)
  /\ UNCHANGED <<window, arrived, workers, workerVars, stalled, commands, presented,
                 displayVars, session>>

HandlePresented ==
  /\ session /\ presented # <<>>
  /\ LET p == Head(presented)
     IN  /\ decode_times' = decode_times \ {<<p.w, p.f>>}
         /\ Ack(p.w, p.f)
  /\ presented' = Tail(presented)
  /\ UNCHANGED <<window, arrived, workers, workerVars, stalled, reports, commands,
                 displayVars, session>>

\* The event channel is closed and drained.
SeeDisplayGone ==
  /\ session /\ ~display /\ presented = <<>>
  /\ session' = FALSE
  /\ UNCHANGED <<window, arrived, workers, workerVars, stalled, reports, commands,
                 presented, decode_times, acked, displayVars>>

-----------------------------------------------------------------------------
(***************************************************************************)
(* A worker thread: receive, decode, report, deliver.  It ends when its    *)
(* queue is empty and no sender is left, or when the display is gone.      *)
(***************************************************************************)
Receive(w) ==
  /\ thread[w] = "waiting" /\ queue[w] # <<>>
  /\ current' = [current EXCEPT ![w] = Head(queue[w])]
  /\ queue' = [queue EXCEPT ![w] = Tail(@)]
  /\ thread' = [thread EXCEPT ![w] = "decoding"]
  /\ UNCHANGED <<window, arrived, workers, decoder, reference, stalled, reports, commands,
                 presented, decode_times, acked, displayVars, session>>

WorkerEnds(w) ==
  /\ thread[w] = "waiting" /\ queue[w] = <<>>
  /\ w \notin workers \/ ~session
  /\ thread' = [thread EXCEPT ![w] = "exited"]
  /\ UNCHANGED <<window, arrived, workers, queue, current, decoder, reference, stalled,
                 reports, commands, presented, decode_times, acked, displayVars, session>>

Picture(w) ==
  /\ thread' = [thread EXCEPT ![w] = "delivering"]
  /\ decoder' = [decoder EXCEPT ![w] = "synced"]
  /\ reference' = [reference EXCEPT ![w] = current[w].f]
  /\ reports' = Append(reports, Decoded(current[w]))
  /\ UNCHANGED current

NoPicture(w, d, ref) ==
  /\ thread' = [thread EXCEPT ![w] = "waiting"]
  /\ decoder' = [decoder EXCEPT ![w] = d]
  /\ reference' = [reference EXCEPT ![w] = ref]
  /\ reports' = Append(reports, Dropped(current[w]))
  /\ current' = [current EXCEPT ![w] = None]

\* The frame is taken in but gives no picture, is rejected, or makes the decoder panic.
DecodeFails(w) ==
  \/ "nothing" \in Faults /\ NoPicture(w, "synced", current[w].f)
  \/ "bitstream" \in Faults /\ NoPicture(w, "awaiting", reference[w])
  \/ "panic" \in Faults /\ NoPicture(w, "none", 0)

(***************************************************************************)
(* A decoder starts out awaiting a keyframe, and does so again after a     *)
(* rejected bitstream; a panicking one is discarded.                       *)
(***************************************************************************)
Decode(w) ==
  /\ thread[w] = "decoding"
  /\ LET starts == current[w].key \/ decoder[w] = "synced"
     IN  \/ starts /\ Picture(w)
         \/ ~starts /\ NoPicture(w, "awaiting", reference[w])
         \/ "factory" \in Faults /\ decoder[w] = "none" /\ NoPicture(w, "none", 0)
         \/ starts /\ DecodeFails(w)
  /\ UNCHANGED <<window, arrived, workers, queue, stalled, commands, presented,
                 decode_times, acked, displayVars, session>>

Deliver(w) ==
  /\ thread[w] = "delivering"
  /\ current' = [current EXCEPT ![w] = None]
  /\ IF display
     THEN /\ commands' = Append(commands, [t |-> "frame", w |-> w, f |-> current[w].f])
          /\ thread' = [thread EXCEPT ![w] = "waiting"]
          /\ UNCHANGED queue
     ELSE /\ thread' = [thread EXCEPT ![w] = "exited"]
          /\ queue' = [queue EXCEPT ![w] = <<>>]
          /\ UNCHANGED commands
  /\ UNCHANGED <<window, arrived, workers, decoder, reference, stalled, reports, presented,
                 decode_times, acked, displayVars, session>>

WorkerNext(w) == Receive(w) \/ WorkerEnds(w) \/ Decode(w) \/ Deliver(w)

-----------------------------------------------------------------------------
(***************************************************************************)
(* The display thread takes one command at a time.  A frame for a window   *)
(* it does not have, or that it cannot put on screen, is not Presented.    *)
(***************************************************************************)
TakeCommand ==
  /\ display /\ commands # <<>>
  /\ LET c == Head(commands)
     IN  \/ /\ c.t = "create"
            /\ \/ native' = native \cup {c.w}
               \/ "create" \in Faults /\ UNCHANGED native
            /\ UNCHANGED <<presented, failed>>
         \/ /\ c.t = "destroy"
            /\ native' = native \ {c.w}
            /\ UNCHANGED <<presented, failed>>
         \/ /\ c.t = "frame"
            /\ \/ /\ c.w \in native
                  /\ presented' = Append(presented, [w |-> c.w, f |-> c.f])
                  /\ UNCHANGED failed
               \/ /\ c.w \notin native \/ "present" \in Faults
                  /\ failed' = [failed EXCEPT ![c.w] = @ \cup {c.f}]
                  /\ UNCHANGED presented
            /\ UNCHANGED native
  /\ commands' = Tail(commands)
  /\ UNCHANGED <<window, arrived, workers, workerVars, stalled, reports, decode_times,
                 acked, display, session>>

CloseDisplay ==
  /\ DisplayMayClose /\ display
  /\ display' = FALSE
  /\ commands' = <<>>
  /\ UNCHANGED <<window, arrived, workers, workerVars, stalled, reports, native, failed,
                 presented, decode_times, acked, session>>

WireNext == \E w \in Windows : ReadOpened(w) \/ ReadFrame(w) \/ ReadClosed(w)

SessionNext == Unstall \/ TakeReport \/ HandlePresented \/ SeeDisplayGone

PipelineNext ==
  \/ WireNext \/ SessionNext \/ TakeCommand \/ CloseDisplay
  \/ \E w \in Windows : WorkerNext(w)

(***************************************************************************)
(* Fairness: a branch of select that stays ready is taken, threads run.    *)
(* Nothing is assumed of the agent, nor that the display closes.           *)
(***************************************************************************)
PipelineFairness ==
  /\ WF_pipelineVars(Unstall) /\ WF_pipelineVars(TakeReport)
  /\ WF_pipelineVars(HandlePresented) /\ WF_pipelineVars(SeeDisplayGone)
  /\ WF_pipelineVars(TakeCommand)
  /\ \A w \in Windows : WF_pipelineVars(WorkerNext(w))

PipelineSpec == PipelineInit /\ [][PipelineNext]_pipelineVars /\ PipelineFairness

-----------------------------------------------------------------------------
SeqElems(s) == {s[i] : i \in DOMAIN s}
Ids(s, w) == {m.f : m \in {n \in SeqElems(s) : n.w = w}}

(***************************************************************************)
(* Type invariant.                                                         *)
(***************************************************************************)
PipelineTypeOK ==
  /\ window \in [Windows -> {"new", "open", "closed"}]
  /\ arrived \in [Windows -> 0 .. MaxFrames]
  /\ workers \subseteq Windows /\ native \subseteq Windows
  /\ thread \in [Windows -> {"none", "waiting", "decoding", "delivering", "exited"}]
  /\ \A w \in Windows :
       /\ Len(queue[w]) <= QUEUE_DEPTH /\ SeqElems(queue[w]) \subseteq Frames
       /\ current[w] \in Frames \cup {None}
  /\ decoder \in [Windows -> {"none", "awaiting", "synced"}]
  /\ stalled \in Frames \cup {None}
  /\ decode_times \subseteq Windows \X (1 .. MaxFrames)
  /\ acked \in [Windows -> SUBSET (1 .. MaxFrames)]

(***************************************************************************)
(* Where a frame of a window can be: on the way to an acknowledgement,     *)
(* acknowledged, or left by the display without a Presented.               *)
(***************************************************************************)
Places(w) ==
  << IF stalled # None /\ stalled.w = w THEN {stalled.f} ELSE {},
     Ids(queue[w], w),
     IF current[w] # None THEN {current[w].f} ELSE {},
     Ids(SelectSeq(reports, LAMBDA r : r.t = "Dropped"), w),
     Ids(SelectSeq(commands, LAMBDA c : c.t = "frame"), w),
     Ids(presented, w),
     acked[w],
     failed[w] >>

(***************************************************************************)
(* No frame is lost and none is answered twice: while the window and the   *)
(* display are there, every frame read is at exactly one place             *)
(* (pipeline.rs:74-82), whatever the decoder does.                         *)
(***************************************************************************)
FramesAccounted ==
  \A w \in Windows :
    window[w] = "open" /\ display =>
      LET p == Places(w)
      IN  /\ UNION SeqElems(p) = 1 .. arrived[w]
          /\ \A i, j \in DOMAIN p : i # j => p[i] \cap p[j] = {}

(***************************************************************************)
(* "Frames arrive in frame_id order and leave in the same order"           *)
(* (pipeline.rs:264), through the stall and whatever is dropped between.   *)
(***************************************************************************)
DisplayOrder ==
  LET fs(w) == SelectSeq(commands, LAMBDA c : c.t = "frame" /\ c.w = w)
  IN  \A w \in Windows : \A i, j \in DOMAIN fs(w) : i < j => fs(w)[i].f < fs(w)[j].f

(***************************************************************************)
(* What reaches the display is a keyframe or was predicted from the frame  *)
(* before it: the client never breaks the reference chain                  *)
(* (pipeline.rs:28-43, h264.rs:165-190).                                   *)
(***************************************************************************)
ReferenceChain ==
  [][\A w \in Windows :
       thread[w] = "decoding" /\ thread'[w] = "delivering" =>
         current[w].key \/ reference[w] = current[w].f - 1]_pipelineVars

(***************************************************************************)
(* DecodeTimes stays within its capacity although entries may be left      *)
(* behind (main.rs:176-195).                                               *)
(***************************************************************************)
DecodeTimesBounded == Cardinality(decode_times) <= CAPACITY

(***************************************************************************)
(* Backpressure is not a deadlock: the session reads the wire again.       *)
(***************************************************************************)
StallEnds == stalled # None ~> stalled = None \/ ~session

(***************************************************************************)
(* Every frame is acknowledged, also one that will never be presented      *)
(* (main.rs:611-616), unless its window or the display goes away or the    *)
(* display itself fails on it, for which the code makes no report          *)
(* (winit_backend.rs:427-453).                                             *)
(***************************************************************************)
EveryFrameAnswered ==
  \A w \in Windows : \A f \in 1 .. MaxFrames :
    (arrived[w] >= f) ~>
      (f \in acked[w] \/ f \in failed[w] \/ window[w] = "closed" \/ ~display)
=============================================================================
