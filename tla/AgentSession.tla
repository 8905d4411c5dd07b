---------------------------- MODULE AgentSession ----------------------------
(***************************************************************************)
(* The steady state of one authenticated session on the agent              *)
(* (crates/oxagent/src/serve.rs, drive, sync_windows, pump_frames and      *)
(* write_outbound) with the guest desktop it mirrors.                      *)
(*                                                                         *)
(* Three parties run concurrently: the guest's desktop and its capture     *)
(* pool, the driver, and the writer task that drains the outbound queue.   *)
(* The driver never awaits inside a tick, but the writer runs on another   *)
(* thread, so a tick is cut where the driver touches the queue: one step   *)
(* per window of sync_windows, one per message it queues, one per window   *)
(* it closes, one per window of pump_frames.                               *)
(***************************************************************************)
EXTENDS WindowRegistry, FrameBudgetOps, FrameEncoderOps, SequencesExt

CONSTANTS
  Codec,            \* the negotiated codec, "RAW_BGRA" or "H264"
  Hardware,         \* the capture device is a real GPU
  MaxFramesInFlight,
  QueueCap,         \* OUTBOUND_QUEUE_CAPACITY
  WireCap,          \* bytes the transport buffers, counted in messages
  MaxEdits,         \* bound on changes of the desktop
  Sizes,            \* sizes a window can have; the first one is 1
  Edits,            \* kinds of change the desktop makes
  Recycle,          \* may a handle be reused before the agent's next tick
  None              \* no window, no capture, no frame

ASSUME SessionAssumption ==
  /\ Codec \in {"RAW_BGRA", "H264"} /\ Hardware \in BOOLEAN
  /\ MaxFramesInFlight \in Nat /\ QueueCap \in Nat \ {0} /\ WireCap \in Nat \ {0}
  /\ MaxEdits \in Nat /\ 1 \in Sizes /\ Sizes \subseteq Nat \ {0}
  /\ Edits \subseteq {"title", "move", "resize", "show", "style", "paint"}
  /\ Recycle \in BOOLEAN

VARIABLES
  desktop,      \* handle -> the window it names, or None
  edits,        \* number of desktop changes so far; also names contents
  capture,      \* handle -> WindowCapture, or None (source.captures)
  encoder,      \* handle -> encoder record (WinFrameEncoder)
  streams,      \* window id -> WindowStream
  pc,           \* where the driver is
  live,         \* sync_windows: windows of this tick still to be diffed
  liveHandles,  \* sync_windows: all handles of this tick
  unsent,       \* messages of the current window still to be queued
  ids,          \* pump_frames: windows still to be pumped
  outbound,     \* the bounded queue to the writer task
  writer,       \* "running", "failed" or "stopped"
  wire,         \* messages written and not yet read by the client
  inbox,        \* messages from the reader task, not yet received
  peer,         \* "open" or "gone": the reader task has stopped
  link          \* "up" or "down": the transport connection

driverVars == <<streams, pc, live, liveHandles, unsent, ids>>
queueVars == <<outbound, writer, wire, inbox, peer, link>>
desktopVars == <<desktop, edits>>
agentVars == <<registryVars, desktop, edits, capture, encoder, streams, pc, live, liveHandles,
               unsent, ids, outbound, writer, wire, inbox, peer, link>>

AgentInit ==
  /\ RegistryInit
  /\ desktop = [h \in Handles |-> None]
  /\ edits = 0
  /\ capture = [h \in Handles |-> None]
  /\ encoder = [h \in Handles |-> NoEncoder]
  /\ streams = [i \in {} |-> 0]
  /\ pc = "select"
  /\ live = <<>> /\ liveHandles = {} /\ unsent = <<>> /\ ids = <<>>
  /\ outbound = <<>> /\ writer = "running" /\ wire = <<>>
  /\ inbox = <<>> /\ peer = "open" /\ link = "up"

-----------------------------------------------------------------------------
(***************************************************************************)
(* The guest desktop (external): windows open, change and close at any     *)
(* moment.  born tells apart two windows that had the same handle.  The    *)
(* bounds of a minimized window are not meaningful; restoring brings the   *)
(* old ones back.                                                          *)
(***************************************************************************)
OpenWindow(h) ==
  /\ edits < MaxEdits
  /\ desktop[h] = None
  /\ h \in Tracked => Recycle
  /\ edits' = edits + 1
  /\ desktop' = [desktop EXCEPT ![h] =
       [born |-> edits', title |-> 0, pos |-> 0, size |-> 1, show |-> "NORMAL",
        style |-> {"HAS_FRAME"}, content |-> edits']]
  /\ UNCHANGED <<registryVars, capture, encoder, driverVars, queueVars>>

CloseWindow(h) ==
  /\ edits < MaxEdits
  /\ desktop[h] # None
  /\ edits' = edits + 1
  /\ desktop' = [desktop EXCEPT ![h] = None]
  /\ UNCHANGED <<registryVars, capture, encoder, driverVars, queueVars>>

Change(w, kind) ==
  CASE kind = "title" -> {[w EXCEPT !.title = 1 - @]}
    [] kind = "move"  -> {[w EXCEPT !.pos = 1 - @]}
    [] kind = "resize" -> {[w EXCEPT !.size = s, !.content = edits + 1] : s \in Sizes \ {w.size}}
    [] kind = "show"  -> {[w EXCEPT !.show = s] : s \in {"NORMAL", "MINIMIZED", "MAXIMIZED"} \ {w.show}}
    [] kind = "style" -> {[w EXCEPT !.style = {"HAS_FRAME"} \ @]}
    [] kind = "paint" -> {[w EXCEPT !.content = edits + 1]}

EditWindow(h) ==
  /\ edits < MaxEdits
  /\ desktop[h] # None
  /\ \E kind \in Edits : \E w \in Change(desktop[h], kind) :
       desktop' = [desktop EXCEPT ![h] = w]
  /\ edits' = edits + 1
  /\ UNCHANGED <<registryVars, capture, encoder, driverVars, queueVars>>

(***************************************************************************)
(* Windows.Graphics.Capture (external): a capture of a window that is      *)
(* still there and not minimized gets a frame when the window shows        *)
(* something it has not presented yet and its pool has a free buffer.      *)
(***************************************************************************)
Present(h) ==
  LET c == capture[h]
      w == desktop[h]
  IN  /\ c # None /\ w # None
      /\ c.born = w.born /\ w.show # "MINIMIZED"
      /\ c.frame = None /\ c.seen # w.content
      /\ capture' = [capture EXCEPT ![h].frame = [size |-> w.size, content |-> w.content],
                                    ![h].seen = w.content]
      /\ UNCHANGED <<registryVars, desktopVars, encoder, driverVars, queueVars>>

DesktopNext ==
  \E h \in Handles : OpenWindow(h) \/ CloseWindow(h) \/ EditWindow(h) \/ Present(h)

-----------------------------------------------------------------------------
(***************************************************************************)
(* Messages.                                                               *)
(***************************************************************************)
WindowFlags(w) == w.style \cup ({w.show} \ {"NORMAL"})
Geometry(w) == [pos |-> w.pos, size |-> w.size]

OpenedMsg(id, ch, w) ==
  [t |-> "WindowOpened", id |-> id, channel |-> ch, title |-> w.title,
   geo |-> Geometry(w), flags |-> WindowFlags(w)]
TitleMsg(id, w) == [t |-> "WindowTitle", id |-> id, title |-> w.title]
StateMsg(id, w) == [t |-> "WindowState", id |-> id, show |-> w.show, flags |-> WindowFlags(w)]
GeometryMsg(id, w) == [t |-> "WindowGeometry", id |-> id, geo |-> Geometry(w)]
ClosedMsg(id) == [t |-> "WindowClosed", id |-> id]
FrameMsg(id, ch, frame_id, au) ==
  [t |-> "FrameData", id |-> id, channel |-> ch, frame_id |-> frame_id, au |-> au]
PongMsg(seq) == [t |-> "Pong", seq |-> seq]

(***************************************************************************)
(* The end of the session: run_session drops the queue and aborts both     *)
(* tasks.  What is on the wire stays there.                                *)
(***************************************************************************)
EndSession ==
  /\ pc' = "done"
  /\ live' = <<>> /\ liveHandles' = {} /\ unsent' = <<>> /\ ids' = <<>>
  /\ outbound' = <<>> /\ writer' = "stopped" /\ inbox' = <<>>
  /\ UNCHANGED <<registryVars, desktopVars, capture, encoder, streams, wire, peer, link>>

-----------------------------------------------------------------------------
(***************************************************************************)
(* The select loop.  It is biased: a message first, then the end of the    *)
(* writer task, then the tick.                                             *)
(***************************************************************************)
RecvAck ==
  /\ pc = "select" /\ inbox # <<>> /\ Head(inbox).t = "FrameAck"
  /\ LET ack == Head(inbox)
     IN  streams' = IF ack.id \in DOMAIN streams
                    THEN [streams EXCEPT ![ack.id].budget = OnAck(@, ack.frame_id)]
                    ELSE streams
  /\ inbox' = Tail(inbox)
  /\ UNCHANGED <<registryVars, desktopVars, capture, encoder, pc, live, liveHandles,
                 unsent, ids, outbound, writer, wire, peer, link>>

RecvPing ==
  /\ pc = "select" /\ inbox # <<>> /\ Head(inbox).t = "Ping"
  /\ pc' = "pong"
  /\ unsent' = <<PongMsg(Head(inbox).seq)>>
  /\ inbox' = Tail(inbox)
  /\ UNCHANGED <<registryVars, desktopVars, capture, encoder, streams, live, liveHandles,
                 ids, outbound, writer, wire, peer, link>>

PongQueued ==
  /\ pc = "pong" /\ unsent = <<>>
  /\ pc' = "select"
  /\ UNCHANGED <<registryVars, desktopVars, capture, encoder, streams, live, liveHandles,
                 unsent, ids, queueVars>>

RecvClose ==
  /\ pc = "select" /\ inbox # <<>> /\ Head(inbox).t = "Close"
  /\ EndSession

\* Mutant: the end of the reader is noticed only once the writer has failed too.
RecvGoneLate ==
  /\ pc = "select" /\ inbox = <<>> /\ peer = "gone" /\ writer = "failed"
  /\ EndSession

RecvGone ==
  /\ pc = "select" /\ inbox = <<>> /\ peer = "gone"
  /\ EndSession

WriterGone ==
  /\ pc = "select" /\ inbox = <<>> /\ peer = "open" /\ writer = "failed"
  /\ EndSession

(***************************************************************************)
(* The tick: live_windows takes its snapshot, in an order EnumWindows      *)
(* chooses, and drops the captures of windows that are gone.               *)
(***************************************************************************)
OnScreen == {h \in Handles : desktop[h] # None}

\* Mutant: captures of windows that are gone are kept.
TickKeepsCaptures ==
  /\ pc = "select" /\ inbox = <<>> /\ peer = "open" /\ writer = "running"
  /\ pc' = "sync"
  /\ \E order \in SetToSeqs(OnScreen) :
       live' = [i \in DOMAIN order |-> [handle |-> order[i], win |-> desktop[order[i]]]]
  /\ liveHandles' = OnScreen
  /\ UNCHANGED <<registryVars, desktopVars, capture, encoder, streams, unsent, ids, queueVars>>

Tick ==
  /\ pc = "select" /\ inbox = <<>> /\ peer = "open" /\ writer = "running"
  /\ pc' = "sync"
  /\ \E order \in SetToSeqs(OnScreen) :
       live' = [i \in DOMAIN order |-> [handle |-> order[i], win |-> desktop[order[i]]]]
  /\ liveHandles' = OnScreen
  /\ capture' = [h \in Handles |-> IF h \in OnScreen THEN capture[h] ELSE None]
  /\ UNCHANGED <<registryVars, desktopVars, encoder, streams, unsent, ids, queueVars>>

\* Mutant: send ignores the queue's capacity.
QueueUnbounded ==
  /\ unsent # <<>> /\ writer = "running"
  /\ outbound' = Append(outbound, Head(unsent))
  /\ unsent' = Tail(unsent)
  /\ UNCHANGED <<registryVars, desktopVars, capture, encoder, streams, pc, live, liveHandles,
                 ids, writer, wire, inbox, peer, link>>

(***************************************************************************)
(* send: the message is queued, or a full or closed queue ends the         *)
(* session.                                                                *)
(***************************************************************************)
Queue ==
  /\ unsent # <<>> /\ writer = "running" /\ Len(outbound) < QueueCap
  /\ outbound' = Append(outbound, Head(unsent))
  /\ unsent' = Tail(unsent)
  /\ UNCHANGED <<registryVars, desktopVars, capture, encoder, streams, pc, live, liveHandles,
                 ids, writer, wire, inbox, peer, link>>

QueueError ==
  /\ unsent # <<>>
  /\ writer = "failed" \/ Len(outbound) >= QueueCap
  /\ EndSession

-----------------------------------------------------------------------------
(***************************************************************************)
(* sync_windows, one window of the snapshot.                               *)
(***************************************************************************)
NewStream(h, ch, w) ==
  [handle |-> h, channel |-> ch, budget |-> NewBudget(MaxFramesInFlight),
   geo |-> Geometry(w), title |-> w.title, show |-> w.show, flags |-> WindowFlags(w),
   needs_keyframe |-> TRUE,
   framed |-> "HAS_FRAME" \in w.style]           \* history: HAS_FRAME when geo was announced

\* Mutant: WindowOpened names a new channel when a freed one is taken.
SyncNewOtherChannel(h, w) ==
  /\ TrackNew(h)
  /\ LET id == next_window_id
     IN  /\ streams' = [i \in DOMAIN streams \cup {id} |->
                          IF i = id THEN NewStream(h, ChannelForNew, w) ELSE streams[i]]
         /\ unsent' = <<OpenedMsg(id, next_channel, w)>>

SyncNew(h, w) ==
  /\ TrackNew(h)
  /\ LET id == next_window_id
     IN  /\ streams' = [i \in DOMAIN streams \cup {id} |->
                          IF i = id THEN NewStream(h, ChannelForNew, w) ELSE streams[i]]
         /\ unsent' = <<OpenedMsg(id, ChannelForNew, w)>>

(***************************************************************************)
(* The three comparisons of a known window, in the order of the code: the  *)
(* title, the flags and show state, and, unless minimized, the geometry.   *)
(***************************************************************************)
StateChanged(s, w) == s.show # w.show \/ s.flags # WindowFlags(w)
FrameFlipped(s, w) == ("HAS_FRAME" \in s.flags) # ("HAS_FRAME" \in WindowFlags(w))
GeometryDue(s, w) == w.show # "MINIMIZED" /\ (s.geo # Geometry(w) \/ FrameFlipped(s, w))

\* Mutant: a minimized window's bounds are stored though they are not sent.
SyncedStreamMinimized(s, w) ==
  LET seen == [s EXCEPT !.title = w.title, !.show = w.show, !.flags = WindowFlags(w),
                        !.geo = Geometry(w)]
  IN  IF GeometryDue(s, w)
      THEN [seen EXCEPT !.budget = Restart(@), !.framed = "HAS_FRAME" \in w.style,
                        !.needs_keyframe = @ \/ s.geo.size # w.size]
      ELSE seen

SyncedStream(s, w) ==
  LET seen == [s EXCEPT !.title = w.title, !.show = w.show, !.flags = WindowFlags(w)]
  IN  IF GeometryDue(s, w)
      THEN [seen EXCEPT !.geo = Geometry(w), !.budget = Restart(@),
                        !.framed = "HAS_FRAME" \in w.style,
                        !.needs_keyframe = @ \/ s.geo.size # w.size]
      ELSE seen

SyncMsgs(id, s, w) ==
  (IF s.title # w.title THEN <<TitleMsg(id, w)>> ELSE <<>>) \o
  (IF StateChanged(s, w) THEN <<StateMsg(id, w)>> ELSE <<>>) \o
  (IF GeometryDue(s, w) THEN <<GeometryMsg(id, w)>> ELSE <<>>)

SyncKnown(h, w) ==
  /\ TrackKnown(h)
  /\ LET id == WindowId(h)
     IN  /\ streams' = [streams EXCEPT ![id] = SyncedStream(@, w)]
         /\ unsent' = SyncMsgs(id, streams[id], w)

SyncWindow ==
  /\ pc = "sync" /\ unsent = <<>> /\ live # <<>>
  /\ SyncNew(Head(live).handle, Head(live).win) \/ SyncKnown(Head(live).handle, Head(live).win)
  /\ live' = Tail(live)
  /\ UNCHANGED <<desktopVars, capture, encoder, pc, liveHandles, ids, queueVars>>

(***************************************************************************)
(* sync_windows, the windows that are gone: retain_live, then one close    *)
(* per window it forgot.                                                   *)
(***************************************************************************)
SyncRetain ==
  /\ pc = "sync" /\ unsent = <<>> /\ live = <<>>
  /\ RetainLive(liveHandles)
  /\ pc' = "close"
  /\ UNCHANGED <<desktopVars, capture, encoder, streams, live, liveHandles, unsent, ids,
                 queueVars>>

\* Mutant: the stream of a closed window is left behind.
SyncClosedKeepsStream(h) ==
  /\ pc = "close" /\ unsent = <<>>
  /\ ForgetNext(h)
  /\ encoder' = [encoder EXCEPT ![h] = NoEncoder]
  /\ unsent' = <<ClosedMsg(WindowId(h))>>
  /\ UNCHANGED <<desktopVars, capture, streams, pc, live, liveHandles, ids, queueVars>>

SyncClosed(h) ==
  /\ pc = "close" /\ unsent = <<>>
  /\ ForgetNext(h)
  /\ streams' = [i \in DOMAIN streams \ {WindowId(h)} |-> streams[i]]
  /\ encoder' = [encoder EXCEPT ![h] = NoEncoder]
  /\ unsent' = <<ClosedMsg(WindowId(h))>>
  /\ UNCHANGED <<desktopVars, capture, pc, live, liveHandles, ids, queueVars>>

\* Mutant: frames are pumped before every closed window was reported.
SyncDoneEarly ==
  /\ pc = "close" /\ unsent = <<>>
  /\ pc' = "pump"
  /\ ids' = SetToSortSeq(DOMAIN streams, <)
  /\ liveHandles' = {}
  /\ UNCHANGED <<registryVars, desktopVars, capture, encoder, streams, live, unsent, queueVars>>

SyncDone ==
  /\ pc = "close" /\ unsent = <<>> /\ removing = {}
  /\ pc' = "pump"
  /\ ids' = SetToSortSeq(DOMAIN streams, <)
  /\ liveHandles' = {}
  /\ UNCHANGED <<registryVars, desktopVars, capture, encoder, streams, live, unsent, queueVars>>

-----------------------------------------------------------------------------
(***************************************************************************)
(* pump_frames, one window.  A minimized window is not captured, and       *)
(* without a slot in the queue nothing is captured or encoded.             *)
(***************************************************************************)
PumpedId == Head(ids)
Pumped == streams[PumpedId]
\* Mutant: a minimized window is captured like any other.
VisibleAlways == pc = "pump" /\ ids # <<>>
Visible == pc = "pump" /\ ids # <<>> /\ Pumped.show # "MINIMIZED"
Reserved == Visible /\ writer = "running" /\ Len(outbound) < QueueCap

PumpSkip ==
  /\ pc = "pump" /\ ids # <<>>
  /\ \/ Pumped.show = "MINIMIZED"
     \/ writer = "running" /\ Len(outbound) >= QueueCap
  /\ ids' = Tail(ids)
  /\ UNCHANGED <<registryVars, desktopVars, capture, encoder, streams, pc, live, liveHandles,
                 unsent, queueVars>>

PumpBroken ==
  /\ Visible /\ writer = "failed"
  /\ EndSession

(***************************************************************************)
(* next_frame without a frame: the capture is only now started (or cannot  *)
(* be, the window being gone), its pool is empty, or the frame has a size  *)
(* the pool was not made for and the pool is made again.                   *)
(***************************************************************************)
Stale(c) == c.frame # None /\ c.frame.size # c.pool_size

PumpNoFrame ==
  LET h == Pumped.handle
      c == capture[h]
  IN  /\ Reserved
      /\ \/ /\ c = None
            /\ capture' = IF desktop[h] = None THEN capture
                          ELSE [capture EXCEPT ![h] =
                                  [born |-> desktop[h].born, pool_size |-> desktop[h].size,
                                   frame |-> None, seen |-> 0]]
         \/ /\ c # None /\ c.frame = None
            /\ UNCHANGED capture
         \/ /\ c # None /\ Stale(c)
            /\ capture' = [capture EXCEPT ![h].pool_size = c.frame.size, ![h].frame = None,
                                          ![h].seen = 0]
      /\ ids' = Tail(ids)
      /\ UNCHANGED <<registryVars, desktopVars, encoder, streams, pc, live, liveHandles, unsent,
                     queueVars>>

(***************************************************************************)
(* next_frame fails: the capture is dropped and made again next time.      *)
(***************************************************************************)
PumpCaptureError ==
  /\ Reserved /\ capture[Pumped.handle] # None
  /\ edits < MaxEdits
  /\ edits' = edits + 1
  /\ capture' = [capture EXCEPT ![Pumped.handle] = None]
  /\ ids' = Tail(ids)
  /\ UNCHANGED <<registryVars, desktop, encoder, streams, pc, live, liveHandles, unsent,
                 queueVars>>

(***************************************************************************)
(* A captured frame: taken from the pool, submitted, polled and sent.      *)
(***************************************************************************)
WantsGpu(s) ==
  /\ Codec = "H264"
  /\ ~Failed(encoder[s.handle])
  /\ ~WantsCpuFrame(encoder[s.handle], s.geo.size)

Captured ==
  LET c == capture[Pumped.handle]
  IN  [size |-> c.frame.size, content |-> c.frame.content,
       gpu |-> WantsGpu(Pumped) /\ Hardware]

HasFrame == Reserved /\ capture[Pumped.handle] # None
            /\ capture[Pumped.handle].frame # None /\ ~Stale(capture[Pumped.handle])

RawUnit(frame) ==
  [codec |-> "RAW_BGRA", key |-> TRUE, size |-> frame.size, content |-> frame.content,
   gen |-> 0, seq |-> 0]

SendFrame(au) ==
  /\ streams' = [streams EXCEPT
       ![PumpedId].budget = OnCaptured(@),
       ![PumpedId].needs_keyframe = @ /\ ~(au.codec = "H264" /\ au.key)]
  /\ outbound' = Append(outbound, FrameMsg(PumpedId, Pumped.channel,
                                           Pumped.budget.next_frame_id, au))

TakeFrame ==
  /\ HasFrame
  /\ capture' = [capture EXCEPT ![Pumped.handle].frame = None]
  /\ ids' = Tail(ids)
  /\ UNCHANGED <<registryVars, desktopVars, pc, live, liveHandles, unsent, writer, wire,
                 inbox, peer, link>>

PumpRaw ==
  /\ TakeFrame /\ Codec = "RAW_BGRA"
  /\ SendFrame(RawUnit(Captured))
  /\ UNCHANGED encoder

(***************************************************************************)
(* The H.264 path, after submit left the encoder as e: an encoder that     *)
(* failed sends the pixels uncoded if there are any, otherwise what poll   *)
(* has ready is sent.                                                      *)
(***************************************************************************)
PumpH264 ==
  /\ TakeFrame /\ Codec = "H264"
  /\ \E setup \in SetupOutcomes(Captured), accepted \in BOOLEAN, ready \in BOOLEAN :
       LET h == Pumped.handle
           e == Submit(encoder[h], Captured, Pumped.needs_keyframe, setup, accepted)
       IN  \/ /\ Failed(e) /\ ~Captured.gpu
              /\ encoder' = [encoder EXCEPT ![h] = e]
              /\ SendFrame(RawUnit(Captured))
           \/ /\ ~Failed(e) /\ ready /\ CanPoll(e)
              /\ encoder' = [encoder EXCEPT ![h] = Polled(e)]
              /\ SendFrame(AccessUnit(e))
           \/ /\ IF Failed(e) THEN Captured.gpu ELSE ~(ready /\ CanPoll(e))
              /\ encoder' = [encoder EXCEPT ![h] = e]
              /\ UNCHANGED <<streams, outbound>>

PumpDone ==
  /\ pc = "pump" /\ ids = <<>>
  /\ pc' = "select"
  /\ UNCHANGED <<registryVars, desktopVars, capture, encoder, streams, live, liveHandles,
                 unsent, ids, queueVars>>

DriverNext ==
  \/ RecvAck \/ RecvPing \/ PongQueued \/ RecvClose \/ RecvGone \/ WriterGone
  \/ Tick \/ Queue \/ QueueError \/ SyncWindow \/ SyncRetain
  \/ (\E h \in Handles : SyncClosed(h)) \/ SyncDone
  \/ PumpSkip \/ PumpBroken \/ PumpNoFrame \/ PumpCaptureError \/ PumpRaw \/ PumpH264
  \/ PumpDone

-----------------------------------------------------------------------------
(***************************************************************************)
(* write_outbound: one message at a time, in order, as far as the          *)
(* transport takes them; a transport error ends the task.                  *)
(***************************************************************************)
WriteOne ==
  /\ writer = "running" /\ outbound # <<>> /\ Len(wire) < WireCap
  /\ wire' = Append(wire, Head(outbound))
  /\ outbound' = Tail(outbound)
  /\ UNCHANGED <<registryVars, desktopVars, capture, encoder, driverVars, writer, inbox, peer, link>>

WriterFails ==
  /\ writer = "running" /\ link = "down"
  /\ writer' = "failed"
  /\ outbound' = <<>>
  /\ UNCHANGED <<registryVars, desktopVars, capture, encoder, driverVars, wire, inbox, peer, link>>

(***************************************************************************)
(* The reader task stops when the transport is gone; messages it has       *)
(* passed on are still received.                                           *)
(***************************************************************************)
ReaderStops ==
  /\ peer = "open" /\ link = "down"
  /\ peer' = "gone"
  /\ UNCHANGED <<registryVars, desktopVars, capture, encoder, driverVars, outbound, writer,
                 wire, inbox, link>>

TransportNext == WriteOne \/ WriterFails \/ ReaderStops

AgentNext == DesktopNext \/ DriverNext \/ TransportNext
=============================================================================
