------------------------------- MODULE Mirror -------------------------------
(***************************************************************************)
(* The agent's session, the transport and the client's window model        *)
(* together: the desktop changes, the agent announces it, the client       *)
(* mirrors it, acknowledges frames, pings, and goes away at any moment.    *)
(*                                                                         *)
(* The client is the session task of crates/oxclient/src/main.rs reduced   *)
(* to what it does with a message: update the window model, decode and     *)
(* show a frame, acknowledge it once it was presented.                     *)
(***************************************************************************)
EXTENDS AgentSession, WindowModel

CONSTANTS
  MaxPings,       \* bound on the pings of a session
  Leaves,         \* may the client leave
  AckChoices      \* {TRUE}: every frame is presented; {TRUE, FALSE}: some are not

ASSUME MirrorAssumption ==
  MaxPings \in Nat /\ Leaves \in BOOLEAN /\ AckChoices \subseteq BOOLEAN

VARIABLES
  shown,          \* window id -> the last frame shown, or None
  pings           \* pings sent so far

mirrorVars == <<agentVars, modelVars, shown, pings>>

MirrorInit ==
  /\ AgentInit
  /\ ModelInit
  /\ shown = [i \in {} |-> 0]
  /\ pings = 0

-----------------------------------------------------------------------------
(***************************************************************************)
(* The client reads the next message.                                      *)
(***************************************************************************)
Arrives(t) == link = "up" /\ wire # <<>> /\ Head(wire).t = t

AfterRead ==
  /\ wire' = Tail(wire)
  /\ UNCHANGED <<registryVars, desktopVars, capture, encoder, driverVars, outbound, writer,
                 peer, link, pings>>

ClientOpened ==
  /\ Arrives("WindowOpened") /\ AfterRead
  /\ OnOpened(Head(wire))
  /\ shown' = [i \in DOMAIN shown \cup {Head(wire).id} |->
                 IF i \in DOMAIN shown THEN shown[i] ELSE None]
  /\ UNCHANGED inbox

ClientClosed ==
  /\ Arrives("WindowClosed") /\ AfterRead
  /\ OnClosed(Head(wire))
  /\ shown' = [i \in DOMAIN shown \ {Head(wire).id} |-> shown[i]]
  /\ UNCHANGED inbox

ClientUpdate ==
  /\ \/ Arrives("WindowTitle") /\ OnTitle(Head(wire))
     \/ Arrives("WindowState") /\ OnState(Head(wire))
     \/ Arrives("WindowGeometry") /\ OnGeometry(Head(wire))
  /\ AfterRead
  /\ UNCHANGED <<inbox, shown>>

(***************************************************************************)
(* A frame is decoded and shown; the acknowledgement follows if it is      *)
(* presented and not replaced by a newer one first.                        *)
(***************************************************************************)
ClientFrame ==
  /\ Arrives("FrameData") /\ AfterRead
  /\ shown' = [i \in DOMAIN shown |->
                 IF i = Head(wire).id
                 THEN [frame_id |-> Head(wire).frame_id, au |-> Head(wire).au]
                 ELSE shown[i]]
  /\ \E acked \in AckChoices :
       inbox' = IF acked /\ pc # "done"
                THEN Append(inbox, [t |-> "FrameAck", id |-> Head(wire).id,
                                    frame_id |-> Head(wire).frame_id])
                ELSE inbox
  /\ UNCHANGED modelVars

ClientPong ==
  /\ Arrives("Pong") /\ AfterRead
  /\ UNCHANGED <<inbox, modelVars, shown>>

ClientRead == ClientOpened \/ ClientClosed \/ ClientUpdate \/ ClientFrame \/ ClientPong

ClientPing ==
  /\ link = "up" /\ pc # "done" /\ pings < MaxPings
  /\ inbox' = Append(inbox, [t |-> "Ping", seq |-> pings + 1])
  /\ pings' = pings + 1
  /\ UNCHANGED <<registryVars, desktopVars, capture, encoder, driverVars, outbound, writer,
                 wire, peer, link, modelVars, shown>>

(***************************************************************************)
(* The client leaves, with a Close or without one.                         *)
(***************************************************************************)
ClientLeaves ==
  /\ Leaves /\ link = "up"
  /\ link' = "down"
  /\ \E polite \in BOOLEAN :
       inbox' = IF polite /\ pc # "done" THEN Append(inbox, [t |-> "Close"]) ELSE inbox
  /\ UNCHANGED <<registryVars, desktopVars, capture, encoder, driverVars, outbound, writer,
                 wire, peer, modelVars, shown, pings>>

MirrorNext ==
  \/ AgentNext /\ UNCHANGED <<modelVars, shown, pings>>
  \/ ClientRead \/ ClientPing \/ ClientLeaves

(***************************************************************************)
(* Fairness.  Both sides run on tokio's runtime, which keeps polling every *)
(* ready task, and the ticker fires for as long as the session lives; the  *)
(* client reads whenever there is something to read; the capture pool is   *)
(* filled by the compositor.  Nothing is assumed of the user or the client *)
(* leaving, and no step of several alternatives is assumed to be taken.    *)
(***************************************************************************)
MirrorFairness ==
  /\ WF_mirrorVars(DriverNext /\ UNCHANGED <<modelVars, shown, pings>>)
  /\ WF_mirrorVars(WriteOne /\ UNCHANGED <<modelVars, shown, pings>>)
  /\ WF_mirrorVars(ReaderStops /\ UNCHANGED <<modelVars, shown, pings>>)
  /\ WF_mirrorVars(ClientRead)
  /\ \A h \in Handles : WF_mirrorVars(Present(h) /\ UNCHANGED <<modelVars, shown, pings>>)

MirrorSpec == MirrorInit /\ [][MirrorNext]_mirrorVars /\ MirrorFairness

-----------------------------------------------------------------------------
(***************************************************************************)
(* Type invariant of the driver's and the client's own state.              *)
(***************************************************************************)
MirrorTypeOK ==
  /\ RegistryTypeOK
  /\ pc \in {"select", "pong", "sync", "close", "pump", "done"}
  /\ DOMAIN streams \subseteq 1 .. MaxWindowId
  /\ Len(outbound) <= QueueCap /\ Len(wire) <= WireCap
  /\ DOMAIN shown = Mapped
  /\ ToSet(ids) \subseteq DOMAIN streams

(***************************************************************************)
(* The driver's streams and its registry never disagree about which        *)
(* windows are announced: sync_windows and retain_live keep them in step   *)
(* through every partial tick (serve.rs:664-811).                          *)
(***************************************************************************)
StreamsMatchRegistry ==
  /\ DOMAIN streams = LiveIds
  /\ \A id \in DOMAIN streams :
       streams[id].handle = id_to_handle[id] /\ streams[id].channel = VideoChannel(id_to_handle[id])

(***************************************************************************)
(* The session uses its registry only through the registry's own           *)
(* operations, and never while retain_live is still removing windows: the  *)
(* agent implements RegistrySpec, so what is proved of the registry holds  *)
(* in every session (serve.rs:662, 799-811).                               *)
(***************************************************************************)
RegistryImplemented == RegistrySpec

(***************************************************************************)
(* What the client will see once it has read everything in transit.        *)
(***************************************************************************)
InTransit == wire \o outbound \o unsent

SetIn(v, id, r) == [i \in DOMAIN v \cup {id} |-> IF i = id THEN r ELSE v[i]]

Replay(v, m) ==
  CASE m.t = "WindowOpened" ->
         SetIn(v, m.id, [channel |-> m.channel, title |-> m.title, geo |-> m.geo,
                         minimized |-> "MINIMIZED" \in m.flags,
                         maximized |-> "MAXIMIZED" \in m.flags])
    [] m.t = "WindowClosed" -> [i \in DOMAIN v \ {m.id} |-> v[i]]
    [] m.t = "WindowTitle" -> [v EXCEPT ![m.id].title = m.title]
    [] m.t = "WindowGeometry" -> [v EXCEPT ![m.id].geo = m.geo]
    [] m.t = "WindowState" -> [v EXCEPT ![m.id].minimized = (m.show = "MINIMIZED"),
                                        ![m.id].maximized = (m.show = "MAXIMIZED")]
    [] OTHER -> v

ClientView ==
  [i \in Mapped |-> [channel |-> windows[i].channel, title |-> windows[i].title,
                     geo |-> windows[i].geo, minimized |-> windows[i].minimized,
                     maximized |-> windows[i].maximized]]

AnnouncedView ==
  [i \in DOMAIN streams |->
     [channel |-> streams[i].channel, title |-> streams[i].title, geo |-> streams[i].geo,
      minimized |-> streams[i].show = "MINIMIZED", maximized |-> streams[i].show = "MAXIMIZED"]]

(***************************************************************************)
(* The agent only sends differences, so it must know exactly what the      *)
(* client has: in every state the client's windows with the messages in    *)
(* transit applied are the driver's streams (serve.rs:649-813,             *)
(* model.rs:180-265).                                                      *)
(***************************************************************************)
DiffsAddUp == pc # "done" => FoldLeft(Replay, ClientView, InTransit) = AnnouncedView

(***************************************************************************)
(* The client is never handed a message it has to ignore: a window is      *)
(* opened once, and everything else arrives between its opening and its    *)
(* closing, frames on the channel it was opened with (model.rs:178-179,    *)
(* 211, 221).                                                              *)
(***************************************************************************)
LifecycleOrder ==
  wire # <<>> =>
    LET m == Head(wire)
    IN  CASE m.t = "Pong" -> TRUE
          [] m.t = "WindowOpened" -> m.id \notin Mapped
          [] m.t = "FrameData" -> m.id \in Mapped /\ windows[m.id].channel = m.channel
          [] OTHER -> m.id \in Mapped

(***************************************************************************)
(* No frame reaches the client for a window it shows as minimized:         *)
(* pump_frames stops before the state change can be overtaken              *)
(* (serve.rs:869-871).                                                     *)
(***************************************************************************)
NoFrameWhileMinimized ==
  wire # <<>> /\ Head(wire).t = "FrameData" => ~windows[Head(wire).id].minimized

(***************************************************************************)
(* The client can decode every frame it is sent: a keyframe, or the next   *)
(* picture of the stream it decoded last at the same size.  Restarts,      *)
(* resizes, encoder failures, lagging encoders and a full queue never      *)
(* break the reference chain (serve.rs:872-877, OXPROTO.md:229-232 and     *)
(* 277-279).                                                               *)
(***************************************************************************)
Decodable ==
  wire # <<>> /\ Head(wire).t = "FrameData" =>
    LET au == Head(wire).au
        ref == shown[Head(wire).id]
    IN  \/ au.key
        \/ /\ ref # None
           /\ ref.au.codec = au.codec /\ ref.au.gen = au.gen /\ ref.au.size = au.size
           /\ au.seq = ref.au.seq + 1

(***************************************************************************)
(* Frame ids a window's client sees count up by one from 1, through every  *)
(* restart of the budget: an encoder that has nothing ready or a queue     *)
(* without a slot spends no id (serve.rs:916-922, 968).                    *)
(***************************************************************************)
FrameIdsConsecutive ==
  wire # <<>> /\ Head(wire).t = "FrameData" =>
    LET last == shown[Head(wire).id]
    IN  Head(wire).frame_id = IF last = None THEN 1 ELSE last.frame_id + 1

-----------------------------------------------------------------------------
(***************************************************************************)
(* The client shows what is on the guest's desktop.                        *)
(***************************************************************************)
ShowsWindow(h, id) ==
  LET w == desktop[h]
      r == windows[id]
  IN  /\ r.title = w.title
      /\ r.minimized = (w.show = "MINIMIZED") /\ r.maximized = (w.show = "MAXIMIZED")
      /\ w.show # "MINIMIZED" =>
           /\ r.geo = Geometry(w)
           /\ shown[id] # None /\ shown[id].au.content = w.content

Mirrored ==
  /\ Cardinality(Mapped) = Cardinality(OnScreen)
  /\ \A h \in OnScreen : h \in Tracked /\ WindowId(h) \in Mapped /\ ShowsWindow(h, WindowId(h))

(***************************************************************************)
(* Once the desktop stays as it is, the client comes to show exactly it    *)
(* and keeps doing so, unless the session ends: no change, close, reopen,  *)
(* minimize, resize or capture error is lost, whatever the tick, the       *)
(* writer and the compositor interleave (serve.rs:590-607).                *)
(***************************************************************************)
Converges == <>[](pc = "done") \/ <>[]Mirrored

(***************************************************************************)
(* A client that is gone ends the session (serve.rs:418-421, 580-588).     *)
(***************************************************************************)
LeavingEnds == link = "down" ~> pc = "done"

-----------------------------------------------------------------------------
(***************************************************************************)
(* "The agent keeps at most N unacknowledged frames per window"            *)
(* (OXPROTO.md:398), taken for the frames that have not even left the      *)
(* agent's queue and the transport.                                        *)
(***************************************************************************)
FramesInFlightBounded ==
  \A id \in DOMAIN streams :
    Len(SelectSeq(InTransit, LAMBDA m : m.t = "FrameData" /\ m.id = id)) <= MaxFramesInFlight

(***************************************************************************)
(* "If the change includes HAS_FRAME, the agent must follow it with a      *)
(* fresh WindowGeometry" (OXPROTO.md:351-354): between ticks a visible     *)
(* window's geometry was announced under its current HAS_FRAME.            *)
(***************************************************************************)
FrameFlipFollowed ==
  pc = "select" =>
    \A id \in DOMAIN streams :
      streams[id].show # "MINIMIZED" => streams[id].framed = ("HAS_FRAME" \in streams[id].flags)

(***************************************************************************)
(* "submit above already handed the encoder this frame's content, so       *)
(* nothing is lost by waiting" (serve.rs:919-920): what an encoder has     *)
(* accepted is eventually taken out of it, unless the session ends.        *)
(***************************************************************************)
AcceptedIsPolled ==
  \A h \in Handles : encoder[h].pending # <<>> ~> (encoder[h].pending = <<>> \/ pc = "done")
=============================================================================
