--------------------------- MODULE WindowRegistry ---------------------------
(***************************************************************************)
(* The agent's window registry (crates/oxagent/src/registry.rs): it gives  *)
(* every native window handle a protocol window id, never reused within a  *)
(* session, and a video channel, reused once its window is gone.           *)
(*                                                                         *)
(* One action per public operation that changes the registry.  retain_live *)
(* is a loop over forget; it is split into RetainLive, which computes the  *)
(* handles to remove, and one ForgetNext per iteration.                    *)
(***************************************************************************)
EXTENDS Integers, Sequences, FiniteSets

CONSTANTS
  Handles,        \* native window handles (HWND values, isize)
  MaxWindowId,    \* largest value of next_window_id (u32::MAX in the code)
  MaxChannel      \* largest value of next_channel (u16::MAX in the code)

VIDEO_BASE == 16

ASSUME RegistryAssumption ==
  /\ MaxWindowId \in Nat \ {0}
  /\ MaxChannel \in Nat
  /\ VIDEO_BASE <= MaxChannel

VARIABLES
  handle_to_window,   \* tracked handle -> [window_id, video_channel]
  id_to_handle,       \* window id -> tracked handle
  next_window_id,
  free_channels,      \* LIFO stack, top at the end
  next_channel,
  removing,           \* handles retain_live has still to forget
  retired             \* history: every window id ever forgotten

registryVars == <<handle_to_window, id_to_handle, next_window_id,
                  free_channels, next_channel, removing, retired>>

Tracked == DOMAIN handle_to_window
LiveIds == DOMAIN id_to_handle
WindowId(h) == handle_to_window[h].window_id
VideoChannel(h) == handle_to_window[h].video_channel

FreeChannels == {free_channels[i] : i \in DOMAIN free_channels}
UsedChannels == {VideoChannel(h) : h \in Tracked}

RegistryInit ==
  /\ handle_to_window = [h \in {} |-> 0]
  /\ id_to_handle = [i \in {} |-> 0]
  /\ next_window_id = 1
  /\ free_channels = <<>>
  /\ next_channel = VIDEO_BASE
  /\ removing = {}
  /\ retired = {}

(***************************************************************************)
(* The channel track hands out: the top of the free stack, or a new one.   *)
(***************************************************************************)
ChannelForNew ==
  IF free_channels # <<>> THEN free_channels[Len(free_channels)] ELSE next_channel

(***************************************************************************)
(* track for a handle that is not tracked yet.  Both checked_add calls     *)
(* panic when the counter is at its maximum, before anything is inserted.  *)
(***************************************************************************)
TrackNew(h) ==
  /\ h \notin Tracked
  /\ next_window_id < MaxWindowId
  /\ free_channels = <<>> => next_channel < MaxChannel
  /\ handle_to_window' = [k \in Tracked \cup {h} |->
       IF k = h THEN [window_id |-> next_window_id, video_channel |-> ChannelForNew]
                ELSE handle_to_window[k]]
  /\ id_to_handle' = [i \in LiveIds \cup {next_window_id} |->
       IF i = next_window_id THEN h ELSE id_to_handle[i]]
  /\ next_window_id' = next_window_id + 1
  /\ IF free_channels # <<>>
       THEN /\ free_channels' = SubSeq(free_channels, 1, Len(free_channels) - 1)
            /\ UNCHANGED next_channel
       ELSE /\ next_channel' = next_channel + 1
            /\ UNCHANGED free_channels
  /\ UNCHANGED <<removing, retired>>

\* Mutant: track gives a tracked handle a fresh channel.
TrackKnownReassigns(h) ==
  /\ h \in Tracked
  /\ next_channel < MaxChannel
  /\ handle_to_window' = [handle_to_window EXCEPT ![h].video_channel = next_channel]
  /\ next_channel' = next_channel + 1
  /\ UNCHANGED <<id_to_handle, next_window_id, free_channels, removing, retired>>

(***************************************************************************)
(* track for a handle that is tracked: its id and channel are returned.    *)
(***************************************************************************)
TrackKnown(h) ==
  /\ h \in Tracked
  /\ UNCHANGED registryVars

\* Mutant: forget leaves the reverse map alone.
ForgetEntryKeepsId(h) ==
  /\ h \in Tracked
  /\ handle_to_window' = [k \in Tracked \ {h} |-> handle_to_window[k]]
  /\ free_channels' = Append(free_channels, VideoChannel(h))
  /\ retired' = retired \cup {WindowId(h)}
  /\ UNCHANGED <<id_to_handle, next_window_id, next_channel>>

\* Mutant: forget hands the id of the newest window back to the counter.
ForgetEntryRewindsId(h) ==
  /\ h \in Tracked
  /\ handle_to_window' = [k \in Tracked \ {h} |-> handle_to_window[k]]
  /\ id_to_handle' = [i \in LiveIds \ {WindowId(h)} |-> id_to_handle[i]]
  /\ free_channels' = Append(free_channels, VideoChannel(h))
  /\ retired' = retired \cup {WindowId(h)}
  /\ next_window_id' = IF WindowId(h) = next_window_id - 1 THEN WindowId(h) ELSE next_window_id
  /\ UNCHANGED next_channel

\* Mutant: forget does not free the channel.
ForgetEntryLeaksChannel(h) ==
  /\ h \in Tracked
  /\ handle_to_window' = [k \in Tracked \ {h} |-> handle_to_window[k]]
  /\ id_to_handle' = [i \in LiveIds \ {WindowId(h)} |-> id_to_handle[i]]
  /\ retired' = retired \cup {WindowId(h)}
  /\ UNCHANGED <<free_channels, next_window_id, next_channel>>

(***************************************************************************)
(* forget: both maps lose the window and its channel becomes free.         *)
(***************************************************************************)
ForgetEntry(h) ==
  /\ h \in Tracked
  /\ handle_to_window' = [k \in Tracked \ {h} |-> handle_to_window[k]]
  /\ id_to_handle' = [i \in LiveIds \ {WindowId(h)} |-> id_to_handle[i]]
  /\ free_channels' = Append(free_channels, VideoChannel(h))
  /\ retired' = retired \cup {WindowId(h)}
  /\ UNCHANGED <<next_window_id, next_channel>>

Track(h) ==
  /\ removing = {}
  /\ TrackNew(h) \/ TrackKnown(h)

Forget(h) ==
  /\ removing = {}
  /\ ForgetEntry(h)
  /\ UNCHANGED removing

\* Mutant: retain_live removes every handle that is not live, tracked or not.
RetainLiveUntracked(live) ==
  /\ removing = {}
  /\ removing' = Handles \ live
  /\ UNCHANGED <<handle_to_window, id_to_handle, next_window_id,
                 free_channels, next_channel, retired>>

(***************************************************************************)
(* retain_live: every tracked handle that is not live is to be removed...  *)
(***************************************************************************)
RetainLive(live) ==
  /\ removing = {}
  /\ removing' = Tracked \ live
  /\ UNCHANGED <<handle_to_window, id_to_handle, next_window_id,
                 free_channels, next_channel, retired>>

(***************************************************************************)
(* ... in ascending order of window id.                                    *)
(***************************************************************************)
NextToRemove(h) ==
  /\ h \in removing
  /\ \A k \in removing : WindowId(h) <= WindowId(k)

ForgetNext(h) ==
  /\ NextToRemove(h)
  /\ ForgetEntry(h)
  /\ removing' = removing \ {h}

RegistryNext ==
  \/ \E h \in Handles : Track(h)
  \/ \E h \in Handles : Forget(h)
  \/ \E live \in SUBSET Handles : RetainLive(live)
  \/ \E h \in Handles : ForgetNext(h)

RegistrySpec == RegistryInit /\ [][RegistryNext]_registryVars

-----------------------------------------------------------------------------
(***************************************************************************)
(* Type invariant of the registry's fields.                                *)
(***************************************************************************)
RegistryTypeOK ==
  /\ Tracked \subseteq Handles
  /\ \A h \in Tracked : handle_to_window[h] \in
       [window_id : 1 .. MaxWindowId, video_channel : VIDEO_BASE .. MaxChannel]
  /\ handle_to_window = [h \in Tracked |-> handle_to_window[h]]
  /\ id_to_handle \in [LiveIds -> Handles]
  /\ LiveIds \subseteq 1 .. MaxWindowId
  /\ next_window_id \in 1 .. MaxWindowId
  /\ free_channels \in Seq(VIDEO_BASE .. MaxChannel)
  /\ next_channel \in VIDEO_BASE .. MaxChannel
  /\ removing \subseteq Tracked
  /\ retired \subseteq 1 .. MaxWindowId

(***************************************************************************)
(* The two maps of the registry are inverse of each other after any        *)
(* sequence of track, forget and retain_live: by_id finds exactly the      *)
(* windows get finds (registry.rs:71-79).                                  *)
(***************************************************************************)
MapsInverse ==
  /\ \A h \in Tracked : WindowId(h) \in LiveIds /\ id_to_handle[WindowId(h)] = h
  /\ \A i \in LiveIds : id_to_handle[i] \in Tracked /\ WindowId(id_to_handle[i]) = i

(***************************************************************************)
(* A window id that was retired never names a window again, whatever       *)
(* happens to the handle it belonged to ("unique for the lifetime of the   *)
(* session", registry.rs:9; OXPROTO.md section 6).                         *)
(***************************************************************************)
IdsNeverReused ==
  /\ LiveIds \cap retired = {}
  /\ \A i \in LiveIds \cup retired : i < next_window_id

(***************************************************************************)
(* Channel allocation loses nothing and gives nothing out twice: two       *)
(* windows never share a video channel, no channel in use is on the free   *)
(* stack, none is on it twice, and every channel ever opened is one of the *)
(* two (registry.rs:50-59, 83-88).                                         *)
(***************************************************************************)
ChannelsConserved ==
  /\ \A h, k \in Tracked : VideoChannel(h) = VideoChannel(k) => h = k
  /\ \A i, j \in DOMAIN free_channels : free_channels[i] = free_channels[j] => i = j
  /\ UsedChannels \cap FreeChannels = {}
  /\ UsedChannels \cup FreeChannels = VIDEO_BASE .. next_channel - 1

(***************************************************************************)
(* An already tracked handle keeps its id and its channel for as long as   *)
(* it stays tracked, whatever happens to other windows (registry.rs:38).   *)
(***************************************************************************)
TrackedStable ==
  [][\A h \in Tracked \cap Tracked' : handle_to_window'[h] = handle_to_window[h]]_registryVars
=============================================================================
