------------------------ MODULE WindowRegistryProofs ------------------------
(***************************************************************************)
(* Proofs about the window registry, for every set of handles and every    *)
(* size of the two counters.                                               *)
(***************************************************************************)
EXTENDS WindowRegistry, SequenceTheorems, TLAPS

(***************************************************************************)
(* The inductive invariant.  The properties need each other: a new id is   *)
(* fresh in id_to_handle because every id seen so far is below the         *)
(* counter, and a channel pushed by forget is new to the stack because the *)
(* channels in use and the free ones are disjoint.                         *)
(***************************************************************************)
RegistryInv ==
  /\ RegistryTypeOK
  /\ MapsInverse
  /\ IdsNeverReused
  /\ ChannelsConserved

(***************************************************************************)
(* Facts about the free stack: what a push and a pop do to its contents.   *)
(***************************************************************************)
Elements(s) == {s[i] : i \in DOMAIN s}
Distinct(s) == \A i, j \in DOMAIN s : s[i] = s[j] => i = j

LEMMA PushElements ==
  ASSUME NEW S, NEW s \in Seq(S), NEW c \in S, Distinct(s), c \notin Elements(s)
  PROVE  /\ Append(s, c) \in Seq(S)
         /\ Distinct(Append(s, c))
         /\ Elements(Append(s, c)) = Elements(s) \cup {c}
<1> DEFINE t == Append(s, c)
<1>1. Len(s) \in Nat /\ DOMAIN s = 1 .. Len(s)
  OBVIOUS
<1>2. /\ t \in Seq(S) /\ Len(t) = Len(s) + 1
      /\ \A i \in 1 .. Len(s) : t[i] = s[i]
      /\ t[Len(s) + 1] = c
  BY AppendProperties
<1>3. DOMAIN t = 1 .. Len(s) + 1
  BY <1>2
<1> HIDE DEF t
<1>4. \A i \in DOMAIN t : i \in DOMAIN s \/ i = Len(s) + 1
  BY <1>1, <1>3
<1>5. DOMAIN s \subseteq DOMAIN t /\ Len(s) + 1 \in DOMAIN t
  BY <1>1, <1>3
<1>6. \A i \in DOMAIN s : t[i] = s[i]
  BY <1>1, <1>2
<1>7. \A i \in DOMAIN s : s[i] # c
  BY DEF Elements
<1>8. Distinct(t)
  BY <1>2, <1>4, <1>6, <1>7 DEF Distinct
<1>9. Elements(t) = Elements(s) \cup {c}
  BY <1>2, <1>4, <1>5, <1>6 DEF Elements
<1> QED  BY <1>2, <1>8, <1>9 DEF t

LEMMA PopElements ==
  ASSUME NEW S, NEW s \in Seq(S), s # <<>>, Distinct(s)
  PROVE  LET t == SubSeq(s, 1, Len(s) - 1)
             c == s[Len(s)]
         IN  /\ t \in Seq(S) /\ c \in S
             /\ Distinct(t)
             /\ c \notin Elements(t)
             /\ Elements(s) = Elements(t) \cup {c}
<1> DEFINE t == SubSeq(s, 1, Len(s) - 1)
           c == s[Len(s)]
<1>1. Len(s) \in Nat \ {0} /\ DOMAIN s = 1 .. Len(s)
  OBVIOUS
<1>2. 1 \in Int /\ Len(s) - 1 \in Int /\ \A i \in 1 .. Len(s) - 1 : s[i] \in S
  BY <1>1
<1>3. /\ t \in Seq(S)
      /\ Len(t) = IF 1 <= Len(s) - 1 THEN (Len(s) - 1) - 1 + 1 ELSE 0
      /\ \A i \in 1 .. (Len(s) - 1) - 1 + 1 : t[i] = s[1 + i - 1]
  BY <1>2, SubSeqProperties
<1>4. c \in S
  BY <1>1
<1> HIDE DEF t
<1>5. Len(t) = Len(s) - 1
  <2>1. Len(t) = IF 1 <= Len(s) - 1 THEN (Len(s) - 1) - 1 + 1 ELSE 0
    BY <1>3
  <2>2. CASE 1 <= Len(s) - 1
    BY <1>1, <2>1, <2>2
  <2>3. CASE ~(1 <= Len(s) - 1)
    BY <1>1, <2>1, <2>3
  <2> QED  BY <2>2, <2>3
<1>6. DOMAIN t = 1 .. Len(s) - 1
  BY <1>3, <1>5
<1>7. \A i \in DOMAIN t : i \in DOMAIN s /\ i # Len(s) /\ t[i] = s[i]
  <2> TAKE i \in DOMAIN t
  <2>1. i \in 1 .. (Len(s) - 1) - 1 + 1 /\ 1 + i - 1 = i /\ i \in DOMAIN s /\ i # Len(s)
    BY <1>1, <1>6
  <2> QED  BY <1>3, <2>1
<1>8. \A i \in DOMAIN s : i \in DOMAIN t \/ i = Len(s)
  BY <1>1, <1>6
<1>9. Len(s) \in DOMAIN s
  BY <1>1
<1> HIDE DEF c
<1>10. c = s[Len(s)]
  BY DEF c
<1>11. Distinct(t) /\ c \notin Elements(t)
  BY <1>7, <1>9, <1>10 DEF Distinct, Elements
<1>12. Elements(s) = Elements(t) \cup {c}
  BY <1>7, <1>8, <1>9, <1>10 DEF Elements
<1> QED  BY <1>3, <1>4, <1>11, <1>12 DEF t, c

(***************************************************************************)
(* track of a new handle keeps the invariant.                              *)
(***************************************************************************)
LEMMA TrackNewPreserves ==
  ASSUME RegistryInv, NEW h \in Handles, TrackNew(h)
  PROVE  RegistryInv'
<1> DEFINE id == next_window_id
           ch == ChannelForNew
           C  == VIDEO_BASE .. MaxChannel
<1> USE RegistryAssumption
<1>1. /\ RegistryTypeOK /\ MapsInverse /\ IdsNeverReused /\ ChannelsConserved
      /\ free_channels \in Seq(C) /\ Distinct(free_channels)
      /\ FreeChannels = Elements(free_channels)
  BY DEF RegistryInv, RegistryTypeOK, ChannelsConserved, Distinct, Elements, FreeChannels
<1>2. /\ h \notin Tracked
      /\ Tracked' = Tracked \cup {h}
      /\ handle_to_window'[h] = [window_id |-> id, video_channel |-> ch]
      /\ \A k \in Tracked : handle_to_window'[k] = handle_to_window[k]
      /\ handle_to_window' = [k \in Tracked' |-> handle_to_window'[k]]
  BY DEF TrackNew, Tracked
<1>3. /\ LiveIds' = LiveIds \cup {id}
      /\ id_to_handle'[id] = h
      /\ \A i \in LiveIds : i # id => id_to_handle'[i] = id_to_handle[i]
      /\ id_to_handle' = [i \in LiveIds' |-> id_to_handle'[i]]
  BY DEF TrackNew, LiveIds
<1>4. /\ id \in 1 .. MaxWindowId /\ id + 1 \in 1 .. MaxWindowId
      /\ next_window_id' = id + 1
      /\ retired' = retired /\ removing' = removing
  BY <1>1 DEF TrackNew, RegistryTypeOK
<1>5. id \notin LiveIds /\ id \notin retired
  BY <1>1, <1>4 DEF IdsNeverReused
<1>6. /\ ch \in C /\ ch \notin UsedChannels
      /\ next_channel' \in C
      /\ free_channels' \in Seq(C) /\ Distinct(free_channels')
      /\ ch \notin Elements(free_channels')
      /\ UsedChannels \cap Elements(free_channels') = {}
      /\ UsedChannels \cup {ch} \cup Elements(free_channels') = VIDEO_BASE .. next_channel' - 1
  <2>1. CASE free_channels # <<>>
    <3>1. /\ free_channels' = SubSeq(free_channels, 1, Len(free_channels) - 1)
          /\ next_channel' = next_channel
          /\ ch = free_channels[Len(free_channels)]
      BY <2>1 DEF TrackNew, ChannelForNew
    <3>2. /\ free_channels' \in Seq(C) /\ ch \in C /\ Distinct(free_channels')
          /\ ch \notin Elements(free_channels')
          /\ FreeChannels = Elements(free_channels') \cup {ch}
      BY <1>1, <2>1, <3>1, PopElements
    <3>3. /\ next_channel \in C
          /\ UsedChannels \cap FreeChannels = {}
          /\ UsedChannels \cup FreeChannels = VIDEO_BASE .. next_channel - 1
      BY <1>1 DEF RegistryTypeOK, ChannelsConserved
    <3> QED  BY <3>1, <3>2, <3>3
  <2>2. CASE free_channels = <<>>
    <3>1. /\ free_channels' = free_channels /\ next_channel' = next_channel + 1
          /\ ch = next_channel /\ next_channel < MaxChannel
      BY <2>2 DEF TrackNew, ChannelForNew
    <3>2. FreeChannels = {}
      BY <2>2 DEF FreeChannels
    <3>3. /\ next_channel \in C
          /\ UsedChannels \cup FreeChannels = VIDEO_BASE .. next_channel - 1
      BY <1>1 DEF RegistryTypeOK, ChannelsConserved
    <3>4. /\ next_channel + 1 \in C /\ next_channel \notin VIDEO_BASE .. next_channel - 1
          /\ (VIDEO_BASE .. next_channel - 1) \cup {next_channel} = VIDEO_BASE .. (next_channel + 1) - 1
      BY <3>1, <3>3 DEF VIDEO_BASE
    <3> QED  BY <1>1, <3>1, <3>2, <3>3, <3>4
  <2> QED  BY <2>1, <2>2
<1> HIDE DEF id, ch, C
<1>7. /\ UsedChannels' = UsedChannels \cup {ch}
      /\ FreeChannels' = Elements(free_channels')
  BY <1>2 DEF UsedChannels, VideoChannel, FreeChannels, Elements
<1>8. RegistryTypeOK'
  <2>1. \A k \in Tracked' : handle_to_window'[k] \in
          [window_id : 1 .. MaxWindowId, video_channel : C]
    BY <1>1, <1>2, <1>4, <1>6 DEF RegistryTypeOK, C
  <2>2. id_to_handle' \in [LiveIds' -> Handles]
    <3>1. \A i \in LiveIds' : id_to_handle'[i] \in Handles
      BY <1>1, <1>3 DEF RegistryTypeOK
    <3> QED  BY <1>3, <3>1
  <2>3. /\ Tracked' \subseteq Handles /\ LiveIds' \subseteq 1 .. MaxWindowId
        /\ removing' \subseteq Tracked' /\ retired' \subseteq 1 .. MaxWindowId
    BY <1>1, <1>2, <1>3, <1>4 DEF RegistryTypeOK
  <2> QED  BY <1>2, <1>4, <1>6, <2>1, <2>2, <2>3 DEF RegistryTypeOK, C
<1>9. MapsInverse'
  <2>1. \A k \in Tracked' : WindowId(k)' \in LiveIds' /\ id_to_handle'[WindowId(k)'] = k
    BY <1>1, <1>2, <1>3, <1>5 DEF MapsInverse, WindowId
  <2>2. \A i \in LiveIds' : id_to_handle'[i] \in Tracked'
                            /\ handle_to_window'[id_to_handle'[i]].window_id = i
    BY <1>1, <1>2, <1>3, <1>5 DEF MapsInverse, WindowId
  <2> QED  BY <2>1, <2>2 DEF MapsInverse, WindowId
<1>10. IdsNeverReused'
  <2>1. \A i \in LiveIds \cup retired : i < id /\ i \in Int
    BY <1>1 DEF IdsNeverReused, RegistryTypeOK, id
  <2>2. id \in Int /\ \A i \in Int : i < id => i < id + 1
    BY <1>4
  <2> QED  BY <1>1, <1>3, <1>4, <1>5, <2>1, <2>2 DEF IdsNeverReused
<1>11. ChannelsConserved'
  <2>1. \A k \in Tracked : handle_to_window[k].video_channel \in UsedChannels
    BY DEF UsedChannels, VideoChannel
  <2>2. \A k, l \in Tracked' :
          handle_to_window'[k].video_channel = handle_to_window'[l].video_channel => k = l
    BY <1>1, <1>2, <1>6, <2>1 DEF ChannelsConserved, VideoChannel
  <2> QED  BY <1>6, <1>7, <2>2 DEF ChannelsConserved, VideoChannel, Distinct
<1> QED  BY <1>8, <1>9, <1>10, <1>11 DEF RegistryInv

(***************************************************************************)
(* forget keeps the invariant, alone or as an iteration of retain_live.    *)
(***************************************************************************)
LEMMA ForgetPreserves ==
  ASSUME RegistryInv, NEW h \in Handles, ForgetEntry(h), removing' \subseteq removing \ {h}
  PROVE  RegistryInv'
<1> DEFINE id == WindowId(h)
           ch == VideoChannel(h)
           C  == VIDEO_BASE .. MaxChannel
<1>1. /\ RegistryTypeOK /\ MapsInverse /\ IdsNeverReused /\ ChannelsConserved
      /\ free_channels \in Seq(C) /\ Distinct(free_channels)
      /\ FreeChannels = Elements(free_channels)
  BY DEF RegistryInv, RegistryTypeOK, ChannelsConserved, Distinct, Elements, FreeChannels
<1>2. /\ h \in Tracked
      /\ Tracked' = Tracked \ {h}
      /\ \A k \in Tracked' : handle_to_window'[k] = handle_to_window[k]
      /\ handle_to_window' = [k \in Tracked' |-> handle_to_window'[k]]
  BY DEF ForgetEntry, Tracked
<1>3. /\ LiveIds' = LiveIds \ {id}
      /\ \A i \in LiveIds' : id_to_handle'[i] = id_to_handle[i]
      /\ id_to_handle' = [i \in LiveIds' |-> id_to_handle'[i]]
  BY DEF ForgetEntry, LiveIds
<1>4. /\ next_window_id' = next_window_id /\ next_channel' = next_channel
      /\ retired' = retired \cup {id}
      /\ free_channels' = Append(free_channels, ch)
  BY DEF ForgetEntry
<1>5. id \in LiveIds /\ id_to_handle[id] = h /\ id \in 1 .. MaxWindowId
  BY <1>1, <1>2 DEF MapsInverse, RegistryTypeOK, WindowId
<1>6. ch \in C /\ ch \in UsedChannels /\ ch \notin Elements(free_channels)
  BY <1>1, <1>2 DEF RegistryTypeOK, UsedChannels, VideoChannel, ChannelsConserved
<1>7. /\ free_channels' \in Seq(C) /\ Distinct(free_channels')
      /\ FreeChannels' = FreeChannels \cup {ch}
  <2>1. FreeChannels' = Elements(free_channels')
    BY DEF FreeChannels, Elements
  <2> HIDE DEF C, ch
  <2> QED  BY <1>1, <1>4, <1>6, <2>1, PushElements
<1>8. UsedChannels' = UsedChannels \ {ch}
  <2>1. UsedChannels' = {handle_to_window[k].video_channel : k \in Tracked \ {h}}
    BY <1>2 DEF UsedChannels, VideoChannel
  <2>2. \A k \in Tracked : handle_to_window[k].video_channel = ch => k = h
    BY <1>1, <1>2 DEF ChannelsConserved, VideoChannel
  <2> QED  BY <1>2, <2>1, <2>2 DEF UsedChannels, VideoChannel
<1> HIDE DEF id, ch, C
<1>9. RegistryTypeOK'
  <2>1. \A k \in Tracked' : handle_to_window'[k] \in
          [window_id : 1 .. MaxWindowId, video_channel : C]
    BY <1>1, <1>2 DEF RegistryTypeOK, C
  <2>2. id_to_handle' \in [LiveIds' -> Handles]
    <3>1. \A i \in LiveIds' : id_to_handle'[i] \in Handles
      BY <1>1, <1>3 DEF RegistryTypeOK
    <3> QED  BY <1>3, <3>1
  <2>3. /\ Tracked' \subseteq Handles /\ LiveIds' \subseteq 1 .. MaxWindowId
        /\ removing' \subseteq Tracked' /\ retired' \subseteq 1 .. MaxWindowId
    BY <1>1, <1>2, <1>3, <1>4, <1>5 DEF RegistryTypeOK
  <2>4. next_window_id' \in 1 .. MaxWindowId /\ next_channel' \in C
    BY <1>1, <1>4 DEF RegistryTypeOK, C
  <2> QED  BY <1>2, <1>7, <2>1, <2>2, <2>3, <2>4 DEF RegistryTypeOK, C
<1>10. MapsInverse'
  <2>1. \A k \in Tracked' : /\ handle_to_window'[k].window_id \in LiveIds'
                            /\ id_to_handle'[handle_to_window'[k].window_id] = k
    BY <1>1, <1>2, <1>3, <1>5 DEF MapsInverse, WindowId
  <2>2. \A i \in LiveIds' : id_to_handle'[i] \in Tracked'
                            /\ handle_to_window'[id_to_handle'[i]].window_id = i
    BY <1>1, <1>2, <1>3, <1>5 DEF MapsInverse, WindowId, id
  <2> QED  BY <2>1, <2>2 DEF MapsInverse, WindowId
<1>11. IdsNeverReused'
  BY <1>1, <1>3, <1>4, <1>5 DEF IdsNeverReused
<1>12. ChannelsConserved'
  <2>1. \A k, l \in Tracked' :
          handle_to_window'[k].video_channel = handle_to_window'[l].video_channel => k = l
    BY <1>1, <1>2 DEF ChannelsConserved, VideoChannel
  <2>2. /\ UsedChannels' \cap FreeChannels' = {}
        /\ UsedChannels' \cup FreeChannels' = VIDEO_BASE .. next_channel' - 1
    BY <1>1, <1>4, <1>6, <1>7, <1>8 DEF ChannelsConserved
  <2> QED  BY <1>7, <2>1, <2>2 DEF ChannelsConserved, VideoChannel, Distinct
<1> QED  BY <1>9, <1>10, <1>11, <1>12 DEF RegistryInv

(***************************************************************************)
(* The frame of a step that leaves the maps, counters and stack alone.     *)
(***************************************************************************)
LEMMA UntouchedPreserves ==
  ASSUME RegistryInv, removing' \subseteq Tracked,
         UNCHANGED <<handle_to_window, id_to_handle, next_window_id,
                     free_channels, next_channel, retired>>
  PROVE  RegistryInv'
<1>1. RegistryTypeOK'
  BY DEF RegistryInv, RegistryTypeOK, Tracked, LiveIds
<1>2. MapsInverse' /\ IdsNeverReused' /\ ChannelsConserved'
  BY DEF RegistryInv, MapsInverse, IdsNeverReused, ChannelsConserved, Tracked, LiveIds,
     WindowId, VideoChannel, UsedChannels, FreeChannels
<1> QED  BY <1>1, <1>2 DEF RegistryInv

LEMMA RegistryInitInv == RegistryInit => RegistryInv
<1> SUFFICES ASSUME RegistryInit PROVE RegistryInv
  OBVIOUS
<1>1. Tracked = {} /\ LiveIds = {} /\ FreeChannels = {} /\ UsedChannels = {}
  BY DEF RegistryInit, Tracked, LiveIds, FreeChannels, UsedChannels
<1>2. RegistryTypeOK
  <2>1. handle_to_window = [h \in Tracked |-> handle_to_window[h]]
    BY DEF RegistryInit, Tracked
  <2>2. id_to_handle \in [LiveIds -> Handles]
    BY DEF RegistryInit, LiveIds
  <2>3. free_channels \in Seq(VIDEO_BASE .. MaxChannel)
    BY DEF RegistryInit
  <2>4. next_window_id \in 1 .. MaxWindowId /\ next_channel \in VIDEO_BASE .. MaxChannel
    BY RegistryAssumption DEF RegistryInit, VIDEO_BASE
  <2> QED  BY <1>1, <2>1, <2>2, <2>3, <2>4 DEF RegistryInit, RegistryTypeOK
<1>3. MapsInverse /\ IdsNeverReused
  BY <1>1 DEF RegistryInit, MapsInverse, IdsNeverReused
<1>4. ChannelsConserved
  BY <1>1 DEF RegistryInit, ChannelsConserved, VIDEO_BASE
<1> QED  BY <1>2, <1>3, <1>4 DEF RegistryInv

LEMMA RegistryStep ==
  ASSUME RegistryInv, [RegistryNext]_registryVars
  PROVE  RegistryInv'
<1>1. RegistryInv /\ removing \subseteq Tracked
  BY DEF RegistryInv, RegistryTypeOK
<1>2. ASSUME NEW h \in Handles, Track(h) PROVE RegistryInv'
  <2>1. CASE TrackNew(h)
    BY <2>1, TrackNewPreserves
  <2>2. CASE TrackKnown(h)
    BY <1>1, <2>2, UntouchedPreserves DEF TrackKnown, registryVars
  <2> QED  BY <1>2, <2>1, <2>2 DEF Track
<1>3. ASSUME NEW h \in Handles, Forget(h) PROVE RegistryInv'
  <2>1. ForgetEntry(h) /\ removing' \subseteq removing \ {h}
    BY <1>3 DEF Forget
  <2> QED  BY <2>1, ForgetPreserves
<1>4. ASSUME NEW live \in SUBSET Handles, RetainLive(live) PROVE RegistryInv'
  BY <1>4, UntouchedPreserves DEF RetainLive
<1>5. ASSUME NEW h \in Handles, ForgetNext(h) PROVE RegistryInv'
  BY <1>5, ForgetPreserves DEF ForgetNext
<1>6. CASE UNCHANGED registryVars
  BY <1>1, <1>6, UntouchedPreserves DEF registryVars
<1> QED  BY <1>2, <1>3, <1>4, <1>5, <1>6 DEF RegistryNext

(***************************************************************************)
(* Every sequence of track, forget and retain_live keeps the registry      *)
(* consistent (registry.rs:39-116).                                        *)
(***************************************************************************)
THEOREM RegistryInvariant == RegistrySpec => []RegistryInv
BY RegistryInitInv, RegistryStep, PTL DEF RegistrySpec

(***************************************************************************)
(* A window id is never given out twice in a session (registry.rs:9).      *)
(***************************************************************************)
THEOREM WindowIdsNeverReused == RegistrySpec => []IdsNeverReused
<1>1. RegistryInv => IdsNeverReused
  BY DEF RegistryInv
<1> QED  BY <1>1, RegistryInvariant, PTL

(***************************************************************************)
(* No two windows share a video channel and no channel is lost             *)
(* (registry.rs:50-59, 83-88).                                             *)
(***************************************************************************)
THEOREM ChannelsAreConserved == RegistrySpec => []ChannelsConserved
<1>1. RegistryInv => ChannelsConserved
  BY DEF RegistryInv
<1> QED  BY <1>1, RegistryInvariant, PTL

(***************************************************************************)
(* Both maps always describe the same windows (registry.rs:71-79).         *)
(***************************************************************************)
THEOREM RegistryMapsInverse == RegistrySpec => []MapsInverse
<1>1. RegistryInv => MapsInverse
  BY DEF RegistryInv
<1> QED  BY <1>1, RegistryInvariant, PTL
=============================================================================
