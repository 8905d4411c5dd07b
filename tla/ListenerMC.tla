----------------------------- MODULE ListenerMC -----------------------------
(***************************************************************************)
(* The first messages and the versions the listener is checked with: one   *)
(* of each reason to refuse, and two that are accepted.                    *)
(***************************************************************************)
EXTENDS Listener, TLC

Hello(ok, min, max, codecs) ==
  [type |-> "ClientHello", token_ok |-> ok, version_min |-> min, version_max |-> max,
   codecs |-> codecs]

MCHellos ==
  {Hello(TRUE, 1, 3, <<"H265", "H264", "RAW_BGRA">>),
   Hello(TRUE, 2, 2, <<"RAW_BGRA">>),
   Hello(TRUE, 3, 4, <<"RAW_BGRA">>),
   Hello(FALSE, 1, 2, <<"H264">>),
   Hello(TRUE, 1, 2, <<"H265">>),
   [type |-> "Other"]}

AnyConn == Permutations(Conns)

MCSupported == {"RAW_BGRA", "H264"}
=============================================================================
