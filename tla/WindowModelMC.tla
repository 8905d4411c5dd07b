---------------------------- MODULE WindowModelMC ---------------------------
(***************************************************************************)
(* The client's window model driven by every sequence of well-formed       *)
(* events, in any order and for any window, known or not.                  *)
(***************************************************************************)
EXTENDS WindowModel

CONSTANTS
  Ids,        \* window ids, none of them 0
  Titles,
  Geos,
  Flags,      \* bits a WindowOpened may carry
  Shows       \* show states a WindowState may carry

ASSUME ModelAssumption == Ids \subseteq Nat \ {0}

ModelNext ==
  \/ \E id \in Ids, title \in Titles, geo \in Geos, flags \in SUBSET Flags :
       OnOpened([id |-> id, channel |-> id, title |-> title, geo |-> geo, flags |-> flags])
  \/ \E id \in Ids : OnClosed([id |-> id])
  \/ \E id \in Ids, geo \in Geos : OnGeometry([id |-> id, geo |-> geo])
  \/ \E id \in Ids, title \in Titles : OnTitle([id |-> id, title |-> title])
  \/ \E id \in Ids, show \in Shows : OnState([id |-> id, show |-> show])
  \/ \E id \in Ids, above \in Ids \cup {0} : OnZOrder([id |-> id, above |-> above])

ModelSpec == ModelInit /\ [][ModelNext]_modelVars

(***************************************************************************)
(* A z-order event puts the window directly above its reference, 0 meaning *)
(* the bottom, and keeps the relative order of all the other windows       *)
(* ("Restack window_id to sit directly above above_window_id (0 =          *)
(* bottom)", model.rs:276).                                                *)
(***************************************************************************)
RestackPlaces ==
  [][\A id \in Ids, above \in Ids \cup {0} :
       OnZOrder([id |-> id, above |-> above]) /\ id \in Mapped /\ id # above =>
         LET others == SelectSeq(stack, LAMBDA s : s # id)
         IN  /\ SelectSeq(stack', LAMBDA s : s # id) = others
             /\ above \in Mapped =>
                  \E i \in 1 .. Len(stack') - 1 : stack'[i] = above /\ stack'[i + 1] = id
             /\ above = 0 => Head(stack') = id
             /\ above \notin Mapped \cup {0} => stack' = stack]_modelVars
=============================================================================
