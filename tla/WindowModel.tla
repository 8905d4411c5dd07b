----------------------------- MODULE WindowModel ----------------------------
(***************************************************************************)
(* The client's view of the guest's windows                                *)
(* (crates/oxclient/src/model.rs).  One action per on_* handler; a handler *)
(* that returns no change leaves the model as it is.                       *)
(*                                                                         *)
(* A message is a record; geo stands for (x, y, width, height), style for  *)
(* the RESIZABLE, HAS_FRAME and TOPMOST bits of the flags.  The app id,    *)
(* dpi, owner and icon are stored and never compared, and are left out.    *)
(***************************************************************************)
EXTENDS Integers, Sequences, FiniteSets, SequencesExt

VARIABLES
  windows,      \* window id -> RemoteWindow
  stack         \* window ids, bottom to top

modelVars == <<windows, stack>>

Mapped == DOMAIN windows

ModelInit ==
  /\ windows = [i \in {} |-> 0]
  /\ stack = <<>>

FromOpened(m) ==
  [channel   |-> m.channel,
   title     |-> m.title,
   geo       |-> m.geo,
   minimized |-> "MINIMIZED" \in m.flags,
   maximized |-> "MAXIMIZED" \in m.flags,
   style     |-> m.flags \ {"MINIMIZED", "MAXIMIZED"}]

\* Mutant: a duplicate open is not recognised and stacks the window again.
OnOpenedTwice(m) ==
  /\ windows' = [i \in Mapped \cup {m.id} |-> IF i = m.id THEN FromOpened(m) ELSE windows[i]]
  /\ stack' = Append(stack, m.id)

(***************************************************************************)
(* on_opened: a repeated id is ignored.                                    *)
(***************************************************************************)
OnOpened(m) ==
  IF m.id \in Mapped THEN UNCHANGED modelVars
  ELSE /\ windows' = [i \in Mapped \cup {m.id} |->
                        IF i = m.id THEN FromOpened(m) ELSE windows[i]]
       /\ stack' = Append(stack, m.id)

OnClosed(m) ==
  IF m.id \notin Mapped THEN UNCHANGED modelVars
  ELSE /\ windows' = [i \in Mapped \ {m.id} |-> windows[i]]
       /\ stack' = SelectSeq(stack, LAMBDA s : s # m.id)

OnGeometry(m) ==
  /\ windows' = [i \in Mapped |->
                   IF i = m.id THEN [windows[i] EXCEPT !.geo = m.geo] ELSE windows[i]]
  /\ UNCHANGED stack

OnTitle(m) ==
  /\ windows' = [i \in Mapped |->
                   IF i = m.id THEN [windows[i] EXCEPT !.title = m.title] ELSE windows[i]]
  /\ UNCHANGED stack

(***************************************************************************)
(* on_state reads the show state of the message and not its flags.         *)
(***************************************************************************)
OnState(m) ==
  /\ windows' = [i \in Mapped |->
                   IF i = m.id THEN [windows[i] EXCEPT !.minimized = (m.show = "MINIMIZED"),
                                                       !.maximized = (m.show = "MAXIMIZED")]
                               ELSE windows[i]]
  /\ UNCHANGED stack

(***************************************************************************)
(* on_zorder.  Position and Target count from 0 as the code does.          *)
(***************************************************************************)
Position(id) == (CHOOSE i \in DOMAIN stack : stack[i] = id) - 1

\* Mutant: the shift by the removal is not accounted for.
TargetUnshifted(id, above) ==
  IF above = 0 THEN 0 ELSE Position(above) + 1

Target(id, above) ==
  IF above = 0 THEN 0
  ELSE IF Position(above) > Position(id) THEN Position(above) ELSE Position(above) + 1

\* Mutant: the window is inserted without taking it out first.
RestackTwice(id, above) ==
  stack' = InsertAt(stack, Target(id, above) + 1, id)

Restack(id, above) ==
  LET rest == RemoveAt(stack, Position(id) + 1)
      at   == IF Target(id, above) <= Len(rest) THEN Target(id, above) ELSE Len(rest)
  IN  stack' = InsertAt(rest, at + 1, id)

OnZOrder(m) ==
  /\ IF /\ m.id \in Mapped
        /\ m.above = 0 \/ m.above \in ToSet(stack)
        /\ Target(m.id, m.above) # Position(m.id)
     THEN Restack(m.id, m.above)
     ELSE UNCHANGED stack
  /\ UNCHANGED windows

-----------------------------------------------------------------------------
(***************************************************************************)
(* The stack is always a permutation of the mapped windows: no window is   *)
(* stacked twice, none is missing, none that is gone is left in it         *)
(* (model.rs:208-226, 277-303).                                            *)
(***************************************************************************)
StackIsPermutation ==
  /\ ToSet(stack) = Mapped
  /\ Len(stack) = Cardinality(Mapped)
=============================================================================
