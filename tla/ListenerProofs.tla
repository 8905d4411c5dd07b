--------------------------- MODULE ListenerProofs ---------------------------
(***************************************************************************)
(* Proofs about the listener, for any number of connections, any limit on  *)
(* concurrent handshakes, any first messages and any clients.              *)
(***************************************************************************)
EXTENDS Listener, FiniteSetTheorems, TLAPS

States == {"none", "backlog", "done"} \cup Holding

In(t, S) == {c \in Conns : t[c] \in S}

(***************************************************************************)
(* The inductive invariant: the permits of both semaphores are conserved.  *)
(* That at most one connection is in a session follows from the count.     *)
(* Connect looks at the client only; that the agent has no task, and so no *)
(* permit, for a connection not yet made is a conjunct of its own.         *)
(***************************************************************************)
ClientStates == {"idle", "tls", "waiting", "connected", "refused", "gone"}

IdleHasNoTask ==
  /\ client \in [Conns -> ClientStates]
  /\ \A c \in Conns : client[c] = "idle" => task[c] = "none"

PermitInv ==
  /\ task \in [Conns -> States]
  /\ pre_auth_slots \in Nat /\ session_slot \in Nat
  /\ PermitsConserved
  /\ IdleHasNoTask

(***************************************************************************)
(* Counting the tasks in a set of states when one task moves.              *)
(***************************************************************************)
LEMMA CountIsFinite ==
  ASSUME NEW t, NEW S
  PROVE  IsFiniteSet(In(t, S)) /\ Cardinality(In(t, S)) \in Nat
<1>1. In(t, S) \subseteq Conns
  BY DEF In
<1>2. IsFiniteSet(Conns)
  BY ListenerAssumption
<1> QED  BY <1>1, <1>2, FS_Subset, FS_CardinalityType

LEMMA CountEnter ==
  ASSUME NEW t \in [Conns -> States], NEW S, NEW c \in Conns, NEW s,
         t[c] \notin S, s \in S
  PROVE  Cardinality(In([t EXCEPT ![c] = s], S)) = Cardinality(In(t, S)) + 1
<1>1. In([t EXCEPT ![c] = s], S) = In(t, S) \cup {c}
  BY DEF In
<1>2. c \notin In(t, S)
  BY DEF In
<1> QED  BY <1>1, <1>2, CountIsFinite, FS_AddElement

LEMMA CountLeave ==
  ASSUME NEW t \in [Conns -> States], NEW S, NEW c \in Conns, NEW s,
         t[c] \in S, s \notin S
  PROVE  Cardinality(In([t EXCEPT ![c] = s], S)) = Cardinality(In(t, S)) - 1
<1>1. In([t EXCEPT ![c] = s], S) = In(t, S) \ {c}
  BY DEF In
<1>2. c \in In(t, S)
  BY DEF In
<1> QED  BY <1>1, <1>2, CountIsFinite, FS_RemoveElement

LEMMA CountStay ==
  ASSUME NEW t \in [Conns -> States], NEW S, NEW c \in Conns, NEW s, t[c] \in S <=> s \in S
  PROVE  In([t EXCEPT ![c] = s], S) = In(t, S)
BY DEF In

(***************************************************************************)
(* What a step does to one task and to the permits: it enters with a       *)
(* permit, goes on, leaves and returns it, takes the session slot, or ends *)
(* a session and returns both.                                             *)
(***************************************************************************)
Enters(c) ==
  /\ task[c] = "backlog" /\ task' = [task EXCEPT ![c] = "tls"]
  /\ pre_auth_slots > 0 /\ pre_auth_slots' = pre_auth_slots - 1
  /\ UNCHANGED session_slot

GoesOn(c, s) ==
  /\ task' = [task EXCEPT ![c] = s]
  /\ task[c] \in Holding <=> s \in Holding
  /\ task[c] # "session" /\ s # "session"
  /\ UNCHANGED <<pre_auth_slots, session_slot>>

Leaves(c) ==
  /\ task[c] \in Holding \ {"session"} /\ task' = [task EXCEPT ![c] = "done"]
  /\ pre_auth_slots' = pre_auth_slots + 1
  /\ UNCHANGED session_slot

Starts(c) ==
  /\ task[c] = "welcomed" /\ task' = [task EXCEPT ![c] = "session"]
  /\ session_slot > 0 /\ session_slot' = session_slot - 1
  /\ UNCHANGED pre_auth_slots

Ends(c) ==
  /\ task[c] = "session" /\ task' = [task EXCEPT ![c] = "done"]
  /\ pre_auth_slots' = pre_auth_slots + 1
  /\ session_slot' = session_slot + 1

Idles == UNCHANGED <<task, pre_auth_slots, session_slot>>

LEMMA StepShape ==
  ASSUME IdleHasNoTask, ListenerNext
  PROVE  \/ Idles
         \/ \E c \in Conns : \/ Enters(c) \/ Leaves(c) \/ Starts(c) \/ Ends(c)
                             \/ \E s \in States : GoesOn(c, s)
<1>1. PICK c \in Conns : \/ ClientNext(c) \/ Accept(c) \/ DropExcess(c) \/ TaskNext(c)
                         \/ Deadline(c) \/ SessionEnds(c)
  BY DEF ListenerNext
<1> DEFINE Moves == \/ Idles \/ Enters(c) \/ Leaves(c) \/ Starts(c) \/ Ends(c)
                    \/ \E s \in States : GoesOn(c, s)
<1> SUFFICES Moves
  OBVIOUS
<1>a. ASSUME NEW s \in States, GoesOn(c, s) PROVE Moves
  BY <1>a
<1>b. ASSUME Idles \/ Enters(c) \/ Leaves(c) \/ Starts(c) \/ Ends(c) PROVE Moves
  BY <1>b
<1> HIDE DEF Moves
<1> USE DEF States, Holding, Handshaking, Turned
<1>2. CASE ClientNext(c)
  <2>1. CASE Connect(c)
    <3>1. GoesOn(c, "backlog")
      BY <2>1 DEF Connect, GoesOn, IdleHasNoTask
    <3> QED  BY <3>1, <1>a
  <2>2. CASE SendHello(c) \/ ClientReads(c) \/ ClientEof(c) \/ ClientLeaves(c)
    <3>1. Idles
      BY <2>2 DEF SendHello, ClientReads, ClientEof, ClientLeaves, Idles
    <3> QED  BY <3>1, <1>b
  <2> QED  BY <1>2, <2>1, <2>2 DEF ClientNext
<1>3. CASE Accept(c)
  BY <1>3, <1>b DEF Accept, Enters
<1>4. CASE DropExcess(c)
  <2>1. GoesOn(c, "done")
    BY <1>4 DEF DropExcess, GoesOn
  <2> QED  BY <2>1, <1>a
<1>5. CASE TaskNext(c)
  <2>1. CASE TlsDone(c)
    <3>1. GoesOn(c, "hello")
      BY <2>1 DEF TlsDone, GoesOn
    <3> QED  BY <3>1, <1>a
  <2>2. CASE TransportFails(c)
    BY <2>2, <1>b DEF TransportFails, Finish, Leaves
  <2>3. CASE ReadHello(c)
    <3>1. GoesOn(c, "welcome") \/ GoesOn(c, "refuse")
      BY <2>3 DEF ReadHello, GoesOn
    <3> QED  BY <3>1, <1>a
  <2>4. CASE Refuse(c) \/ Welcome(c) \/ Busy(c)
    <3>1. GoesOn(c, "refuse_close") \/ GoesOn(c, "welcomed") \/ GoesOn(c, "busy_close")
      BY <2>4 DEF Refuse, Welcome, Busy, Write, GoesOn
    <3> QED  BY <3>1, <1>a
  <2>5. CASE RefuseClose(c) \/ BusyClose(c)
    BY <2>5, <1>b DEF RefuseClose, BusyClose, Leaves
  <2>6. CASE TakeSlot(c)
    <3>1. CASE session_slot > 0
      BY <2>6, <3>1, <1>b DEF TakeSlot, Starts
    <3>2. CASE ~(session_slot > 0)
      <4>1. GoesOn(c, "busy")
        BY <2>6, <3>2 DEF TakeSlot, GoesOn
      <4> QED  BY <4>1, <1>a
    <3> QED  BY <3>1, <3>2
  <2> QED  BY <1>5, <2>1, <2>2, <2>3, <2>4, <2>5, <2>6 DEF TaskNext
<1>6. CASE Deadline(c)
  BY <1>6, <1>b DEF Deadline, Finish, Leaves
<1>7. CASE SessionEnds(c)
  BY <1>7, <1>b DEF SessionEnds, Finish, Ends
<1> QED  BY <1>1, <1>2, <1>3, <1>4, <1>5, <1>6, <1>7

(***************************************************************************)
(* Only Connect ends a client's idleness, nothing restores it, and the     *)
(* agent moves no task that it has not been given.                         *)
(***************************************************************************)
LEMMA IdleStep ==
  ASSUME task \in [Conns -> States], IdleHasNoTask, ListenerNext
  PROVE  IdleHasNoTask'
<1>1. PICK c \in Conns : \/ ClientNext(c) \/ Accept(c) \/ DropExcess(c) \/ TaskNext(c)
                         \/ Deadline(c) \/ SessionEnds(c)
  BY DEF ListenerNext
<1> USE DEF IdleHasNoTask, ClientStates
<1>2. CASE Connect(c)
  BY <1>2 DEF Connect
<1>3. CASE SendHello(c) \/ ClientEof(c) \/ ClientLeaves(c)
  BY <1>3 DEF SendHello, ClientEof, ClientLeaves
<1>4. CASE ClientReads(c)
  <2>1. AfterRead(c, Head(down[c])) \in ClientStates \ {"idle"}
    BY <1>4 DEF ClientReads, AfterRead
  <2> QED  BY <1>4, <2>1 DEF ClientReads
<1>5. ASSUME task[c] # "none", UNCHANGED client, NEW s, task' = [task EXCEPT ![c] = s]
      PROVE  IdleHasNoTask'
  BY <1>5
<1> USE DEF Handshaking
<1>6. CASE Accept(c) \/ DropExcess(c) \/ Deadline(c) \/ SessionEnds(c)
  BY <1>5, <1>6 DEF Accept, DropExcess, Deadline, SessionEnds, Finish
<1>7. CASE TlsDone(c) \/ TransportFails(c) \/ ReadHello(c)
  BY <1>5, <1>7 DEF TlsDone, TransportFails, ReadHello, Finish
<1>8. CASE Refuse(c) \/ Welcome(c) \/ Busy(c)
  BY <1>5, <1>8 DEF Refuse, Welcome, Busy, Write
<1>9. CASE RefuseClose(c) \/ BusyClose(c) \/ TakeSlot(c)
  BY <1>5, <1>9 DEF RefuseClose, BusyClose, TakeSlot
<1> QED  BY <1>1, <1>2, <1>3, <1>4, <1>6, <1>7, <1>8, <1>9 DEF ClientNext, TaskNext

LEMMA PermitInitInv == ListenerInit => PermitInv
<1> SUFFICES ASSUME ListenerInit PROVE PermitInv
  OBVIOUS
<1>1. In(task, Holding) = {} /\ In(task, {"session"}) = {}
  BY DEF ListenerInit, In, Holding, Handshaking, Turned
<1>2. task \in [Conns -> States] /\ pre_auth_slots \in Nat /\ session_slot \in Nat
  BY ListenerAssumption DEF ListenerInit, States
<1>3. PermitsConserved
  <2>1. Cardinality({c \in Conns : task[c] \in Holding}) = 0
    BY <1>1, FS_EmptySet DEF In
  <2>2. {c \in Conns : task[c] = "session"} = In(task, {"session"})
    BY DEF In
  <2>3. Cardinality({c \in Conns : task[c] = "session"}) = 0
    BY <1>1, <2>2, FS_EmptySet
  <2> QED  BY <2>1, <2>3, ListenerAssumption DEF ListenerInit, PermitsConserved
<1>4. IdleHasNoTask
  BY DEF ListenerInit, IdleHasNoTask, ClientStates
<1> QED  BY <1>2, <1>3, <1>4 DEF PermitInv

LEMMA PermitStep == PermitInv /\ [ListenerNext]_listenerVars => PermitInv'
<1> SUFFICES ASSUME PermitInv, [ListenerNext]_listenerVars PROVE PermitInv'
  OBVIOUS
<1> DEFINE Held(t) == Cardinality(In(t, Holding))
           Sessions(t) == Cardinality(In(t, {"session"}))
           Conserved(t, p, s) ==
             p + Held(t) = PRE_AUTH_CONCURRENCY /\ s + Sessions(t) = 1
<1>1. PermitsConserved <=> Conserved(task, pre_auth_slots, session_slot)
  BY DEF PermitsConserved, In
<1>2. PermitsConserved' <=> Conserved(task', pre_auth_slots', session_slot')
  BY DEF PermitsConserved, In
<1>3. /\ task \in [Conns -> States] /\ pre_auth_slots \in Nat /\ session_slot \in Nat
      /\ Conserved(task, pre_auth_slots, session_slot)
  BY <1>1 DEF PermitInv
<1>4. Held(task) \in Nat /\ Sessions(task) \in Nat /\ PRE_AUTH_CONCURRENCY \in Nat
  BY CountIsFinite, ListenerAssumption
<1>i. IdleHasNoTask /\ IdleHasNoTask'
  <2>1. CASE ListenerNext
    BY <2>1, <1>3, IdleStep DEF PermitInv
  <2>2. CASE UNCHANGED listenerVars
    BY <2>2 DEF PermitInv, IdleHasNoTask, listenerVars
  <2> QED  BY <2>1, <2>2 DEF PermitInv
<1> SUFFICES /\ task' \in [Conns -> States] /\ pre_auth_slots' \in Nat /\ session_slot' \in Nat
             /\ Conserved(task', pre_auth_slots', session_slot')
  BY <1>2, <1>i DEF PermitInv
<1> HIDE DEF Held, Sessions
<1>5. CASE Idles \/ UNCHANGED listenerVars
  BY <1>3, <1>5 DEF Idles, listenerVars
<1>6. ASSUME NEW c \in Conns, Enters(c)
      PROVE  /\ task' \in [Conns -> States] /\ pre_auth_slots' \in Nat /\ session_slot' \in Nat
             /\ Conserved(task', pre_auth_slots', session_slot')
  <2>1. Held(task') = Held(task) + 1
    <3>1. task[c] \notin Holding /\ "tls" \in Holding
      BY <1>6 DEF Enters, Holding, Handshaking, Turned
    <3>2. Cardinality(In([task EXCEPT ![c] = "tls"], Holding)) = Cardinality(In(task, Holding)) + 1
      BY <1>3, <3>1, CountEnter
    <3> QED  BY <1>6, <3>2 DEF Held, Enters
  <2>2. Sessions(task') = Sessions(task)
    <3>1. task[c] \in {"session"} <=> "tls" \in {"session"}
      BY <1>6 DEF Enters
    <3> QED  BY <1>3, <1>6, <3>1, CountStay DEF Sessions, Enters
  <2>3. task' \in [Conns -> States]
    BY <1>3, <1>6 DEF Enters, States, Holding, Handshaking
  <2> QED  BY <1>3, <1>4, <1>6, <2>1, <2>2, <2>3 DEF Enters
<1>7. ASSUME NEW c \in Conns, NEW s \in States, GoesOn(c, s)
      PROVE  /\ task' \in [Conns -> States] /\ pre_auth_slots' \in Nat /\ session_slot' \in Nat
             /\ Conserved(task', pre_auth_slots', session_slot')
  <2>1. Held(task') = Held(task)
    BY <1>3, <1>7, CountStay DEF Held, GoesOn
  <2>2. Sessions(task') = Sessions(task)
    <3>1. task[c] \in {"session"} <=> s \in {"session"}
      BY <1>7 DEF GoesOn
    <3> QED  BY <1>3, <1>7, <3>1, CountStay DEF Sessions, GoesOn
  <2> QED  BY <1>3, <1>7, <2>1, <2>2 DEF GoesOn
<1>8. ASSUME NEW c \in Conns, Leaves(c)
      PROVE  /\ task' \in [Conns -> States] /\ pre_auth_slots' \in Nat /\ session_slot' \in Nat
             /\ Conserved(task', pre_auth_slots', session_slot')
  <2>1. Held(task') = Held(task) - 1
    BY <1>3, <1>8, CountLeave DEF Held, Leaves, Holding, Handshaking, Turned
  <2>2. Sessions(task') = Sessions(task)
    BY <1>3, <1>8, CountStay DEF Sessions, Leaves
  <2>3. task' \in [Conns -> States]
    BY <1>3, <1>8 DEF Leaves, States
  <2> QED  BY <1>3, <1>4, <1>8, <2>1, <2>2, <2>3 DEF Leaves
<1>9. ASSUME NEW c \in Conns, Starts(c)
      PROVE  /\ task' \in [Conns -> States] /\ pre_auth_slots' \in Nat /\ session_slot' \in Nat
             /\ Conserved(task', pre_auth_slots', session_slot')
  <2>1. Held(task') = Held(task)
    BY <1>3, <1>9, CountStay DEF Held, Starts, Holding, Handshaking
  <2>2. Sessions(task') = Sessions(task) + 1
    BY <1>3, <1>9, CountEnter DEF Sessions, Starts
  <2>3. task' \in [Conns -> States]
    BY <1>3, <1>9 DEF Starts, States, Holding
  <2> QED  BY <1>3, <1>4, <1>9, <2>1, <2>2, <2>3 DEF Starts
<1>10. ASSUME NEW c \in Conns, Ends(c)
       PROVE  /\ task' \in [Conns -> States] /\ pre_auth_slots' \in Nat /\ session_slot' \in Nat
              /\ Conserved(task', pre_auth_slots', session_slot')
  <2>1. Held(task') = Held(task) - 1
    BY <1>3, <1>10, CountLeave DEF Held, Ends, Holding, Handshaking, Turned
  <2>2. Sessions(task') = Sessions(task) - 1
    <3> DEFINE S == {"session"}
    <3>1. task[c] \in S /\ "done" \notin S
      BY <1>10 DEF Ends
    <3> HIDE DEF S
    <3>2. Cardinality(In([task EXCEPT ![c] = "done"], S)) = Cardinality(In(task, S)) - 1
      BY <1>3, <3>1, CountLeave
    <3> QED  BY <1>10, <3>2 DEF S, Sessions, Ends
  <2>3. task' \in [Conns -> States]
    BY <1>3, <1>10 DEF Ends, States
  <2> QED  BY <1>3, <1>4, <1>10, <2>1, <2>2, <2>3 DEF Ends
<1> HIDE DEF Conserved
<1> QED  BY <1>i, <1>5, <1>6, <1>7, <1>8, <1>9, <1>10, StepShape

(***************************************************************************)
(* Permits are conserved whichever way connections end                     *)
(* (win/mod.rs:400-428, serve.rs:317).                                     *)
(***************************************************************************)
THEOREM PermitsAreConserved == ListenerSpec => []PermitsConserved
<1>1. PermitInv => PermitsConserved
  BY DEF PermitInv
<1> QED  BY <1>1, PermitInitInv, PermitStep, PTL DEF ListenerSpec

(***************************************************************************)
(* Two connections are never both in a session (serve.rs:312-338).         *)
(***************************************************************************)
THEOREM AtMostOneSession == ListenerSpec => []OneSession
<1>1. PermitInv => OneSession
  <2> SUFFICES ASSUME PermitInv, NEW c \in Conns, NEW d \in Conns, task[c] = "session"
               PROVE  session_slot = 0 /\ (task[d] = "session" => c = d)
    BY DEF OneSession
  <2> DEFINE S == {e \in Conns : task[e] = "session"}
  <2>1. S = In(task, {"session"})
    BY DEF In
  <2>2. IsFiniteSet(S) /\ Cardinality(S) \in Nat
    BY <2>1, CountIsFinite
  <2>3. session_slot + Cardinality(S) = 1 /\ session_slot \in Nat
    BY DEF PermitInv, PermitsConserved
  <2>4. c \in S
    OBVIOUS
  <2> HIDE DEF S
  <2>5. S # {} /\ Cardinality(S) # 0
    BY <2>2, <2>4, FS_EmptySet
  <2>6. Cardinality(S) = 1 /\ session_slot = 0
    BY <2>2, <2>3, <2>5
  <2>7. PICK x : S = {x}
    BY <2>2, <2>6, FS_Singleton
  <2> QED  BY <2>4, <2>6, <2>7 DEF S
<1> QED  BY <1>1, PermitInitInv, PermitStep, PTL DEF ListenerSpec
=============================================================================
