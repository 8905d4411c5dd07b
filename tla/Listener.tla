------------------------------ MODULE Listener ------------------------------
(***************************************************************************)
(* The agent's accept loop and the handshake of every connection           *)
(* (crates/oxagent/src/win/mod.rs run_agent, serve.rs run_session up to    *)
(* the session, handshake.rs negotiate), with the clients that connect     *)
(* (crates/oxclient/src/session.rs connect).                               *)
(*                                                                         *)
(* Each connection is a task of its own.  A client may stall or go away at *)
(* any point; a write waits for room in the transport, which a stalled     *)
(* client does not make.  The deadline covers TLS and negotiate, and can   *)
(* cut any of their awaits.                                                *)
(***************************************************************************)
EXTENDS Integers, Sequences, FiniteSets

CONSTANTS
  Conns,                  \* connections ever made
  PRE_AUTH_CONCURRENCY,
  Hellos,                 \* first messages a client may send
  Supported,              \* codecs the agent can produce
  PROTOCOL_VERSION,
  MIN_SUPPORTED_VERSION,
  Room                    \* messages the transport takes before the client reads

ASSUME ListenerAssumption ==
  /\ IsFiniteSet(Conns)
  /\ PRE_AUTH_CONCURRENCY \in Nat \ {0} /\ Room \in Nat \ {0}
  /\ PROTOCOL_VERSION \in Nat /\ MIN_SUPPORTED_VERSION \in Nat

VARIABLES
  task,            \* connection -> where its task is
  verdict,         \* connection -> what negotiate decided
  hello,           \* connection -> the message the client sent first
  down,            \* connection -> messages written and not read
  client,          \* connection -> where the client is
  pre_auth_slots,  \* free permits of the semaphore
  session_slot     \* free permits of the semaphore

listenerVars == <<task, verdict, hello, down, client, pre_auth_slots, session_slot>>

Undecided == [accept |-> FALSE, code |-> "NONE"]
NoHello == [type |-> "NONE"]

ListenerInit ==
  /\ task = [c \in Conns |-> "none"]
  /\ verdict = [c \in Conns |-> Undecided]
  /\ hello = [c \in Conns |-> NoHello]
  /\ down = [c \in Conns |-> <<>>]
  /\ client = [c \in Conns |-> "idle"]
  /\ pre_auth_slots = PRE_AUTH_CONCURRENCY
  /\ session_slot = 1

Handshaking == {"tls", "hello", "refuse", "refuse_close", "welcome", "welcomed"}
Turned == {"busy", "busy_close"}
Holding == Handshaking \cup Turned \cup {"session"}

Gone(c) == client[c] \in {"refused", "gone"}

-----------------------------------------------------------------------------
(***************************************************************************)
(* negotiate's decision on the first message: its type, the token, the     *)
(* versions, the codecs, in this order.                                    *)
(***************************************************************************)
Version(h) == IF PROTOCOL_VERSION < h.version_max THEN PROTOCOL_VERSION ELSE h.version_max

\* Mutant: the client's lower bound is not looked at.
VersionFailsLoose(h) == Version(h) < MIN_SUPPORTED_VERSION

VersionFails(h) == Version(h) < MIN_SUPPORTED_VERSION \/ Version(h) < h.version_min

Mutual(h) == {i \in DOMAIN h.codecs : h.codecs[i] \in Supported}
Chosen(h) == h.codecs[CHOOSE i \in Mutual(h) : \A j \in Mutual(h) : i <= j]

Refused(code) == [accept |-> FALSE, code |-> code]

Negotiate(h) ==
  IF h.type # "ClientHello" THEN Refused("PROTOCOL")
  ELSE IF ~h.token_ok THEN Refused("AUTH_FAILED")
  ELSE IF VersionFails(h) THEN Refused("VERSION_MISMATCH")
  ELSE IF Mutual(h) = {} THEN Refused("UNSUPPORTED_CODEC")
  ELSE [accept |-> TRUE, code |-> "NONE", version |-> Version(h), codec |-> Chosen(h)]

-----------------------------------------------------------------------------
(***************************************************************************)
(* The client: it connects, sends its hello once TLS stands, and reads.    *)
(***************************************************************************)
Connect(c) ==
  /\ client[c] = "idle"
  /\ client' = [client EXCEPT ![c] = "tls"]
  /\ task' = [task EXCEPT ![c] = "backlog"]
  /\ UNCHANGED <<verdict, hello, down, pre_auth_slots, session_slot>>

SendHello(c) ==
  /\ client[c] = "tls" /\ task[c] \notin {"backlog", "tls", "done"}
  /\ \E h \in Hellos : hello' = [hello EXCEPT ![c] = h]
  /\ client' = [client EXCEPT ![c] = "waiting"]
  /\ UNCHANGED <<task, verdict, down, pre_auth_slots, session_slot>>

AfterRead(c, m) ==
  CASE client[c] = "waiting" /\ m = "ServerHello" -> "connected"
    [] client[c] = "waiting" /\ m # "ServerHello" -> "refused"
    [] client[c] = "connected" /\ m = "Close" -> "gone"
    [] OTHER -> client[c]

ClientReads(c) ==
  /\ client[c] \in {"waiting", "connected"} /\ down[c] # <<>>
  /\ client' = [client EXCEPT ![c] = AfterRead(c, Head(down[c]))]
  /\ down' = [down EXCEPT ![c] = Tail(@)]
  /\ UNCHANGED <<task, verdict, hello, pre_auth_slots, session_slot>>

ClientEof(c) ==
  /\ client[c] \in {"tls", "waiting", "connected"} /\ down[c] = <<>> /\ task[c] = "done"
  /\ client' = [client EXCEPT ![c] = "gone"]
  /\ UNCHANGED <<task, verdict, hello, down, pre_auth_slots, session_slot>>

ClientLeaves(c) ==
  /\ client[c] \in {"tls", "waiting", "connected"}
  /\ client' = [client EXCEPT ![c] = "gone"]
  /\ UNCHANGED <<task, verdict, hello, down, pre_auth_slots, session_slot>>

ClientNext(c) == Connect(c) \/ SendHello(c) \/ ClientReads(c) \/ ClientEof(c) \/ ClientLeaves(c)

-----------------------------------------------------------------------------
(***************************************************************************)
(* The accept loop: a permit for the connection, or it is dropped.         *)
(***************************************************************************)
Accept(c) ==
  /\ task[c] = "backlog"
  /\ pre_auth_slots > 0
  /\ pre_auth_slots' = pre_auth_slots - 1
  /\ task' = [task EXCEPT ![c] = "tls"]
  /\ UNCHANGED <<verdict, hello, down, client, session_slot>>

\* Mutant: a connection without a permit waits for one.
DropExcessGone(c) ==
  /\ task[c] = "backlog" /\ Gone(c)
  /\ pre_auth_slots = 0
  /\ task' = [task EXCEPT ![c] = "done"]
  /\ UNCHANGED <<verdict, hello, down, client, pre_auth_slots, session_slot>>

\* Mutant: a dropped connection gives back the permit it never had.
DropExcessReturns(c) ==
  /\ task[c] = "backlog"
  /\ pre_auth_slots = 0
  /\ task' = [task EXCEPT ![c] = "done"]
  /\ pre_auth_slots' = pre_auth_slots + 1
  /\ UNCHANGED <<verdict, hello, down, client, session_slot>>

DropExcess(c) ==
  /\ task[c] = "backlog"
  /\ pre_auth_slots = 0
  /\ task' = [task EXCEPT ![c] = "done"]
  /\ UNCHANGED <<verdict, hello, down, client, pre_auth_slots, session_slot>>

(***************************************************************************)
(* The end of a connection's task gives back what it holds.                *)
(***************************************************************************)
Finish(c) ==
  /\ task' = [task EXCEPT ![c] = "done"]
  /\ pre_auth_slots' = pre_auth_slots + 1
  /\ UNCHANGED <<verdict, hello, down, client>>

TlsDone(c) ==
  /\ task[c] = "tls" /\ ~Gone(c)
  /\ task' = [task EXCEPT ![c] = "hello"]
  /\ UNCHANGED <<verdict, hello, down, client, pre_auth_slots, session_slot>>

\* TLS, the read of the hello or the write of the ServerHello fails: the client is gone.
TransportFails(c) ==
  /\ \/ task[c] \in {"tls", "welcome", "welcomed"}
     \/ task[c] = "hello" /\ hello[c] = NoHello
  /\ Gone(c)
  /\ Finish(c) /\ UNCHANGED session_slot

\* Mutant: the deadline covers the read of the hello only, not the answer to it.
DeadlineBeforeAnswer(c) ==
  /\ task[c] \in {"tls", "hello"}
  /\ Finish(c) /\ UNCHANGED session_slot

(***************************************************************************)
(* timeout_at elapses during TLS or negotiate; nothing is written.         *)
(***************************************************************************)
Deadline(c) ==
  /\ task[c] \in Handshaking
  /\ Finish(c) /\ UNCHANGED session_slot

\* Mutant: the answer is sent before the decision is looked at.
ReadHelloWelcomes(c) ==
  /\ task[c] = "hello" /\ hello[c] # NoHello
  /\ verdict' = [verdict EXCEPT ![c] = Negotiate(hello[c])]
  /\ task' = [task EXCEPT ![c] = "welcome"]
  /\ UNCHANGED <<hello, down, client, pre_auth_slots, session_slot>>

ReadHello(c) ==
  /\ task[c] = "hello" /\ hello[c] # NoHello
  /\ verdict' = [verdict EXCEPT ![c] = Negotiate(hello[c])]
  /\ task' = [task EXCEPT ![c] = IF verdict'[c].accept THEN "welcome" ELSE "refuse"]
  /\ UNCHANGED <<hello, down, client, pre_auth_slots, session_slot>>

(***************************************************************************)
(* One write: it is taken when there is room.  A write to a client that is *)
(* gone fails, which a refusal ignores.                                    *)
(***************************************************************************)
Write(c, m, next) ==
  /\ task' = [task EXCEPT ![c] = next]
  /\ \/ Gone(c) /\ UNCHANGED down
     \/ Len(down[c]) < Room /\ down' = [down EXCEPT ![c] = Append(@, m)]
  /\ UNCHANGED <<verdict, hello, client, pre_auth_slots, session_slot>>

Refuse(c) == task[c] = "refuse" /\ Write(c, "Error", "refuse_close")

RefuseClose(c) ==
  /\ task[c] = "refuse_close"
  /\ \/ Gone(c) /\ UNCHANGED down
     \/ Len(down[c]) < Room /\ down' = [down EXCEPT ![c] = Append(@, "Close")]
  /\ task' = [task EXCEPT ![c] = "done"]
  /\ pre_auth_slots' = pre_auth_slots + 1
  /\ UNCHANGED <<verdict, hello, client, session_slot>>

Welcome(c) == task[c] = "welcome" /\ ~Gone(c) /\ Write(c, "ServerHello", "welcomed")

\* Mutant: a session starts without asking for the slot.
TakeSlotAlways(c) ==
  /\ task[c] = "welcomed"
  /\ session_slot' = 0
  /\ task' = [task EXCEPT ![c] = "session"]
  /\ UNCHANGED <<verdict, hello, down, client, pre_auth_slots>>

(***************************************************************************)
(* run_session after negotiate: the one session slot, or a refusal.        *)
(***************************************************************************)
TakeSlot(c) ==
  /\ task[c] = "welcomed"
  /\ IF session_slot > 0
     THEN /\ session_slot' = session_slot - 1
          /\ task' = [task EXCEPT ![c] = "session"]
     ELSE /\ task' = [task EXCEPT ![c] = "busy"]
          /\ UNCHANGED session_slot
  /\ UNCHANGED <<verdict, hello, down, client, pre_auth_slots>>

Busy(c) == task[c] = "busy" /\ Write(c, "Error", "busy_close")

BusyClose(c) ==
  /\ task[c] = "busy_close"
  /\ \/ Gone(c) /\ UNCHANGED down
     \/ Len(down[c]) < Room /\ down' = [down EXCEPT ![c] = Append(@, "Close")]
  /\ task' = [task EXCEPT ![c] = "done"]
  /\ pre_auth_slots' = pre_auth_slots + 1
  /\ UNCHANGED <<verdict, hello, client, session_slot>>

\* Mutant: a session that ends keeps the slot.
SessionEndsKeepsSlot(c) ==
  /\ task[c] = "session"
  /\ Finish(c) /\ UNCHANGED session_slot

(***************************************************************************)
(* The session itself is AgentSession; here it only ends.                  *)
(***************************************************************************)
SessionEnds(c) ==
  /\ task[c] = "session"
  /\ Finish(c)
  /\ session_slot' = session_slot + 1

\* What the task of a connection does without waiting for its client.
TaskNext(c) ==
  \/ TlsDone(c) \/ TransportFails(c) \/ ReadHello(c) \/ Refuse(c) \/ RefuseClose(c)
  \/ Welcome(c) \/ TakeSlot(c) \/ Busy(c) \/ BusyClose(c)

ListenerNext ==
  \E c \in Conns :
    ClientNext(c) \/ Accept(c) \/ DropExcess(c) \/ TaskNext(c) \/ Deadline(c) \/ SessionEnds(c)

(***************************************************************************)
(* Fairness: the runtime polls the accept loop and every task that can go  *)
(* on, and time passes; a session ends once its client is gone (the        *)
(* session's LeavingEnds).  Nothing is assumed of the clients.             *)
(***************************************************************************)
ListenerFairness ==
  \A c \in Conns :
    /\ WF_listenerVars(Accept(c) \/ DropExcess(c))
    /\ WF_listenerVars(TaskNext(c))
    /\ WF_listenerVars(Deadline(c))
    /\ WF_listenerVars(Gone(c) /\ SessionEnds(c))

ListenerSpec == ListenerInit /\ [][ListenerNext]_listenerVars /\ ListenerFairness

-----------------------------------------------------------------------------
(***************************************************************************)
(* Type invariant.                                                         *)
(***************************************************************************)
ListenerTypeOK ==
  /\ task \in [Conns -> {"none", "backlog", "done"} \cup Holding]
  /\ client \in [Conns -> {"idle", "tls", "waiting", "connected", "refused", "gone"}]
  /\ pre_auth_slots \in 0 .. PRE_AUTH_CONCURRENCY
  /\ session_slot \in 0 .. 1

(***************************************************************************)
(* Every permit is either free or held by exactly one task, whichever way  *)
(* the tasks end: refused, timed out, turned away, failed or after a       *)
(* session (win/mod.rs:400-428, serve.rs:317).                             *)
(***************************************************************************)
PermitsConserved ==
  /\ pre_auth_slots + Cardinality({c \in Conns : task[c] \in Holding}) = PRE_AUTH_CONCURRENCY
  /\ session_slot + Cardinality({c \in Conns : task[c] = "session"}) = 1

(***************************************************************************)
(* "Exactly one authenticated session at a time" (serve.rs:312): two       *)
(* connections are never both in a session, and while one is, the slot is  *)
(* taken.                                                                  *)
(***************************************************************************)
OneSession ==
  \A c, d \in Conns :
    task[c] = "session" => session_slot = 0 /\ (task[d] = "session" => c = d)

(***************************************************************************)
(* A connection only gets as far as the slot if its client presented the   *)
(* token, and what was negotiated is a version both sides support and the  *)
(* client's most preferred codec among those the agent can produce         *)
(* (handshake.rs:111-160).                                                 *)
(***************************************************************************)
SessionNegotiated ==
  \A c \in Conns :
    task[c] \in {"welcomed", "session"} \cup Turned =>
      LET h == hello[c]
          v == verdict[c]
      IN  /\ h.type = "ClientHello" /\ h.token_ok
          /\ v.version \in h.version_min .. h.version_max
          /\ v.version \in MIN_SUPPORTED_VERSION .. PROTOCOL_VERSION
          /\ \E i \in DOMAIN h.codecs :
               /\ h.codecs[i] = v.codec /\ v.codec \in Supported
               /\ \A j \in 1 .. i - 1 : h.codecs[j] \notin Supported

(***************************************************************************)
(* A client believes it is connected only if its handshake was accepted:   *)
(* whatever it reads, in whatever order tasks and deadlines strike.        *)
(***************************************************************************)
ConnectedWasAccepted ==
  \A c \in Conns : client[c] = "connected" => verdict[c].accept

(***************************************************************************)
(* No client can hold the handshake open: whatever it does or does not do, *)
(* TLS and negotiate come to an end (win/mod.rs:39-45).                    *)
(***************************************************************************)
HandshakeEnds ==
  \A c \in Conns : task[c] \in Handshaking ~> task[c] \notin Handshaking

(***************************************************************************)
(* The accept loop gets to every connection, however the clients before it *)
(* behave (win/mod.rs:369-373).                                            *)
(***************************************************************************)
AcceptReturns == \A c \in Conns : task[c] = "backlog" ~> task[c] # "backlog"

=============================================================================
