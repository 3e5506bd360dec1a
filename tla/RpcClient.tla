----------------------------- MODULE RpcClient -----------------------------
(***************************************************************************)
(* What the two clients of an RPC WebSocket, the price feed                *)
(* (src/bot/prices.rs) and the RPC lanes (src/rpc_lane.rs), have in        *)
(* common: a task that connects, streams and sleeps, a map of the          *)
(* subscriptions that were acknowledged, and a backoff that doubles.  Each *)
(* client has a task of its own.                                           *)
(***************************************************************************)
EXTENDS RpcSocket

CONSTANT
  MaxBackoff         \* 30 s in the code

ASSUME RpcClientAssumption == MaxBackoff \in Nat \ {0}

VARIABLES
  phase,             \* "connecting", "streaming" or "sleeping"
  backoff,           \* seconds to sleep before the next connection
  by_subscription    \* subscription id -> account, for the connection at hand

client == <<socket, phase, backoff, by_subscription>>

ClientInit ==
  /\ SocketInit
  /\ phase = "connecting"
  /\ backoff = 1
  /\ by_subscription = [i \in {} |-> 0]

Doubled(b) == IF 2 * b > MaxBackoff THEN MaxBackoff ELSE 2 * b

\* The sleep is over.
Woken ==
  /\ phase = "sleeping"
  /\ phase' = "connecting"
  /\ backoff' = Doubled(backoff)
  /\ UNCHANGED <<socket, by_subscription>>

\* The next frame is taken off the wire.
FrameTaken(kind) ==
  /\ phase = "streaming"
  /\ wire # <<>> /\ Head(wire).kind = kind
  /\ wire' = Tail(wire)
  /\ UNCHANGED <<conn, link, asked, subs, owed>>

ClientTypeOK ==
  /\ SocketTypeOK
  /\ phase \in {"connecting", "streaming", "sleeping"}
  /\ backoff \in 1 .. MaxBackoff
  /\ DOMAIN by_subscription \subseteq SubIds
  /\ \A i \in DOMAIN by_subscription : by_subscription[i] \in Requests
=============================================================================
