----------------------------- MODULE RpcSocket -----------------------------
(***************************************************************************)
(* The far side of an RPC WebSocket, as the price feed and the RPC lanes   *)
(* use it (external: the provider's server and the network).               *)
(*                                                                         *)
(* A client sends one subscribe request per account, numbered from 1.  The *)
(* server may refuse a request, or register it under a subscription id of  *)
(* its own choosing and acknowledge that; ids are only unique within a     *)
(* connection.  From then on it sends notifications that quote the id and  *)
(* nothing else that says which account they are about: `about` is carried *)
(* along for the properties.  The connection may be closed, fail with an   *)
(* error, or die without a word.                                           *)
(***************************************************************************)
EXTENDS Integers, Sequences, FiniteSets

CONSTANTS
  Watching,      \* the number of accounts watched
  SubIds,        \* ids the server draws from
  MaxConns,      \* bound: connections made
  MaxWire        \* bound: frames in flight

ASSUME RpcSocketAssumption ==
  /\ Watching \in Nat
  /\ MaxConns \in Nat /\ MaxWire \in Nat

VARIABLES
  conn,          \* connections made so far
  link,          \* "down", "up", or "dead": gone without the client knowing
  asked,         \* requests the server has not answered
  subs,          \* the server's subscriptions: id -> request
  owed,          \* subscriptions not acknowledged yet
  wire           \* frames in flight to the client

Requests == 1 .. Watching

socket == <<conn, link, asked, subs, owed, wire>>

Frames ==
  [kind : {"ack"}, id : Requests, sub : SubIds]
    \cup [kind : {"note"}, sub : SubIds, about : Requests, good : BOOLEAN]
    \cup [kind : {"ping", "close", "other"}]

SocketInit ==
  /\ conn = 0 /\ link = "down"
  /\ asked = {} /\ subs = [i \in {} |-> 0] /\ owed = {} /\ wire = <<>>

\* connect_async returns a socket and every request is sent on it.
Opened ==
  /\ conn < MaxConns
  /\ conn' = conn + 1
  /\ link' = "up"
  /\ asked' = Requests
  /\ subs' = [i \in {} |-> 0]
  /\ owed' = {}
  /\ wire' = <<>>

\* The socket is dropped, with whatever was in flight.
Dropped ==
  /\ link' = "down"
  /\ asked' = {}
  /\ subs' = [i \in {} |-> 0]
  /\ owed' = {}
  /\ wire' = <<>>
  /\ UNCHANGED conn

Send(frame) == Len(wire) < MaxWire /\ wire' = Append(wire, frame)

\* The server registers a request.  Notifications are sent by another task
\* than the acknowledgement, so either may come first.
Register(id, sub) ==
  /\ link = "up" /\ id \in asked /\ sub \notin DOMAIN subs
  /\ asked' = asked \ {id}
  /\ subs' = [i \in DOMAIN subs \cup {sub} |-> IF i = sub THEN id ELSE subs[i]]
  /\ owed' = owed \cup {sub}
  /\ UNCHANGED <<conn, link, wire>>

Acknowledge(sub) ==
  /\ link = "up" /\ sub \in owed
  /\ Send([kind |-> "ack", id |-> subs[sub], sub |-> sub])
  /\ owed' = owed \ {sub}
  /\ UNCHANGED <<conn, link, asked, subs>>

\* An error response: it has no result, so it is neither kind of frame.
RefuseRequest(id) ==
  /\ link = "up" /\ id \in asked
  /\ asked' = asked \ {id}
  /\ Send([kind |-> "other"])
  /\ UNCHANGED <<conn, link, subs, owed>>

\* Notifications, some of which carry data that does not decode.
Notify(sub, good) ==
  /\ link = "up" /\ sub \in DOMAIN subs
  /\ Send([kind |-> "note", sub |-> sub, about |-> subs[sub], good |-> good])
  /\ UNCHANGED <<conn, link, asked, subs, owed>>

Say(kind) ==
  /\ link = "up"
  /\ Send([kind |-> kind])
  /\ UNCHANGED <<conn, link, asked, subs, owed>>

\* The connection dies without a FIN.
Die ==
  /\ link = "up"
  /\ link' = "dead"
  /\ UNCHANGED <<conn, asked, subs, owed, wire>>

Remote ==
  \/ \E id \in Requests, sub \in SubIds : Register(id, sub)
  \/ \E sub \in SubIds : Acknowledge(sub)
  \/ \E id \in Requests : RefuseRequest(id)
  \/ \E sub \in SubIds, good \in BOOLEAN : Notify(sub, good)
  \/ \E kind \in {"ping", "close"} : Say(kind)
  \/ Die

SocketTypeOK ==
  /\ conn \in 0 .. MaxConns
  /\ link \in {"down", "up", "dead"}
  /\ asked \subseteq Requests
  /\ DOMAIN subs \subseteq SubIds /\ \A i \in DOMAIN subs : subs[i] \in Requests
  /\ owed \subseteq DOMAIN subs
  /\ wire \in Seq(Frames) /\ Len(wire) <= MaxWire
=============================================================================
