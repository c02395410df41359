------------------------------- MODULE Bridges --------------------------------
(* The web server between a browser's socket and the daemon's: session and     *)
(* event sockets are bridged at once and drop what is sent before the upstream *)
(* is open; terminal sockets, and those of other machines, are bridged after   *)
(* an awaited lookup, through senders that buffer until then.                  *)
EXTENDS Naturals, Sequences, SequencesExt

CONSTANTS Connections,
          MaxTyped  \* bound: messages a client sends

VARIABLES kind,     \* "session" or "terminal"
          client,   \* "none", "open" or "closed"
          bridged,  \* the handlers of bridgeSockets are there
          upstream, \* "none", "connecting", "open", "closing" or "closed"
          typed,    \* how many messages the client sent
          since,    \* how many it had sent when the bridge could carry them
          unsent,   \* the queue of createBufferedSender
          wire,     \* sent and not received
          arrived   \* what the daemon's handler got

bridgeVars == <<kind, client, bridged, upstream, typed, since, unsent, wire, arrived>>

Set(f, c, v) == [f EXCEPT ![c] = v]

ConnectSession(c) ==
  /\ client[c] = "none" /\ kind[c] = "session"
  /\ client' = Set(client, c, "open") /\ bridged' = Set(bridged, c, TRUE)
  /\ upstream' = Set(upstream, c, "connecting")
  /\ UNCHANGED <<kind, typed, since, unsent, wire, arrived>>

\* resolveWorkspaceContext, or remoteClient, is awaited before anything listens.
ConnectTerminal(c) ==
  /\ client[c] = "none" /\ kind[c] = "terminal"
  /\ client' = Set(client, c, "open")
  /\ UNCHANGED <<kind, bridged, upstream, typed, since, unsent, wire, arrived>>

Bridge(c) ==
  /\ kind[c] = "terminal" /\ client[c] # "none" /\ ~bridged[c] /\ upstream[c] = "none"
  /\ bridged' = Set(bridged, c, TRUE)
  /\ upstream' = Set(upstream, c, "connecting")
  /\ since' = Set(since, c, typed[c])
  /\ UNCHANGED <<kind, client, typed, unsent, wire, arrived>>

LookupFails(c) ==
  /\ kind[c] = "terminal" /\ client[c] = "open" /\ ~bridged[c]
  /\ client' = Set(client, c, "closed") /\ upstream' = Set(upstream, c, "closed")
  /\ UNCHANGED <<kind, bridged, typed, since, unsent, wire, arrived>>

\* A variant that breaks InputArrives: a terminal's input is dropped like a session's.
BuffersNone(c) == kind[c] = "none"

Buffers(c) == kind[c] = "terminal"

\* sendToUpstream, and sendIfOpen, which drops.
Send(c, message) ==
  CASE upstream[c] = "open" -> wire' = [wire EXCEPT ![c] = Append(@, message)] /\ UNCHANGED <<unsent, since>>
    [] upstream[c] = "connecting" /\ Buffers(c) ->
         unsent' = [unsent EXCEPT ![c] = Append(@, message)] /\ UNCHANGED <<wire, since>>
    [] OTHER -> UNCHANGED <<wire, unsent, since>>

ClientSends(c) ==
  /\ client[c] = "open" /\ typed[c] < MaxTyped
  /\ typed' = [typed EXCEPT ![c] = @ + 1]
  /\ IF bridged[c] THEN Send(c, typed[c] + 1) ELSE UNCHANGED <<unsent, wire, since>>
  /\ UNCHANGED <<kind, client, bridged, upstream, arrived>>

\* A variant that breaks InputArrives: the newest of what waited goes first.
FlushBackwards(c) == wire' = Set(wire, c, Reverse(unsent[c]))

Flush(c) == wire' = Set(wire, c, unsent[c])

UpstreamOpens(c) ==
  /\ upstream[c] = "connecting"
  /\ upstream' = Set(upstream, c, "open")
  /\ Flush(c) /\ unsent' = Set(unsent, c, <<>>)
  /\ since' = IF kind[c] = "session" THEN Set(since, c, typed[c]) ELSE since
  /\ UNCHANGED <<kind, client, bridged, typed, arrived>>

Arrives(c) ==
  /\ wire[c] # <<>> /\ upstream[c] \in {"open", "closing"}
  /\ arrived' = [arrived EXCEPT ![c] = Append(@, Head(wire[c]))]
  /\ wire' = [wire EXCEPT ![c] = Tail(@)]
  /\ UNCHANGED <<kind, client, bridged, upstream, typed, since, unsent>>

\* close() of a socket that connects aborts it; that of an open one starts the closing handshake.
Closing(state) ==
  CASE state = "connecting" -> "closed" [] state = "open" -> "closing" [] OTHER -> state

PassOnClose(c) ==
  upstream' = IF bridged[c] THEN Set(upstream, c, Closing(upstream[c])) ELSE upstream

\* The client leaves, or its socket fails; nobody listens before the bridge is there.
ClientCloses(c) ==
  /\ client[c] = "open"
  /\ client' = Set(client, c, "closed")
  /\ PassOnClose(c)
  /\ UNCHANGED <<kind, bridged, typed, since, unsent, wire, arrived>>

\* The closing handshake ends, the daemon closes, or the connection fails.
UpstreamCloses(c) ==
  /\ upstream[c] \in {"connecting", "open", "closing"}
  /\ upstream' = Set(upstream, c, "closed")
  /\ client' = Set(client, c, "closed")
  /\ UNCHANGED <<kind, bridged, typed, since, unsent, wire, arrived>>

BridgesInit ==
  /\ kind \in [Connections -> {"session", "terminal"}]
  /\ client = [c \in Connections |-> "none"] /\ upstream = [c \in Connections |-> "none"]
  /\ bridged = [c \in Connections |-> FALSE]
  /\ typed = [c \in Connections |-> 0] /\ since = [c \in Connections |-> 0]
  /\ unsent = [c \in Connections |-> <<>>] /\ wire = [c \in Connections |-> <<>>]
  /\ arrived = [c \in Connections |-> <<>>]

BridgesNext ==
  \E c \in Connections :
     \/ ConnectSession(c) \/ ConnectTerminal(c) \/ Bridge(c) \/ LookupFails(c)
     \/ ClientSends(c) \/ UpstreamOpens(c) \/ Arrives(c) \/ ClientCloses(c) \/ UpstreamCloses(c)

------------------------------------------------------------------------------

\* While a bridge stands, everything the client sent since it could carry input is with the daemon,
\* on its way or in the buffer, once and in the order it was sent: for a terminal since the bridge
\* was made, though the upstream opens later, for a session since the upstream opened.
InputArrives ==
  \A c \in Connections : bridged[c] /\ upstream[c] \in {"connecting", "open"} =>
    \/ kind[c] = "session" /\ upstream[c] = "connecting"
    \/ arrived[c] \o wire[c] \o unsent[c] = [k \in 1 .. typed[c] - since[c] |-> since[c] + k]
=============================================================================
