--------------------------- MODULE RealtimeBroker ---------------------------
(***************************************************************************)
(* internal/realtime: the pub/sub broker of each server process, the       *)
(* connections served by handleConnect (one goroutine reading, one         *)
(* writing), the publications made by write handlers, and the Redis relay  *)
(* between processes.                                                      *)
(*                                                                         *)
(* Broker.mu makes Subscribe, Unsubscribe, Close and the snapshot at the   *)
(* start of publishLocal atomic.  The sends that follow the snapshot are   *)
(* NOT under the mutex: each is a step of its own, and every other         *)
(* goroutine may run between two of them.                                  *)
(*                                                                         *)
(* An event is published once, by the write handler of its own request, so *)
(* each event is a process.  The payload is abstracted away: what matters  *)
(* is the event's collection and the owner it is gated to.                 *)
(***************************************************************************)
EXTENDS Naturals, Sequences

CONSTANTS Nodes,        \* server processes
          Conns,        \* WebSocket connections
          Collections,  \* collection names clients may subscribe to
          Users,        \* subjects
          Events,       \* publications
          NodeOf,       \* NodeOf[c]: the process connection c is made to
          SubjectOf,    \* SubjectOf[c]: the subject of its access token
          CollOf,       \* CollOf[e]: Event.Collection
          OwnerOf,      \* OwnerOf[e]: the ownerID argument of Publish
          Everyone,     \* ownerID = ""
          HasRelay,     \* NewBrokerWithRelay rather than NewBroker
          Cap           \* capacity of Conn.events (16 in the code)

ASSUME BrokerAssumption ==
    /\ NodeOf \in [Conns -> Nodes]
    /\ SubjectOf \in [Conns -> Users]
    /\ CollOf \in [Events -> Collections]
    /\ OwnerOf \in [Events -> Users \cup {Everyone}]
    /\ Everyone \notin Users
    /\ HasRelay \in BOOLEAN
    /\ Cap \in Nat \ {0}

VARIABLES
    up,       \* up[n]: the process is running
    subs,     \* subs[c]: the collections whose subscriber set holds c
    entries,  \* keys present in each process's Broker.subs map
    handler,  \* handler[c]: where c's handleConnect is
    pump,     \* pump[c]: c's writePump goroutine; writing: inside WriteJSON
    open,     \* connections whose events channel is open
    chan,     \* chan[c]: what is buffered in c.events
    pub,      \* pub[e]: where e's Publish call is
    at,       \* at[e]: the process e was published on
    todo,     \* todo[e]: connections of the snapshot not sent to yet
    inbox,    \* inbox[n]: relay messages Redis has for process n
    rx,       \* rx[n]: events relay.Run's handler is delivering on n (one or none)
    rxTodo,   \* rxTodo[n]: its snapshot, as todo
    copies    \* history: copies[c][e], how often e was put in c's channel

connVars  == <<subs, entries, handler, pump, open, chan>>
pubVars   == <<pub, at, todo>>
relayVars == <<inbox, rx, rxTodo>>
vars      == <<up, connVars, pubVars, relayVars, copies>>

TypeOK ==
    /\ up \in [Nodes -> BOOLEAN]
    /\ subs \in [Conns -> SUBSET Collections]
    /\ entries \in [Nodes -> SUBSET Collections]
    /\ handler \in [Conns -> {"none", "reading", "closing", "gone"}]
    /\ pump \in [Conns -> {"none", "running", "writing", "done"}]
    /\ open \subseteq Conns
    /\ chan \in [Conns -> Seq(Events)]
    /\ \A c \in Conns : Len(chan[c]) <= Cap
    /\ pub \in [Events -> {"unborn", "sending", "relaying", "done", "panicked", "lost"}]
    /\ at \in [Events -> Nodes]
    /\ todo \in [Events -> SUBSET Conns]
    /\ inbox \in [Nodes -> SUBSET Events]
    /\ rx \in [Nodes -> SUBSET Events]
    /\ rxTodo \in [Nodes -> SUBSET Conns]
    /\ copies \in [Conns -> [Events -> Nat]]

Init ==
    /\ up = [n \in Nodes |-> TRUE]
    /\ subs = [c \in Conns |-> {}]
    /\ entries = [n \in Nodes |-> {}]
    /\ handler = [c \in Conns |-> "none"]
    /\ pump = [c \in Conns |-> "none"]
    /\ open = {}
    /\ chan = [c \in Conns |-> <<>>]
    /\ pub = [e \in Events |-> "unborn"]
    /\ at \in [Events -> Nodes]
    /\ todo = [e \in Events |-> {}]
    /\ inbox = [n \in Nodes |-> {}]
    /\ rx = [n \in Nodes |-> {}]
    /\ rxTodo = [n \in Nodes |-> {}]
    /\ copies = [c \in Conns |-> [e \in Events |-> 0]]

-----------------------------------------------------------------------------
(* Connections.                                                            *)

Subscribers(n, col) == {c \in Conns : NodeOf[c] = n /\ col \in subs[c]}

\* handleConnect, past the handshake: NewConn and the two pumps.
Connect(c) ==
    /\ up[NodeOf[c]]
    /\ handler[c] = "none"
    /\ handler' = [handler EXCEPT ![c] = "reading"]
    /\ pump' = [pump EXCEPT ![c] = "running"]
    /\ open' = open \cup {c}
    /\ UNCHANGED <<up, subs, entries, chan, pubVars, relayVars, copies>>

Subscribe(c, col) ==
    /\ handler[c] = "reading"
    /\ subs' = [subs EXCEPT ![c] = @ \cup {col}]
    /\ entries' = [entries EXCEPT ![NodeOf[c]] = @ \cup {col}]
    /\ UNCHANGED <<up, handler, pump, open, chan, pubVars, relayVars, copies>>

\* Fault: the emptied entry is left in the map.
UnsubscribeKeepsEntry(c, col) ==
    /\ handler[c] = "reading"
    /\ subs' = [subs EXCEPT ![c] = @ \ {col}]
    /\ UNCHANGED <<up, entries, handler, pump, open, chan, pubVars, relayVars, copies>>

\* An entry goes with its last subscriber.
Unsubscribe(c, col) ==
    /\ handler[c] = "reading"
    /\ subs' = [subs EXCEPT ![c] = @ \ {col}]
    /\ entries' = [entries EXCEPT ![NodeOf[c]] =
                     @ \ {k \in {col} : Subscribers(NodeOf[c], k) \subseteq {c}}]
    /\ UNCHANGED <<up, handler, pump, open, chan, pubVars, relayVars, copies>>

\* Fault: the events channel is never closed.
CloseKeepsChannel(c) ==
    /\ handler[c] = "reading"
    /\ subs' = [subs EXCEPT ![c] = {}]
    /\ entries' = [entries EXCEPT ![NodeOf[c]] =
                     {k \in @ : Subscribers(NodeOf[c], k) \ {c} # {}}]
    /\ handler' = [handler EXCEPT ![c] = "closing"]
    /\ UNCHANGED <<up, pump, open, chan, pubVars, relayVars, copies>>

\* readPump has returned: Broker.Close.
Close(c) ==
    /\ handler[c] = "reading"
    /\ subs' = [subs EXCEPT ![c] = {}]
    /\ entries' = [entries EXCEPT ![NodeOf[c]] =
                     {k \in @ : Subscribers(NodeOf[c], k) \ {c} # {}}]
    /\ open' = open \ {c}
    /\ handler' = [handler EXCEPT ![c] = "closing"]
    /\ UNCHANGED <<up, pump, chan, pubVars, relayVars, copies>>

\* writePump: the next event, to the socket.  WriteJSON returns at once, fails,
\* which ends the pump, or waits for a peer that is not reading: there is no
\* write deadline.
Forward(c) ==
    /\ pump[c] = "running"
    /\ chan[c] # <<>>
    /\ chan' = [chan EXCEPT ![c] = Tail(@)]
    /\ \E s \in {"running", "writing", "done"} : pump' = [pump EXCEPT ![c] = s]
    /\ UNCHANGED <<up, subs, entries, handler, open, pubVars, relayVars, copies>>

\* A write that waited: the peer reads again, or its socket is gone.  Nothing
\* on this side closes the socket before the pump has ended.
WriteReturns(c) ==
    /\ pump[c] = "writing"
    /\ \E s \in {"running", "done"} : pump' = [pump EXCEPT ![c] = s]
    /\ UNCHANGED <<up, subs, entries, handler, open, chan, pubVars, relayVars, copies>>

\* writePump: the channel is closed and drained.
PumpExit(c) ==
    /\ pump[c] = "running"
    /\ chan[c] = <<>>
    /\ c \notin open
    /\ pump' = [pump EXCEPT ![c] = "done"]
    /\ UNCHANGED <<up, subs, entries, handler, open, chan, pubVars, relayVars, copies>>

\* wg.Wait has returned: conn.Close and the end of the handler.
Finish(c) ==
    /\ handler[c] = "closing"
    /\ pump[c] = "done"
    /\ handler' = [handler EXCEPT ![c] = "gone"]
    /\ UNCHANGED <<up, subs, entries, pump, open, chan, pubVars, relayVars, copies>>

-----------------------------------------------------------------------------
(* Publishing.                                                             *)

\* Fault: the owner is not looked at.
RecipientsAnyOwner(n, e) == Subscribers(n, CollOf[e])

\* publishLocal, under the mutex: who gets e on process n.
Recipients(n, e) ==
    {c \in Subscribers(n, CollOf[e]) : OwnerOf[e] \in {Everyone, SubjectOf[c]}}

\* Fault: an unbounded buffer.
OfferAlways(e, c) ==
    /\ chan' = [chan EXCEPT ![c] = Append(@, e)]
    /\ copies' = [copies EXCEPT ![c][e] = @ + 1]

\* publishLocal, one send: select with a default branch.
Offer(e, c) ==
    IF Len(chan[c]) < Cap
    THEN /\ chan' = [chan EXCEPT ![c] = Append(@, e)]
         /\ copies' = [copies EXCEPT ![c][e] = @ + 1]
    ELSE UNCHANGED <<chan, copies>>

Publish(e) ==
    /\ up[at[e]]
    /\ pub[e] = "unborn"
    /\ pub' = [pub EXCEPT ![e] = "sending"]
    /\ todo' = [todo EXCEPT ![e] = Recipients(at[e], e)]
    /\ UNCHANGED <<up, connVars, at, relayVars, copies>>

\* Fault: a plain channel send, which waits for room.
SendBlocks(e, c) ==
    /\ pub[e] = "sending"
    /\ c \in todo[e]
    /\ c \in open
    /\ Len(chan[c]) < Cap
    /\ Offer(e, c)
    /\ todo' = [todo EXCEPT ![e] = @ \ {c}]
    /\ UNCHANGED <<up, subs, entries, handler, pump, open, pub, at, relayVars>>

Send(e, c) ==
    /\ pub[e] = "sending"
    /\ c \in todo[e]
    /\ c \in open
    /\ Offer(e, c)
    /\ todo' = [todo EXCEPT ![e] = @ \ {c}]
    /\ UNCHANGED <<up, subs, entries, handler, pump, open, pub, at, relayVars>>

\* The channel was closed after the snapshot: the send panics.  In a request
\* handler chi's Recoverer answers 500 and the rest of Publish is skipped.
SendPanics(e, c) ==
    /\ pub[e] = "sending"
    /\ c \in todo[e]
    /\ c \notin open
    /\ pub' = [pub EXCEPT ![e] = "panicked"]
    /\ todo' = [todo EXCEPT ![e] = {}]
    /\ UNCHANGED <<up, connVars, at, relayVars, copies>>

\* Every recipient was offered the event; the relay goroutine takes over.
SendDone(e) ==
    /\ pub[e] = "sending"
    /\ todo[e] = {}
    /\ pub' = [pub EXCEPT ![e] = IF HasRelay THEN "relaying" ELSE "done"]
    /\ UNCHANGED <<up, connVars, at, todo, relayVars, copies>>

\* relay.Publish: Redis hands the message to whoever is subscribed, the
\* publisher included; the publish may time out and a subscriber may miss it.
RelayPublish(e) ==
    /\ pub[e] = "relaying"
    /\ pub' = [pub EXCEPT ![e] = "done"]
    /\ \E S \in SUBSET {n \in Nodes : up[n]} :
         inbox' = [n \in Nodes |-> IF n \in S THEN inbox[n] \cup {e} ELSE inbox[n]]
    /\ UNCHANGED <<up, connVars, at, todo, rx, rxTodo, copies>>

\* Fault: the process's own messages are delivered again.
ReceiveEcho(n, e) ==
    /\ up[n]
    /\ rx[n] = {}
    /\ e \in inbox[n]
    /\ inbox' = [inbox EXCEPT ![n] = @ \ {e}]
    /\ rx' = [rx EXCEPT ![n] = {e}]
    /\ rxTodo' = [rxTodo EXCEPT ![n] = Recipients(n, e)]
    /\ UNCHANGED <<up, connVars, pubVars, copies>>

\* relay.Run: the next message; the process's own are dropped by origin id.
Receive(n, e) ==
    /\ up[n]
    /\ rx[n] = {}
    /\ e \in inbox[n]
    /\ inbox' = [inbox EXCEPT ![n] = @ \ {e}]
    /\ IF at[e] = n
       THEN UNCHANGED <<rx, rxTodo>>
       ELSE /\ rx' = [rx EXCEPT ![n] = {e}]
            /\ rxTodo' = [rxTodo EXCEPT ![n] = Recipients(n, e)]
    /\ UNCHANGED <<up, connVars, pubVars, copies>>

RelaySend(n, e, c) ==
    /\ e \in rx[n]
    /\ c \in rxTodo[n]
    /\ c \in open
    /\ Offer(e, c)
    /\ rxTodo' = [rxTodo EXCEPT ![n] = @ \ {c}]
    /\ UNCHANGED <<up, subs, entries, handler, pump, open, pubVars, inbox, rx>>

RelayDone(n) ==
    /\ rx[n] # {}
    /\ rxTodo[n] = {}
    /\ rx' = [rx EXCEPT ![n] = {}]
    /\ UNCHANGED <<up, connVars, pubVars, inbox, rxTodo, copies>>

\* The same panic in relay.Run's goroutine, where nothing recovers it: the
\* process dies with everything in its memory.
RelaySendPanics(n, c) ==
    /\ rx[n] # {}
    /\ c \in rxTodo[n]
    /\ c \notin open
    /\ up' = [up EXCEPT ![n] = FALSE]
    /\ subs' = [d \in Conns |-> IF NodeOf[d] = n THEN {} ELSE subs[d]]
    /\ entries' = [entries EXCEPT ![n] = {}]
    /\ handler' = [d \in Conns |-> IF NodeOf[d] = n THEN "gone" ELSE handler[d]]
    /\ pump' = [d \in Conns |-> IF NodeOf[d] = n THEN "done" ELSE pump[d]]
    /\ open' = {d \in open : NodeOf[d] # n}
    /\ chan' = [d \in Conns |-> IF NodeOf[d] = n THEN <<>> ELSE chan[d]]
    /\ pub' = [e \in Events |-> IF at[e] = n /\ pub[e] \in {"sending", "relaying"}
                                THEN "lost" ELSE pub[e]]
    /\ todo' = [e \in Events |-> IF at[e] = n THEN {} ELSE todo[e]]
    /\ inbox' = [inbox EXCEPT ![n] = {}]
    /\ rx' = [rx EXCEPT ![n] = {}]
    /\ rxTodo' = [rxTodo EXCEPT ![n] = {}]
    /\ UNCHANGED <<at, copies>>

-----------------------------------------------------------------------------
ConnStep(c) ==
    \/ Connect(c) \/ Close(c) \/ Forward(c) \/ WriteReturns(c) \/ PumpExit(c) \/ Finish(c)
    \/ \E col \in Collections : Subscribe(c, col) \/ Unsubscribe(c, col)

PubStep(e) ==
    \/ Publish(e) \/ SendDone(e) \/ RelayPublish(e)
    \/ \E c \in Conns : Send(e, c) \/ SendPanics(e, c)

RelayStep(n) ==
    \/ RelayDone(n)
    \/ \E e \in Events : Receive(n, e) \/ \E c \in Conns : RelaySend(n, e, c)
    \/ \E c \in Conns : RelaySendPanics(n, c)

Next ==
    \/ \E c \in Conns : ConnStep(c)
    \/ \E e \in Events : PubStep(e)
    \/ \E n \in Nodes : RelayStep(n)

Spec == Init /\ [][Next]_vars

\* Goroutines that can run are run: a send is made at once, a closed channel is
\* drained.  Nothing is assumed of clients, so a write that waits for its peer
\* may wait for ever, and the channel of an open connection may stay full.
Sending(e) == SendDone(e) \/ \E c \in Conns : Send(e, c) \/ SendPanics(e, c)
Draining(c) == handler[c] = "closing" /\ (Forward(c) \/ PumpExit(c))

Fairness ==
    /\ \A e \in Events : WF_vars(Sending(e))
    /\ \A c \in Conns : WF_vars(Draining(c)) /\ WF_vars(Finish(c))

FairSpec == Spec /\ Fairness

-----------------------------------------------------------------------------
(* Properties.                                                             *)

\* RT-13: the broker's map has an entry for a collection exactly while some
\* connection is subscribed to it; no key outlives its last subscriber.
EntriesMatchSubscribers ==
    \A n \in Nodes : entries[n] = {col \in Collections : Subscribers(n, col) # {}}

\* RT-08: only a connection whose channel is open is subscribed to anything,
\* so no snapshot taken from now on contains a connection that has closed.
SubscribersAreOpen == \A c \in Conns : subs[c] # {} => c \in open

\* An event reaches a connection's channel at most once, whichever process
\* published it: neither the relay's echo to the publisher nor a delivery on
\* another process doubles the local one.
AtMostOnce == \A c \in Conns, e \in Events : copies[c][e] <= 1

\* RT-05: an event gated to an owner is buffered only for connections of that
\* owner, on the publishing process and on the ones it was relayed to.
OnlyOwnersSeeOwned ==
    \A c \in Conns, e \in Events :
        copies[c][e] > 0 => OwnerOf[e] \in {Everyone, SubjectOf[c]}

\* RT-12: however slow or dead its subscribers are, the write handler's
\* Publish returns.
PublishReturns == \A e \in Events : pub[e] = "sending" ~> pub[e] # "sending"

\* A connection that ended is torn down, whatever was buffered for it and
\* whoever is publishing: the pump drains, sees the closed channel, wg.Wait
\* returns and no goroutine is left behind.  It takes a peer that lets a write
\* under way return, by reading on or by going away.
ClosedConnsFinish ==
    \A c \in Conns :
        WF_vars(WriteReturns(c)) => (handler[c] = "closing" ~> handler[c] = "gone")

\* handleConnect's comment: writePump "exits once Broker.Close(c) closes c's
\* event channel", whatever the peer does.  readPump may have returned for a
\* frame that is no JSON, with the socket open and its peer not reading.
TeardownNeedsNoPeer == \A c \in Conns : handler[c] = "closing" ~> handler[c] = "gone"

\* What the broker's doc says of a subscriber that cannot take an event: it
\* "simply misses the event", the publication goes on.
NoPublicationPanics == \A e \in Events : pub[e] # "panicked"
=============================================================================
