----------------------- MODULE RealtimeBroker_proofs -----------------------
(***************************************************************************)
(* Proofs about RealtimeBroker, for every number of processes, connections *)
(* and events and every channel capacity.                                  *)
(***************************************************************************)
EXTENDS RealtimeBroker, TLAPS

Allowed(c, e) == OwnerOf[e] \in {Everyone, SubjectOf[c]}

\* A channel is open exactly while its connection is being read, and only
\* then can the connection be subscribed.
ConnsFit ==
    /\ \A c \in Conns : c \in open <=> handler[c] = "reading"
    /\ SubscribersAreOpen

\* An event still to be offered to a connection has not been put there, and
\* no event is on its way to the same connection along two paths.
LocalPath ==
    \A e \in Events :
        /\ pub[e] = "unborn" => \A c \in Conns : copies[c][e] = 0
        /\ pub[e] # "sending" => todo[e] = {}
        /\ \A c \in todo[e] : NodeOf[c] = at[e] /\ copies[c][e] = 0 /\ Allowed(c, e)

NotRelayedYet ==
    \A e \in Events : pub[e] # "done" =>
        /\ \A n \in Nodes : e \notin inbox[n] /\ e \notin rx[n]
        /\ \A c \in Conns : NodeOf[c] # at[e] => copies[c][e] = 0

RelayPath ==
    \A n \in Nodes :
        /\ \A e \in inbox[n] : e \notin rx[n]
        /\ \A e \in inbox[n], c \in Conns :
              NodeOf[c] = n /\ at[e] # n => copies[c][e] = 0
        /\ \A e \in rx[n] : at[e] # n
        /\ \A e, f \in rx[n] : e = f
        /\ \A e \in rx[n], c \in rxTodo[n] :
              NodeOf[c] = n /\ copies[c][e] = 0 /\ Allowed(c, e)

Delivered == AtMostOnce /\ OnlyOwnersSeeOwned

BInv == TypeOK /\ LocalPath /\ NotRelayedYet /\ RelayPath /\ Delivered

-----------------------------------------------------------------------------
(* Type correctness.                                                       *)

\* An offer appends at most the one event, within the capacity, and counts it.
LEMMA OfferEffect ==
    ASSUME TypeOK, NEW e \in Events, NEW c \in Conns, Offer(e, c)
    PROVE  /\ chan' \in [Conns -> Seq(Events)]
           /\ \A d \in Conns : Len(chan'[d]) <= Cap
           /\ copies' \in [Conns -> [Events -> Nat]]
           /\ \A d \in Conns, f \in Events :
                 \/ copies'[d][f] = copies[d][f]
                 \/ d = c /\ f = e /\ copies'[d][f] = copies[d][f] + 1
<1> USE DEF TypeOK
<1>1. CASE Len(chan[c]) < Cap
  <2>1. /\ chan' = [chan EXCEPT ![c] = Append(chan[c], e)]
        /\ copies' = [copies EXCEPT ![c] = [copies[c] EXCEPT ![e] = copies[c][e] + 1]]
    BY <1>1 DEF Offer
  <2>2. Append(chan[c], e) \in Seq(Events) /\ Len(Append(chan[c], e)) = Len(chan[c]) + 1
    OBVIOUS
  <2>3. \A d \in Conns : chan'[d] = IF d = c THEN Append(chan[c], e) ELSE chan[d]
    BY <2>1
  <2>4. \A d \in Conns : Len(chan'[d]) <= Cap
    <3>1. Len(chan[c]) + 1 <= Cap
      BY <1>1, BrokerAssumption
    <3>2. QED
      BY <2>2, <2>3, <3>1
  <2>5. chan' \in [Conns -> Seq(Events)]
    BY <2>1, <2>2
  <2>6. [copies[c] EXCEPT ![e] = copies[c][e] + 1] \in [Events -> Nat]
    OBVIOUS
  <2>7. copies' \in [Conns -> [Events -> Nat]]
    BY <2>1, <2>6
  <2>8. \A d \in Conns, f \in Events :
           \/ copies'[d][f] = copies[d][f]
           \/ d = c /\ f = e /\ copies'[d][f] = copies[d][f] + 1
    BY <2>1
  <2>9. QED
    BY <2>4, <2>5, <2>7, <2>8
<1>2. CASE ~(Len(chan[c]) < Cap)
  BY <1>2 DEF Offer
<1>3. QED
  BY <1>1, <1>2

\* The initial state is well typed.
LEMMA InitTyped == Init => TypeOK
BY BrokerAssumption DEF Init, TypeOK

\* Every step keeps the types, and every channel within its capacity.
LEMMA StepTyped == TypeOK /\ [Next]_vars => TypeOK'
<1> SUFFICES ASSUME TypeOK, [Next]_vars PROVE TypeOK'
  OBVIOUS
<1> USE BrokerAssumption DEF TypeOK, Subscribers, Recipients,
        connVars, pubVars, relayVars
<1>1. ASSUME NEW c \in Conns, Connect(c) PROVE TypeOK'
  BY <1>1 DEF Connect
<1>2. ASSUME NEW c \in Conns, NEW col \in Collections, Subscribe(c, col) PROVE TypeOK'
  BY <1>2 DEF Subscribe
<1>3. ASSUME NEW c \in Conns, NEW col \in Collections, Unsubscribe(c, col) PROVE TypeOK'
  BY <1>3 DEF Unsubscribe
<1>4. ASSUME NEW c \in Conns, Close(c) PROVE TypeOK'
  BY <1>4 DEF Close
<1>5. ASSUME NEW c \in Conns, Forward(c) PROVE TypeOK'
  <2>1. Tail(chan[c]) \in Seq(Events) /\ Len(Tail(chan[c])) <= Cap
    BY <1>5 DEF Forward
  <2>2. \A d \in Conns : chan'[d] = IF d = c THEN Tail(chan[c]) ELSE chan[d]
    BY <1>5 DEF Forward
  <2>3. chan' \in [Conns -> Seq(Events)] /\ \A d \in Conns : Len(chan'[d]) <= Cap
    BY <1>5, <2>1, <2>2 DEF Forward
  <2>4. pump' \in [Conns -> {"none", "running", "writing", "done"}]
    BY <1>5 DEF Forward
  <2>5. QED
    BY <1>5, <2>3, <2>4 DEF Forward
<1>6. ASSUME NEW c \in Conns, WriteReturns(c) \/ PumpExit(c) PROVE TypeOK'
  <2>1. ASSUME WriteReturns(c) PROVE TypeOK'
    <3>1. pump' \in [Conns -> {"none", "running", "writing", "done"}]
      BY <2>1 DEF WriteReturns
    <3>2. QED
      BY <2>1, <3>1 DEF WriteReturns
  <2>2. ASSUME PumpExit(c) PROVE TypeOK'
    BY <2>2 DEF PumpExit
  <2>3. QED
    BY <1>6, <2>1, <2>2
<1>7. ASSUME NEW c \in Conns, Finish(c) PROVE TypeOK'
  BY <1>7 DEF Finish
<1>8. ASSUME NEW e \in Events, Publish(e) PROVE TypeOK'
  BY <1>8 DEF Publish
<1>9. ASSUME NEW e \in Events, NEW c \in Conns, Send(e, c) PROVE TypeOK'
  <2>1. Offer(e, c) /\ todo' \in [Events -> SUBSET Conns]
    BY <1>9 DEF Send
  <2>2. QED
    BY <1>9, <2>1, OfferEffect DEF Send
<1>10. ASSUME NEW e \in Events, NEW c \in Conns, SendPanics(e, c) PROVE TypeOK'
  BY <1>10 DEF SendPanics
<1>11. ASSUME NEW e \in Events, SendDone(e) PROVE TypeOK'
  BY <1>11 DEF SendDone
<1>12. ASSUME NEW e \in Events, RelayPublish(e) PROVE TypeOK'
  BY <1>12 DEF RelayPublish
<1>13. ASSUME NEW n \in Nodes, NEW e \in Events, Receive(n, e) PROVE TypeOK'
  <2>1. CASE at[e] = n
    BY <1>13, <2>1 DEF Receive
  <2>2. CASE at[e] # n
    <3>1. /\ inbox' = [inbox EXCEPT ![n] = inbox[n] \ {e}]
          /\ rx' = [rx EXCEPT ![n] = {e}]
          /\ rxTodo' = [rxTodo EXCEPT ![n] = Recipients(n, e)]
          /\ UNCHANGED <<up, connVars, pubVars, copies>>
      BY <1>13, <2>2 DEF Receive
    <3>2. Recipients(n, e) \subseteq Conns
      OBVIOUS
    <3>3. /\ inbox' \in [Nodes -> SUBSET Events]
          /\ rx' \in [Nodes -> SUBSET Events]
          /\ rxTodo' \in [Nodes -> SUBSET Conns]
      BY <3>1, <3>2
    <3>4. QED
      BY <3>1, <3>3
  <2>3. QED
    BY <2>1, <2>2
<1>14. ASSUME NEW n \in Nodes, NEW e \in Events, NEW c \in Conns, RelaySend(n, e, c)
       PROVE  TypeOK'
  <2>1. Offer(e, c) /\ rxTodo' \in [Nodes -> SUBSET Conns]
    BY <1>14 DEF RelaySend
  <2>2. QED
    BY <1>14, <2>1, OfferEffect DEF RelaySend
<1>15. ASSUME NEW n \in Nodes, RelayDone(n) PROVE TypeOK'
  BY <1>15 DEF RelayDone
<1>16. ASSUME NEW n \in Nodes, NEW c \in Conns, RelaySendPanics(n, c) PROVE TypeOK'
  BY <1>16 DEF RelaySendPanics
<1>17. CASE UNCHANGED vars
  BY <1>17 DEF vars
<1>18. QED
  BY <1>1, <1>2, <1>3, <1>4, <1>5, <1>6, <1>7, <1>8, <1>9, <1>10, <1>11, <1>12, <1>13,
     <1>14, <1>15, <1>16, <1>17 DEF Next, ConnStep, PubStep, RelayStep

\* The state stays in its types; no channel ever holds more than its capacity.
THEOREM TypeCorrect == Spec => []TypeOK
BY InitTyped, StepTyped, PTL DEF Spec

-----------------------------------------------------------------------------
(* The subscription map.                                                   *)

\* The steps that touch neither a subscription, a map entry, a handler nor a
\* channel's being open.
BesideTheMap ==
    \/ \E c \in Conns : Forward(c) \/ WriteReturns(c) \/ PumpExit(c)
    \/ \E e \in Events : PubStep(e)
    \/ \E n \in Nodes :
          RelayDone(n) \/ \E e \in Events : Receive(n, e) \/ \E c \in Conns : RelaySend(n, e, c)
    \/ UNCHANGED vars

\* The pumps, the publications and the relay's deliveries run beside the map.
LEMMA BesideTheMapKeeps ==
    ASSUME BesideTheMap
    PROVE  UNCHANGED <<subs, entries, open, handler>>
BY DEF BesideTheMap, PubStep, Forward, WriteReturns, PumpExit, Publish, Send, SendPanics, SendDone,
       RelayPublish, RelayDone, Receive, RelaySend, vars, connVars

\* The other steps, one by one.
LEMMA StepsOfTheMap ==
    ASSUME [Next]_vars
    PROVE  \/ BesideTheMap
           \/ \E c \in Conns : Connect(c) \/ Close(c) \/ Finish(c)
           \/ \E c \in Conns, col \in Collections : Subscribe(c, col) \/ Unsubscribe(c, col)
           \/ \E n \in Nodes, c \in Conns : RelaySendPanics(n, c)
BY DEF Next, ConnStep, RelayStep, BesideTheMap

\* A channel is open exactly while its connection is read, after every step.
LEMMA StepConns ==
    ASSUME TypeOK, ConnsFit, [Next]_vars
    PROVE  ConnsFit'
<1> USE BrokerAssumption DEF TypeOK, ConnsFit, SubscribersAreOpen
<1>1. ASSUME NEW c \in Conns, Connect(c) PROVE ConnsFit'
  BY <1>1 DEF Connect
<1>2. ASSUME NEW c \in Conns, NEW col \in Collections, Subscribe(c, col) PROVE ConnsFit'
  BY <1>2 DEF Subscribe
<1>3. ASSUME NEW c \in Conns, NEW col \in Collections, Unsubscribe(c, col) PROVE ConnsFit'
  BY <1>3 DEF Unsubscribe
<1>4. ASSUME NEW c \in Conns, Close(c) PROVE ConnsFit'
  BY <1>4 DEF Close
<1>5. ASSUME NEW c \in Conns, Finish(c) PROVE ConnsFit'
  BY <1>5 DEF Finish
<1>6. ASSUME NEW n \in Nodes, NEW c \in Conns, RelaySendPanics(n, c) PROVE ConnsFit'
  BY <1>6 DEF RelaySendPanics
<1>7. CASE BesideTheMap
  BY <1>7, BesideTheMapKeeps
<1>8. QED
  BY <1>1, <1>2, <1>3, <1>4, <1>5, <1>6, <1>7, StepsOfTheMap

\* SubscribersAreOpen, for every instance: no closed connection is ever found
\* in a subscriber set.
THEOREM NoClosedSubscribers == Spec => []SubscribersAreOpen
<1>1. Init => ConnsFit
  BY DEF Init, ConnsFit, SubscribersAreOpen
<1>2. TypeOK /\ ConnsFit /\ [Next]_vars => ConnsFit'
  BY StepConns
<1>3. ConnsFit => SubscribersAreOpen
  BY DEF ConnsFit
<1>4. QED
  BY <1>1, <1>2, <1>3, TypeCorrect, PTL DEF Spec

\* The map's keys match the subscriber sets after every step.
LEMMA StepEntries ==
    ASSUME TypeOK, EntriesMatchSubscribers, [Next]_vars
    PROVE  EntriesMatchSubscribers'
<1> USE BrokerAssumption DEF TypeOK, EntriesMatchSubscribers, Subscribers
<1>1. ASSUME NEW c \in Conns, Connect(c) \/ Finish(c) PROVE EntriesMatchSubscribers'
  BY <1>1 DEF Connect, Finish
<1>2. ASSUME NEW c \in Conns, NEW col \in Collections, Subscribe(c, col)
      PROVE  EntriesMatchSubscribers'
  BY <1>2 DEF Subscribe
<1>3. ASSUME NEW c \in Conns, NEW col \in Collections, Unsubscribe(c, col)
      PROVE  EntriesMatchSubscribers'
  BY <1>3 DEF Unsubscribe
<1>4. ASSUME NEW c \in Conns, Close(c) PROVE EntriesMatchSubscribers'
  BY <1>4 DEF Close
<1>6. ASSUME NEW n \in Nodes, NEW c \in Conns, RelaySendPanics(n, c)
      PROVE  EntriesMatchSubscribers'
  <2> SUFFICES ASSUME NEW m \in Nodes
               PROVE  (entries[m] = {col \in Collections : Subscribers(m, col) # {}})'
    OBVIOUS
  <2>1. /\ entries' = [entries EXCEPT ![n] = {}]
        /\ \A d \in Conns : subs'[d] = IF NodeOf[d] = n THEN {} ELSE subs[d]
    BY <1>6 DEF RelaySendPanics
  <2>2. CASE m = n
    BY <2>1, <2>2
  <2>3. CASE m # n
    <3>1. entries'[m] = entries[m]
      BY <2>1, <2>3
    <3>2. \A d \in Conns : NodeOf[d] = m => subs'[d] = subs[d]
      BY <2>1, <2>3
    <3>3. \A col \in Collections : Subscribers(m, col)' = Subscribers(m, col)
      BY <3>2
    <3>4. QED
      BY <3>1, <3>3
  <2>4. QED
    BY <2>2, <2>3
<1>7. CASE BesideTheMap
  BY <1>7, BesideTheMapKeeps
<1>8. QED
  BY <1>1, <1>2, <1>3, <1>4, <1>6, <1>7, StepsOfTheMap

\* RT-13 for every instance: the broker's map never keeps an entry for a
\* collection nobody is subscribed to, nor lacks one somebody is.
THEOREM MapIsPruned == Spec => []EntriesMatchSubscribers
<1>1. Init => EntriesMatchSubscribers
  BY DEF Init, EntriesMatchSubscribers, Subscribers
<1>2. TypeOK /\ EntriesMatchSubscribers /\ [Next]_vars => EntriesMatchSubscribers'
  BY StepEntries
<1>3. QED
  BY <1>1, <1>2, TypeCorrect, PTL DEF Spec
-----------------------------------------------------------------------------
(* Where an event has been and may still go.                               *)

\* What a connection does leaves every publication, relay message and copy
\* alone.
LEMMA ConnStepsKeepPaths ==
    ASSUME BInv, NEW c \in Conns, ConnStep(c)
    PROVE  BInv'
<1>1. TypeOK'
  BY StepTyped DEF BInv, Next
<1>2. UNCHANGED <<up, pubVars, relayVars, copies>>
  BY DEF ConnStep, Connect, Subscribe, Unsubscribe, Close, Forward, WriteReturns, PumpExit, Finish
<1>3. QED
  BY <1>1, <1>2 DEF BInv, pubVars, relayVars, LocalPath, NotRelayedYet, RelayPath,
                    Delivered, AtMostOnce, OnlyOwnersSeeOwned, Allowed

\* A snapshot holds only allowed connections of the publishing process, and
\* the event is nowhere yet.
LEMMA PublishKeepsPaths ==
    ASSUME BInv, NEW e \in Events, Publish(e)
    PROVE  BInv'
<1> USE BrokerAssumption DEF BInv, TypeOK, Publish, pubVars, relayVars, Allowed,
        Recipients, Subscribers
<1>1. TypeOK'
  BY StepTyped DEF Next, PubStep
<1>4. LocalPath'
  BY <1>1 DEF LocalPath
<1>5. NotRelayedYet'
  BY <1>1 DEF NotRelayedYet, RelayPath, LocalPath
<1>6. RelayPath'
  BY <1>1 DEF RelayPath, NotRelayedYet
<1>7. Delivered'
  BY <1>1 DEF Delivered, AtMostOnce, OnlyOwnersSeeOwned
<1>8. QED
  BY <1>1, <1>4, <1>5, <1>6, <1>7

\* A local send puts the event where it had not been, on the local path only.
LEMMA SendKeepsPaths ==
    ASSUME BInv, NEW e \in Events, NEW c \in Conns, Send(e, c)
    PROVE  BInv'
<1>1. TypeOK'
  BY StepTyped DEF BInv, Next, PubStep
<1>2. \A d \in Conns, f \in Events :
         \/ copies'[d][f] = copies[d][f]
         \/ d = c /\ f = e /\ copies'[d][f] = copies[d][f] + 1
  BY OfferEffect DEF BInv, Send
<1>3. /\ copies[c][e] = 0 /\ Allowed(c, e) /\ NodeOf[c] = at[e] /\ pub[e] = "sending"
      /\ \A m \in Nodes : e \notin inbox[m] /\ e \notin rx[m]
  BY DEF BInv, Send, LocalPath, NotRelayedYet
<1>9. /\ UNCHANGED <<pub, at, inbox, rx, rxTodo>>
      /\ \A f \in Events : todo'[f] = IF f = e THEN todo[e] \ {c} ELSE todo[f]
  BY DEF BInv, TypeOK, Send, relayVars
<1>10. /\ \A f \in Events : todo[f] \subseteq Conns
       /\ \A m \in Nodes : inbox[m] \subseteq Events /\ rx[m] \subseteq Events
       /\ \A m \in Nodes : rxTodo[m] \subseteq Conns
  BY DEF BInv, TypeOK
<1>4. LocalPath'
  <2>1. ASSUME NEW f \in Events
        PROVE  (pub[f] = "unborn" => \A d \in Conns : copies[d][f] = 0)'
    BY <1>2, <1>3, <1>9 DEF BInv, LocalPath
  <2>2. ASSUME NEW f \in Events
        PROVE  (pub[f] # "sending" => todo[f] = {})'
    BY <1>3, <1>9 DEF BInv, LocalPath
  <2>3. ASSUME NEW f \in Events, NEW d \in todo'[f]
        PROVE  NodeOf[d] = at[f] /\ copies'[d][f] = 0 /\ Allowed(d, f)
    <3>1. d \in todo[f] /\ d \in Conns /\ ~(d = c /\ f = e)
      BY <1>3, <1>9, <1>10, <2>3 DEF BInv, LocalPath
    <3>2. QED
      BY <1>2, <3>1 DEF BInv, LocalPath
  <2>4. QED
    BY <1>9, <2>1, <2>2, <2>3 DEF LocalPath, Allowed
<1>5. NotRelayedYet'
  BY <1>2, <1>3, <1>9 DEF BInv, NotRelayedYet
<1>6. RelayPath'
  <2>1. \A m \in Nodes, d \in Conns : \A f \in inbox[m] \cup rx[m] : copies'[d][f] = copies[d][f]
    BY <1>2, <1>3, <1>10
  <2>2. QED
    BY <1>9, <1>10, <2>1 DEF BInv, RelayPath, Allowed
<1>7. Delivered'
  <2>1. AtMostOnce'
    BY <1>2, <1>3 DEF BInv, Delivered, AtMostOnce
  <2>2. OnlyOwnersSeeOwned'
    BY <1>2, <1>3 DEF BInv, Delivered, OnlyOwnersSeeOwned, Allowed
  <2>3. QED
    BY <2>1, <2>2 DEF Delivered
<1>8. QED
  BY <1>1, <1>4, <1>5, <1>6, <1>7 DEF BInv

\* A panicking publication forgets its snapshot and is never relayed.
LEMMA SendPanicsKeepsPaths ==
    ASSUME BInv, NEW e \in Events, NEW c \in Conns, SendPanics(e, c)
    PROVE  BInv'
<1> USE BrokerAssumption DEF BInv, TypeOK, SendPanics, pubVars, relayVars, Allowed
<1>1. TypeOK'
  BY StepTyped DEF Next, PubStep
<1>4. LocalPath'
  BY <1>1 DEF LocalPath
<1>5. NotRelayedYet'
  BY <1>1 DEF NotRelayedYet, RelayPath, LocalPath
<1>6. RelayPath'
  BY <1>1 DEF RelayPath, NotRelayedYet
<1>7. Delivered'
  BY <1>1 DEF Delivered, AtMostOnce, OnlyOwnersSeeOwned
<1>8. QED
  BY <1>1, <1>4, <1>5, <1>6, <1>7

\* Ending the local sends moves no event.
LEMMA SendDoneKeepsPaths ==
    ASSUME BInv, NEW e \in Events, SendDone(e)
    PROVE  BInv'
<1> USE BrokerAssumption DEF BInv, TypeOK, SendDone, pubVars, relayVars, Allowed
<1>1. TypeOK'
  BY StepTyped DEF Next, PubStep
<1>4. LocalPath'
  BY <1>1 DEF LocalPath
<1>5. NotRelayedYet'
  BY <1>1 DEF NotRelayedYet, RelayPath, LocalPath
<1>6. RelayPath'
  BY <1>1 DEF RelayPath, NotRelayedYet
<1>7. Delivered'
  BY <1>1 DEF Delivered, AtMostOnce, OnlyOwnersSeeOwned
<1>8. QED
  BY <1>1, <1>4, <1>5, <1>6, <1>7

\* The event enters inboxes when no relay has had it and no connection of
\* another process has a copy.
LEMMA RelayPublishKeepsPaths ==
    ASSUME BInv, NEW e \in Events, RelayPublish(e)
    PROVE  BInv'
<1>1. TypeOK'
  BY StepTyped DEF BInv, Next, PubStep
<1>2. /\ pub[e] = "relaying" /\ UNCHANGED <<at, todo, rx, rxTodo, copies>>
      /\ \A f \in Events : pub'[f] = IF f = e THEN "done" ELSE pub[f]
      /\ \A n \in Nodes : inbox[n] \subseteq inbox'[n] /\ inbox'[n] \subseteq inbox[n] \cup {e}
  BY DEF BInv, TypeOK, RelayPublish
<1>3. /\ \A c \in Conns : NodeOf[c] # at[e] => copies[c][e] = 0
      /\ \A n \in Nodes : e \notin rx[n]
  BY <1>2 DEF BInv, NotRelayedYet
<1>4. LocalPath'
  BY <1>2 DEF BInv, LocalPath, Allowed
<1>5. NotRelayedYet'
  BY <1>2 DEF BInv, NotRelayedYet
<1>6. RelayPath'
  BY <1>2, <1>3 DEF BInv, RelayPath, Allowed
<1>7. Delivered'
  BY <1>2 DEF BInv, Delivered, AtMostOnce, OnlyOwnersSeeOwned
<1>8. QED
  BY <1>1, <1>4, <1>5, <1>6, <1>7 DEF BInv

\* The relay's snapshot holds only allowed connections without a copy; the
\* publisher's own message goes nowhere.
LEMMA ReceiveKeepsPaths ==
    ASSUME BInv, NEW n \in Nodes, NEW e \in Events, Receive(n, e)
    PROVE  BInv'
<1> USE BrokerAssumption DEF BInv, TypeOK, Receive, pubVars, relayVars, Allowed,
        Recipients, Subscribers
<1>1. TypeOK'
  BY StepTyped DEF Next, RelayStep
<1>4. LocalPath'
  BY <1>1 DEF LocalPath
<1>5. NotRelayedYet'
  BY <1>1 DEF NotRelayedYet, RelayPath, LocalPath
<1>6. RelayPath'
  BY <1>1 DEF RelayPath, NotRelayedYet
<1>7. Delivered'
  BY <1>1 DEF Delivered, AtMostOnce, OnlyOwnersSeeOwned
<1>8. QED
  BY <1>1, <1>4, <1>5, <1>6, <1>7

\* A relayed send puts the event where it had not been.
LEMMA RelaySendKeepsPaths ==
    ASSUME BInv, NEW n \in Nodes, NEW e \in Events, NEW c \in Conns, RelaySend(n, e, c)
    PROVE  BInv'
<1>1. TypeOK'
  BY StepTyped DEF BInv, Next, RelayStep
<1>2. \A d \in Conns, f \in Events :
         \/ copies'[d][f] = copies[d][f]
         \/ d = c /\ f = e /\ copies'[d][f] = copies[d][f] + 1
  BY OfferEffect DEF BInv, RelaySend
<1>3. /\ copies[c][e] = 0 /\ Allowed(c, e) /\ NodeOf[c] = n /\ at[e] # n
      /\ pub[e] = "done" /\ e \notin inbox[n] /\ e \in rx[n]
  BY DEF BInv, RelaySend, RelayPath, NotRelayedYet
<1>9. /\ UNCHANGED <<pub, at, todo, inbox, rx>>
      /\ \A m \in Nodes : rxTodo'[m] = IF m = n THEN rxTodo[n] \ {c} ELSE rxTodo[m]
  BY DEF BInv, TypeOK, RelaySend, pubVars
<1>10. /\ \A f \in Events : todo[f] \subseteq Conns
       /\ \A m \in Nodes : inbox[m] \subseteq Events /\ rx[m] \subseteq Events
       /\ \A m \in Nodes : rxTodo[m] \subseteq Conns
  BY DEF BInv, TypeOK
<1>4. LocalPath'
  <2>1. ASSUME NEW f \in Events
        PROVE  (pub[f] = "unborn" => \A d \in Conns : copies[d][f] = 0)'
    BY <1>2, <1>3, <1>9 DEF BInv, LocalPath
  <2>2. ASSUME NEW f \in Events
        PROVE  (pub[f] # "sending" => todo[f] = {})'
    BY <1>3, <1>9 DEF BInv, LocalPath
  <2>3. ASSUME NEW f \in Events, NEW d \in todo'[f]
        PROVE  NodeOf[d] = at[f] /\ copies'[d][f] = 0 /\ Allowed(d, f)
    <3>1. d \in todo[f] /\ d \in Conns /\ ~(d = c /\ f = e)
      BY <1>3, <1>9, <1>10, <2>3 DEF BInv, LocalPath
    <3>2. QED
      BY <1>2, <3>1 DEF BInv, LocalPath
  <2>4. QED
    BY <1>9, <2>1, <2>2, <2>3 DEF LocalPath, Allowed
<1>5. NotRelayedYet'
  BY <1>2, <1>3, <1>9 DEF BInv, NotRelayedYet
<1>6. RelayPath'
  <2>1. ASSUME NEW m \in Nodes, NEW f \in rx[m], NEW d \in rxTodo'[m]
        PROVE  NodeOf[d] = m /\ copies'[d][f] = 0 /\ Allowed(d, f)
    <3>1. d \in rxTodo[m] /\ d \in Conns /\ f \in Events
      BY <1>9, <2>1 DEF BInv, TypeOK
    <3>2. NodeOf[d] = m /\ copies[d][f] = 0 /\ Allowed(d, f)
      BY <2>1, <3>1 DEF BInv, RelayPath
    <3>3. ~(d = c /\ f = e)
      BY <1>3, <1>9, <2>1, <3>2
    <3>4. QED
      BY <1>2, <3>1, <3>2, <3>3
  <2>2. ASSUME NEW m \in Nodes, NEW f \in inbox[m], NEW d \in Conns,
               NodeOf[d] = m, at[f] # m
        PROVE  copies'[d][f] = 0
    <3>1. f \in Events /\ copies[d][f] = 0 /\ ~(d = c /\ f = e)
      BY <1>3, <2>2 DEF BInv, TypeOK, RelayPath
    <3>2. QED
      BY <1>2, <3>1
  <2>3. QED
    BY <1>9, <2>1, <2>2 DEF BInv, RelayPath, Allowed
<1>7. Delivered'
  <2>1. AtMostOnce'
    BY <1>2, <1>3 DEF BInv, Delivered, AtMostOnce
  <2>2. OnlyOwnersSeeOwned'
    BY <1>2, <1>3 DEF BInv, Delivered, OnlyOwnersSeeOwned, Allowed
  <2>3. QED
    BY <2>1, <2>2 DEF Delivered
<1>8. QED
  BY <1>1, <1>4, <1>5, <1>6, <1>7 DEF BInv

\* Ending a delivery moves no event.
LEMMA RelayDoneKeepsPaths ==
    ASSUME BInv, NEW n \in Nodes, RelayDone(n)
    PROVE  BInv'
<1> USE BrokerAssumption DEF BInv, TypeOK, RelayDone, pubVars, relayVars, Allowed
<1>1. TypeOK'
  BY StepTyped DEF Next, RelayStep
<1>4. LocalPath'
  BY <1>1 DEF LocalPath
<1>5. NotRelayedYet'
  BY <1>1 DEF NotRelayedYet, RelayPath, LocalPath
<1>6. RelayPath'
  BY <1>1 DEF RelayPath, NotRelayedYet
<1>7. Delivered'
  BY <1>1 DEF Delivered, AtMostOnce, OnlyOwnersSeeOwned
<1>8. QED
  BY <1>1, <1>4, <1>5, <1>6, <1>7

\* A dead process keeps no snapshot and no message.
LEMMA RelaySendPanicsKeepsPaths ==
    ASSUME BInv, NEW n \in Nodes, NEW c \in Conns, RelaySendPanics(n, c)
    PROVE  BInv'
<1> USE BrokerAssumption DEF BInv, TypeOK, RelaySendPanics, pubVars, relayVars, Allowed
<1>1. TypeOK'
  BY StepTyped DEF Next, RelayStep
<1>4. LocalPath'
  BY <1>1 DEF LocalPath
<1>5. NotRelayedYet'
  BY <1>1 DEF NotRelayedYet, RelayPath, LocalPath
<1>6. RelayPath'
  BY <1>1 DEF RelayPath, NotRelayedYet
<1>7. Delivered'
  BY <1>1 DEF Delivered, AtMostOnce, OnlyOwnersSeeOwned
<1>8. QED
  BY <1>1, <1>4, <1>5, <1>6, <1>7

\* The inductive invariant behind the delivery guarantees.
THEOREM PathsInvariant == Spec => []BInv
<1>1. Init => BInv
  BY InitTyped DEF Init, BInv, LocalPath, NotRelayedYet, RelayPath, Delivered,
                   AtMostOnce, OnlyOwnersSeeOwned
<1>2. BInv /\ [Next]_vars => BInv'
  <2> SUFFICES ASSUME BInv, [Next]_vars PROVE BInv'
    OBVIOUS
  <2>1. CASE UNCHANGED vars
    BY <2>1, StepTyped DEF vars, connVars, pubVars, relayVars, BInv, LocalPath,
          NotRelayedYet, RelayPath, Delivered, AtMostOnce, OnlyOwnersSeeOwned, Allowed
  <2>2. CASE Next
    BY <2>2, ConnStepsKeepPaths, PublishKeepsPaths, SendKeepsPaths, SendPanicsKeepsPaths,
       SendDoneKeepsPaths, RelayPublishKeepsPaths, ReceiveKeepsPaths, RelaySendKeepsPaths,
       RelayDoneKeepsPaths, RelaySendPanicsKeepsPaths DEF Next, PubStep, RelayStep
  <2>3. QED
    BY <2>1, <2>2
<1>3. QED
  BY <1>1, <1>2, PTL DEF Spec

\* AtMostOnce, for any number of processes: no event is put twice in the same
\* connection's channel, whatever the relay echoes, loses or delays.
THEOREM NoDuplicates == Spec => []AtMostOnce
<1>1. BInv => AtMostOnce
  BY DEF BInv, Delivered
<1>2. QED
  BY <1>1, PathsInvariant, PTL

\* RT-05 for every instance: an event gated to an owner is buffered for no
\* connection of another subject, published locally or relayed.
THEOREM OwnedEventsStayPrivate == Spec => []OnlyOwnersSeeOwned
<1>1. BInv => OnlyOwnersSeeOwned
  BY DEF BInv, Delivered
<1>2. QED
  BY <1>1, PathsInvariant, PTL
=============================================================================
