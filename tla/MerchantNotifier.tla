-------------------------- MODULE MerchantNotifier --------------------------
(***************************************************************************)
(* The screens of the shop are told of paid orders over WebSockets         *)
(* (app/ws/manager.py and the gateway /ws/merchant).  Every process has a  *)
(* notifier with a bounded queue and a sender task for each of its         *)
(* screens.  A message goes to all processes through a Redis channel, or,  *)
(* when the notifier has no Redis, to the screens of its own process.      *)
(* There is no acknowledgement: a screen that connects is sent the orders  *)
(* paid lately, and must then hear of every later one.                     *)
(***************************************************************************)
EXTENDS Integers, Sequences, Functions

CONSTANTS
  Process,     \* API processes and Celery workers
  Api,         \* those whose lifespan starts the notifier, which serve screens
  Payer,       \* those that broadcast: tills are served by the first, effects by the second
  Screen, Message,
  BufferSize,  \* settings.merchant_ws_buffer_size
  Faults       \* FALSE: nothing fails (for the run about healthy processes)

ASSUME NotifierAssumption ==
  /\ Process # {} /\ Api \subseteq Process /\ Payer \subseteq Process
  /\ BufferSize \in Nat \ {0} /\ Faults \in BOOLEAN

VARIABLES
  notifier,   \* of each process: "down", started as "local", or "redis": it can publish
  listener,   \* the listener task: "off", "starting" (not yet subscribed), "on"
  wire,       \* what Redis has sent to the subscription of a process
  screen,     \* the connection of each screen
  order,      \* the order of each message, and how far its broadcast is
  missedBy    \* history: processes a broadcast could not reach when it was made

notifierVars == <<notifier, listener, wire, screen, order, missedBy>>

NotifierTypeOK ==
  /\ notifier \in [Process -> {"down", "local", "redis"}]
  /\ listener \in [Process -> {"off", "starting", "on"}]
  /\ \A p \in Process : wire[p] \in Seq(Message)
  /\ \A s \in Screen :
       /\ screen[s].at \in {"away", "joining", "ready", "lost"}
       /\ screen[s].of \in Process
       /\ Len(screen[s].queue) <= BufferSize
       /\ screen[s].sending \subseteq Message
       /\ screen[s].shown \cup screen[s].dropped \subseteq Message
  /\ \A m \in Message :
       /\ order[m].at \in {"unpaid", "paid", "fallback", "told"}
       /\ order[m].by \in Process /\ order[m].recent \in BOOLEAN
       /\ missedBy[m] \subseteq Process

Away == [at |-> "away", of |-> CHOOSE p \in Process : TRUE, queue |-> <<>>, sending |-> {},
         shown |-> {}, dropped |-> {}]

Unpaid == [at |-> "unpaid", by |-> CHOOSE p \in Process : TRUE, recent |-> FALSE]

NotifierInit ==
  /\ notifier = [p \in Process |-> "down"]
  /\ listener = [p \in Process |-> "off"]
  /\ wire = [p \in Process |-> <<>>]
  /\ screen = [s \in Screen |-> Away]
  /\ order = [m \in Message |-> Unpaid]
  /\ missedBy = [m \in Message |-> {}]

Registered(s, p) == screen[s].of = p /\ screen[s].at # "away"

-----------------------------------------------------------------------------
(* The notifier of a process                                               *)

\* startup(), called by the lifespan of the API only: a failing ping leaves the notifier
\* without Redis for good.
Startup(p) ==
  /\ p \in Api /\ notifier[p] = "down"
  /\ \/ /\ notifier' = [notifier EXCEPT ![p] = "redis"]
        /\ listener' = [listener EXCEPT ![p] = "starting"]
     \/ Faults /\ notifier' = [notifier EXCEPT ![p] = "local"] /\ UNCHANGED listener
  /\ UNCHANGED <<wire, screen, order, missedBy>>

Subscribe(p) ==
  /\ listener[p] = "starting"
  /\ listener' = [listener EXCEPT ![p] = "on"]
  /\ UNCHANGED <<notifier, wire, screen, order, missedBy>>

\* Any error of the subscription ends the listener task; the publisher stays.
ListenerError(p) ==
  /\ Faults /\ listener[p] # "off"
  /\ listener' = [listener EXCEPT ![p] = "off"]
  /\ missedBy' = [m \in Message |-> IF m \in Range(wire[p]) THEN missedBy[m] \cup {p}
                                   ELSE missedBy[m]]
  /\ wire' = [wire EXCEPT ![p] = <<>>]
  /\ UNCHANGED <<notifier, screen, order>>

\* shutdown(), or the end of the process: what it has not broadcast is never broadcast.
Stop(p) ==
  LET mute == {m \in Message : order[m].by = p /\ order[m].at \in {"paid", "fallback"}} IN
  /\ Faults
  /\ notifier[p] # "down"
  /\ notifier' = [notifier EXCEPT ![p] = "down"]
  /\ listener' = [listener EXCEPT ![p] = "off"]
  /\ wire' = [wire EXCEPT ![p] = <<>>]
  /\ screen' = [s \in Screen |-> IF screen[s].of = p THEN Away ELSE screen[s]]
  /\ order' = [m \in Message |-> IF m \in mute THEN [order[m] EXCEPT !.at = "told"] ELSE order[m]]
  /\ missedBy' = [m \in Message |-> IF m \in mute THEN Process ELSE missedBy[m]]

-----------------------------------------------------------------------------
(* Broadcasts                                                              *)

\* An order is committed as paid by process p, which broadcasts it afterwards.
OrderPaid(m, p) ==
  /\ order[m].at = "unpaid" /\ p \in Payer
  /\ p \in Api => notifier[p] # "down"
  /\ order' = [order EXCEPT ![m] = [at |-> "paid", by |-> p, recent |-> TRUE]]
  /\ UNCHANGED <<notifier, listener, wire, screen, missedBy>>

\* The order leaves what the snapshot selects: it is produced, or minutes have passed.
OrderAges(m) ==
  /\ order[m].recent
  /\ order' = [order EXCEPT ![m].recent = FALSE]
  /\ UNCHANGED <<notifier, listener, wire, screen, missedBy>>

QueuedUnbounded(c, m) == [c EXCEPT !.queue = Append(@, m)]

\* A full queue loses its oldest message.
Queued(c, m) ==
  LET full == Len(c.queue) = BufferSize IN
  [c EXCEPT !.queue = Append(IF full THEN Tail(@) ELSE @, m),
            !.dropped = IF full THEN @ \cup {Head(c.queue)} ELSE @]

BroadcastLocal(p, m) ==
  screen' = [s \in Screen |-> IF Registered(s, p) THEN Queued(screen[s], m) ELSE screen[s]]

Deaf == {p \in Process : listener[p] # "on"}

Send(m) == wire' = [p \in Process |-> IF p \in Deaf THEN wire[p] ELSE Append(wire[p], m)]

Told(m, missed) ==
  /\ order' = [order EXCEPT ![m].at = "told"]
  /\ missedBy' = [missedBy EXCEPT ![m] = missed]

Publish(m) ==
  /\ order[m].at = "paid" /\ notifier[order[m].by] = "redis"
  /\ Send(m)
  /\ Told(m, Deaf)
  /\ UNCHANGED <<notifier, listener, screen>>

\* A Redis error, which may come after Redis has taken the message.
PublishFails(m) ==
  /\ Faults /\ order[m].at = "paid" /\ notifier[order[m].by] = "redis"
  /\ Send(m) \/ UNCHANGED wire
  /\ order' = [order EXCEPT ![m].at = "fallback"]
  /\ missedBy' = [missedBy EXCEPT ![m] = IF wire' = wire THEN Process ELSE Deaf]
  /\ UNCHANGED <<notifier, listener, screen>>

FallbackNothing(m) ==
  /\ order[m].at = "fallback" \/ (order[m].at = "paid" /\ notifier[order[m].by] # "redis")
  /\ Told(m, (IF order[m].at = "paid" THEN Process ELSE missedBy[m]) \ {order[m].by})
  /\ UNCHANGED <<notifier, listener, wire, screen>>

\* Without a publisher, or after its error: the screens of this process only.
Fallback(m) ==
  LET p == order[m].by IN
  /\ order[m].at = "fallback" \/ (order[m].at = "paid" /\ notifier[p] # "redis")
  /\ BroadcastLocal(p, m)
  /\ Told(m, (IF order[m].at = "paid" THEN Process ELSE missedBy[m]) \ {p})
  /\ UNCHANGED <<notifier, listener, wire>>

\* The listener hands a message to the screens of its process.
Hear(p) ==
  /\ listener[p] = "on" /\ wire[p] # <<>>
  /\ BroadcastLocal(p, Head(wire[p]))
  /\ wire' = [wire EXCEPT ![p] = Tail(@)]
  /\ UNCHANGED <<notifier, listener, order, missedBy>>

-----------------------------------------------------------------------------
(* Screens                                                                 *)

Set(s, c) == screen' = [screen EXCEPT ![s] = c]

OthersUnchanged == UNCHANGED <<notifier, listener, wire, order, missedBy>>

\* accept() and register(): from now on messages are queued.
Register(s, p) ==
  /\ screen[s].at = "away" /\ notifier[p] # "down"
  /\ Set(s, [Away EXCEPT !.at = "joining", !.of = p])
  /\ OthersUnchanged

\* _send_recent_orders().  Orders that are no longer recent are not owed to this screen.
Snapshot(s) ==
  LET paid == {m \in Message : order[m].at # "unpaid"}
      recent == {m \in Message : order[m].recent}
  IN /\ screen[s].at = "joining"
     /\ Set(s, [screen[s] EXCEPT !.at = "ready", !.shown = @ \cup recent,
                                 !.dropped = @ \cup (paid \ recent)])
     /\ OthersUnchanged

\* The gateway fails before its loop: nobody unregisters the connection.
JoinFails(s) ==
  /\ Faults /\ screen[s].at = "joining"
  /\ Set(s, [screen[s] EXCEPT !.at = "lost"])
  /\ OthersUnchanged

\* The sender task takes a message from the queue ...
Take(s) ==
  LET c == screen[s] IN
  /\ c.at # "away" /\ c.sending = {} /\ c.queue # <<>>
  /\ Set(s, [c EXCEPT !.sending = {Head(c.queue)}, !.queue = Tail(@)])
  /\ OthersUnchanged

\* ... and sends it;
Show(s) ==
  LET c == screen[s] IN
  /\ c.at \in {"joining", "ready"} /\ c.sending # {}
  /\ Set(s, [c EXCEPT !.sending = {}, !.shown = @ \cup c.sending])
  /\ OthersUnchanged

\* or it fails or takes too long, and the connection is closed and unregistered, as a closed
\* one is when a broadcast comes upon it.
SendFails(s) ==
  LET c == screen[s] IN
  /\ c.sending # {} /\ (c.at = "lost" \/ Faults)
  /\ Set(s, Away)
  /\ OthersUnchanged

\* The browser leaves, or answers no ping within the grace of the heartbeat: unregister().
Leave(s) ==
  /\ Faults /\ screen[s].at = "ready"
  /\ Set(s, Away)
  /\ OthersUnchanged

NotifierNext ==
  \/ \E p \in Process : Startup(p) \/ Subscribe(p) \/ ListenerError(p) \/ Stop(p) \/ Hear(p)
  \/ \E m \in Message :
       \/ \E p \in Process : OrderPaid(m, p)
       \/ OrderAges(m) \/ Publish(m) \/ PublishFails(m) \/ Fallback(m)
  \/ \E s \in Screen :
       \/ \E p \in Api : Register(s, p)
       \/ Snapshot(s) \/ JoinFails(s) \/ Take(s) \/ Show(s) \/ SendFails(s) \/ Leave(s)

NotifierSpec == NotifierInit /\ [][NotifierNext]_notifierVars

\* The tasks of the event loops run on, and so do requests that are under way.
NotifierFairness ==
  /\ \A p \in Process : WF_notifierVars(Subscribe(p)) /\ WF_notifierVars(Hear(p))
  /\ \A m \in Message : WF_notifierVars(Publish(m) \/ PublishFails(m))
                        /\ WF_notifierVars(Fallback(m))
  /\ \A s \in Screen : WF_notifierVars(Snapshot(s)) /\ WF_notifierVars(Take(s))
                       /\ WF_notifierVars(Show(s) \/ SendFails(s))

NotifierFairSpec == NotifierSpec /\ NotifierFairness

-----------------------------------------------------------------------------
(* Properties                                                              *)

\* On its way to a screen: the broadcast is not over, or the message waits in Redis, in the
\* queue of the screen or with its sender.
OnItsWay(m, s) ==
  \/ order[m].at \in {"paid", "fallback"}
  \/ m \in Range(wire[screen[s].of]) \cup Range(screen[s].queue) \cup screen[s].sending

\* A screen that is connected has seen every paid order or will be shown it, unless its queue
\* overflowed, the order was no longer recent when it connected, or its process did not hear
\* Redis when the order was broadcast.  Between the snapshot and the queue nothing is lost.
NoGap ==
  \A s \in Screen, m \in Message :
    screen[s].at = "ready" /\ order[m].at # "unpaid" =>
      \/ m \in screen[s].shown \cup screen[s].dropped
      \/ OnItsWay(m, s)
      \/ screen[s].of \in missedBy[m]

\* While nothing fails, an order that is paid is shown on the screens that are connected.
PaidIsShown ==
  \A s \in Screen, m \in Message :
    order[m].at = "paid" /\ screen[s].at = "ready"
      ~> m \in screen[s].shown \cup screen[s].dropped
=============================================================================
