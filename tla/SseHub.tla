------------------------------- MODULE SseHub -------------------------------
(***************************************************************************)
(* The hub of gateway-backend-service between the events of the scheduler  *)
(* and the pages open in browsers: SSEHub (sse_hub.py) and the handler of  *)
(* /api/events (app.py).  Each page has a bounded queue, from which the    *)
(* newest event pushes out the oldest.                                     *)
(*                                                                         *)
(* The gateway is one event loop.  A step is what a coroutine does between *)
(* two suspensions; the lock of the hub is never held across one.          *)
(***************************************************************************)
EXTENDS Integers, Sequences

CONSTANTS
    Pages,       \* pages open in browsers
    Viewed,      \* page -> tasks of the user who opened it
    NoEvent,
    HubSize,     \* maxsize of a queue: 200
    MaxPages     \* bound: times a page is opened

ASSUME HubAssumption ==
    /\ HubSize \in Nat \ {0}
    /\ MaxPages \in Nat
    /\ DOMAIN Viewed = Pages

VARIABLES
    page,       \* where the generator of a page is; "off" without one
    queue,      \* its queue, in _queues unless it is "off"
    carried,    \* the event it is sending
    shown,      \* history: events sent since the page was opened
    offered,    \* history: events published for it since
    visits

hubVars == <<page, queue, carried, shown, offered, visits>>

HubInit ==
    /\ page = [b \in Pages |-> "off"]
    /\ queue = [b \in Pages |-> <<>>]
    /\ carried = [b \in Pages |-> NoEvent]
    /\ shown = [b \in Pages |-> <<>>]
    /\ offered = [b \in Pages |-> <<>>]
    /\ visits = 0

Forget(b) ==
    /\ page' = [page EXCEPT ![b] = "off"]
    /\ queue' = [queue EXCEPT ![b] = <<>>]
    /\ carried' = [carried EXCEPT ![b] = NoEvent]
    /\ shown' = [shown EXCEPT ![b] = <<>>]
    /\ offered' = [offered EXCEPT ![b] = <<>>]
    /\ UNCHANGED visits

-----------------------------------------------------------------------------
\* event_stream: it subscribes and sends the comment that it is connected.
Connect(b) ==
    /\ page[b] = "off" /\ visits < MaxPages
    /\ page' = [page EXCEPT ![b] = "send"]
    /\ visits' = visits + 1
    /\ UNCHANGED <<queue, carried, shown, offered>>

\* A browser that does not keep up holds the generator there.
Send(b) ==
    /\ page[b] = "send"
    /\ shown' = IF carried[b] = NoEvent THEN shown
                ELSE [shown EXCEPT ![b] = Append(@, carried[b])]
    /\ carried' = [carried EXCEPT ![b] = NoEvent]
    /\ page' = [page EXCEPT ![b] = "get"]
    /\ UNCHANGED <<queue, offered, visits>>

Take(b) ==
    /\ page[b] = "get" /\ queue[b] # <<>>
    /\ carried' = [carried EXCEPT ![b] = Head(queue[b])]
    /\ queue' = [queue EXCEPT ![b] = Tail(@)]
    /\ page' = [page EXCEPT ![b] = "send"]
    /\ UNCHANGED <<shown, offered, visits>>

\* The page is closed.  A generator that waits for its queue ends and unsubscribes; one
\* that is sending is left, and its queue subscribed, until its finalizer has run.
Close(b) == page[b] = "get" /\ Forget(b)

Leave(b) ==
    /\ page[b] = "send"
    /\ page' = [page EXCEPT ![b] = "left"]
    /\ UNCHANGED <<queue, carried, shown, offered, visits>>

Finalize(b) == page[b] = "left" /\ Forget(b)

-----------------------------------------------------------------------------
\* Mutant: a full queue keeps what it has.
KeepOldest(q, e) == IF Len(q) < HubSize THEN Append(q, e) ELSE q

\* put_nowait, and again after get_nowait has made room.
Pushed(q, e) == Append(IF Len(q) < HubSize THEN q ELSE Tail(q), e)

Watching(e) == {b \in Pages : page[b] # "off" /\ e.task \in Viewed[b]}

\* publish: one step, as nothing in it suspends.
HubPublish(e) ==
    /\ queue' = [b \in Pages |-> IF b \in Watching(e) THEN Pushed(queue[b], e) ELSE queue[b]]
    /\ offered' = [b \in Pages |->
           IF b \in Watching(e) THEN Append(offered[b], e) ELSE offered[b]]
    /\ UNCHANGED <<page, carried, shown, visits>>

\* The process ends: every page has to be opened again.
HubRestart ==
    /\ page' = [b \in Pages |-> "off"]
    /\ queue' = [b \in Pages |-> <<>>]
    /\ carried' = [b \in Pages |-> NoEvent]
    /\ shown' = [b \in Pages |-> <<>>]
    /\ offered' = [b \in Pages |-> <<>>]
    /\ UNCHANGED visits

PageStep(b) == Connect(b) \/ Send(b) \/ Take(b) \/ Close(b) \/ Leave(b) \/ Finalize(b)

-----------------------------------------------------------------------------
HubTypeOK(Events) ==
    /\ page \in [Pages -> {"off", "send", "get", "left"}]
    /\ queue \in [Pages -> Seq(Events)]
    /\ \A b \in Pages : Len(queue[b]) <= HubSize
    /\ carried \in [Pages -> Events \cup {NoEvent}]
    /\ shown \in [Pages -> Seq(Events)]
    /\ offered \in [Pages -> Seq(Events)]
    /\ visits \in 0..MaxPages

OnTheWay(b) == shown[b] \o (IF carried[b] = NoEvent THEN <<>> ELSE <<carried[b]>>) \o queue[b]

\* A page that does not keep up loses events, but never the newest: what it has been
\* sent and what is on its way to it keeps the order of the events and ends with the
\* last HubSize of them, the verdict of a task among them if that came last.
NewestKept ==
    \A b \in Pages :
        LET way == OnTheWay(b)
            n == Len(offered[b])
            Place(i) == CHOOSE j \in 1..n : offered[b][j] = way[i]
        IN  /\ \A i \in DOMAIN way : \E j \in 1..n : offered[b][j] = way[i]
            /\ \A i, j \in DOMAIN way : i < j => Place(i) < Place(j)
            /\ \A j \in 1..n : j > n - HubSize => \E i \in DOMAIN way : way[i] = offered[b][j]
=============================================================================
