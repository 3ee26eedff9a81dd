---------------------------- MODULE RunEventStream ----------------------------
(***************************************************************************)
(* The progress events of one run in one API process: the executions that  *)
(* publish them, the bounded queue they wait in and the event streams of   *)
(* the clients, which all take from that queue.  A heartbeat, sent when    *)
(* nothing comes for 15 s, changes nothing.  Nobody calls remove(), and    *)
(* nobody sets the cancel event of a stream.                               *)
(***************************************************************************)
EXTENDS Naturals, Sequences

CONSTANTS Publishers,    \* the admission and the drains of the run
          Clients,
          Capacity,      \* maxsize of the queue
          MaxStarts,     \* bound on executions
          MaxLeaves      \* bound on clients that go away

ASSUME EventsAssumption == Capacity \in Nat \ {0} /\ {MaxStarts, MaxLeaves} \subseteq Nat

VARIABLES
    queue,
    unsent,    \* unsent[p]: what p has still to publish, the first perhaps waiting for room
    stream,    \* stream[c]: "away", "open" or "ended"
    starts, leaves

eventVars == <<queue, unsent, stream, starts, leaves>>

\* Stages, and the events that end a stream.
Progress == "progress"
Terminal == "terminal"

\* What an execution publishes: run.failed at once, in the judge's stage or in
\* that of the insights; or two completed stages and run.complete.
Scripts == {<<Terminal>>, <<Progress, Terminal>>, <<Progress, Progress, Terminal>>,
               <<Progress, Progress, Progress, Progress, Terminal>>}

EventsInit ==
    /\ queue = <<>>
    /\ unsent = [p \in Publishers |-> <<>>]
    /\ stream = [c \in Clients |-> "away"]
    /\ starts = 0
    /\ leaves = 0

-----------------------------------------------------------------------------
\* The admission publishes run.started; an execution its stages and its end.
Start(p, script) ==
    /\ unsent[p] = <<>>
    /\ starts < MaxStarts
    /\ unsent' = [unsent EXCEPT ![p] = script]
    /\ starts' = starts + 1
    /\ UNCHANGED <<queue, stream, leaves>>

\* A faulty variant: an event that finds no room is dropped.
PutOrDrop(event) ==
    queue' = IF Len(queue) < Capacity THEN Append(queue, event) ELSE queue

\* put() waits for room.
PutEvent(event) ==
    /\ Len(queue) < Capacity
    /\ queue' = Append(queue, event)

Publish(p) ==
    /\ unsent[p] # <<>>
    /\ PutEvent(Head(unsent[p]))
    /\ unsent' = [unsent EXCEPT ![p] = Tail(@)]
    /\ UNCHANGED <<stream, starts, leaves>>

\* The stream of a run that exists: no matter what has been published before.
OpenStream(c) ==
    /\ stream[c] # "open"
    /\ stream' = [stream EXCEPT ![c] = "open"]
    /\ UNCHANGED <<queue, unsent, starts, leaves>>

\* The event goes to this client and to no other; a terminal one ends its stream.
Deliver(c) ==
    /\ stream[c] = "open"
    /\ queue # <<>>
    /\ queue' = Tail(queue)
    /\ stream' = [stream EXCEPT ![c] = IF Head(queue) = Terminal THEN "ended" ELSE "open"]
    /\ UNCHANGED <<unsent, starts, leaves>>

\* A client disconnects, waiting or with an event that was on its way to it.
Leave(c) ==
    /\ stream[c] = "open"
    /\ leaves < MaxLeaves
    /\ \/ UNCHANGED queue
       \/ queue # <<>> /\ queue' = Tail(queue)
    /\ stream' = [stream EXCEPT ![c] = "away"]
    /\ leaves' = leaves + 1
    /\ UNCHANGED <<unsent, starts>>

EventsNext ==
    \/ \E p \in Publishers :
        \/ \E script \in Scripts \cup {<<Progress>>} : Start(p, script)
        \/ Publish(p)
    \/ \E c \in Clients : OpenStream(c) \/ Deliver(c) \/ Leave(c)

\* The event loop resumes a publisher that has room and a stream that has an
\* event; nobody need start a run, open a stream or leave one.
EventsFairness ==
    /\ \A p \in Publishers : WF_eventVars(Publish(p))
    /\ \A c \in Clients : WF_eventVars(Deliver(c))

EventsSpec == EventsInit /\ [][EventsNext]_eventVars /\ EventsFairness

-----------------------------------------------------------------------------
(* Properties. *)

\* The queue never exceeds its size.
EventsTypeOK ==
    /\ queue \in Seq({Progress, Terminal}) /\ Len(queue) <= Capacity
    /\ \A p \in Publishers : unsent[p] \in Seq({Progress, Terminal})
    /\ stream \in [Clients -> {"away", "open", "ended"}]
    /\ starts \in 0..MaxStarts /\ leaves \in 0..MaxLeaves

\* An execution that waits for room comes to its end, provided somebody opens a
\* stream now and then, whatever streams end meanwhile (publish, sse.py:58).
ReaderFreesPublisher ==
    []<>(\E c \in Clients : stream[c] = "open")
        => \A p \in Publishers : unsent[p] # <<>> ~> unsent[p] = <<>>

EndIsComing ==
    \/ \E i \in DOMAIN queue : queue[i] = Terminal
    \/ \E p \in Publishers : \E i \in DOMAIN unsent[p] : unsent[p][i] = Terminal

\* A stream that has the run to itself ends when the run does.  With another
\* stream, open or gone, it may not: that one may take the terminal event
\* (subscribe, sse.py:68 to 88).
LoneStreamEnds ==
    \A c \in Clients :
        [](\A other \in Clients \ {c} : stream[other] = "away")
            => (stream[c] = "open" /\ EndIsComing ~> stream[c] # "open")

EventsFlow == ReaderFreesPublisher /\ LoneStreamEnds
=============================================================================
