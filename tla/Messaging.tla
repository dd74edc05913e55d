-------------------------------- MODULE Messaging --------------------------------
(***************************************************************************)
(* Messages of one rendezvous key (pkg/code/server/grpc/messaging).        *)
(* Messages are saved in the database, and forwarded to the stream that    *)
(* the rendezvous record points to.  A stream is registered in the map of  *)
(* its server, waits for the lock of the key there, saves the rendezvous   *)
(* record, and then flushes what the database has; when it ends, it leaves *)
(* the map, deletes the record and unlocks.  The database, the streams and *)
(* the senders run side by side.                                           *)
(***************************************************************************)
EXTENDS Integers, Sequences, FiniteSets

CONSTANTS
    Servers,        \* RPC servers
    Streams,        \* RPCs that open a message stream of the key
    ServerOf,       \* the server of a stream
    KeepAlive,      \* streams of OpenMessageStreamWithKeepAlive
    Messages,
    SenderOf,       \* the server that makes a message, NoServer for a worker
    InTx,           \* messages that are made inside the DB transaction of an intent
    NeedStream,     \* messages that require an active stream
    Buffer,         \* messageStreamBufferSize
    NoStream, NoServer

ASSUME MessagingSets ==
    /\ KeepAlive \subseteq Streams
    /\ InTx \subseteq Messages /\ NeedStream \subseteq Messages
    /\ ServerOf \in [Streams -> Servers]
    /\ NoServer \notin Servers /\ NoStream \notin Streams
    /\ SenderOf \in [Messages -> Servers \cup {NoServer}]
    /\ Buffer \in Nat \ {0}

VARIABLES
    stored,         \* database: committed messages that were not acknowledged
    location,       \* database: the rendezvous record, NoServer if there is none
    old,            \* is the record older than rendezvousRecordMaxAge?
    streams,        \* the stream in the map of each server
    lock,           \* the stream that holds individualStreamMu
    phase,          \* of each stream
    toFlush,        \* messages each flush has still to notify
    flushed,        \* streams whose flush has read the database, or failed to
    abandoned,      \* streams whose flush ended with an error
    earlier,        \* messages routed or sent when each stream saved the record
    channel,        \* streamCh of each stream
    closed,         \* streams that notify has closed
    received,       \* messages the client of each stream got
    displaced,      \* streams whose record another server took, deleted or let grow old
    send,           \* progress of each message
    target          \* the location that its sender read

flushVars == <<toFlush, flushed, abandoned>>
streamData == <<flushVars, earlier, channel, closed, received>>
streamVars == <<streams, lock, phase, streamData>>
recordVars == <<location, old, displaced>>
sendVars == <<send, target>>
messagingVars == <<stored, recordVars, streamVars, sendVars>>

Phases == {"new", "waiting", "live", "ending", "removed", "ended"}
SendStates == {"none", "created", "routed", "forwarded", "done", "failed", "refused", "lost"}

MessagingTypeOK ==
    /\ stored \subseteq Messages
    /\ location \in Servers \cup {NoServer}
    /\ old \in BOOLEAN
    /\ streams \in [Servers -> Streams \cup {NoStream}]
    /\ lock \in [Servers -> Streams \cup {NoStream}]
    /\ phase \in [Streams -> Phases]
    /\ toFlush \in [Streams -> SUBSET Messages]
    /\ flushed \subseteq Streams
    /\ abandoned \subseteq Streams
    /\ earlier \in [Streams -> SUBSET Messages]
    /\ channel \in [Streams -> Seq(Messages)]
    /\ \A st \in Streams : Len(channel[st]) <= Buffer
    /\ closed \subseteq Streams
    /\ received \in [Streams -> SUBSET Messages]
    /\ displaced \subseteq Streams
    /\ send \in [Messages -> SendStates]
    /\ target \in [Messages -> Servers \cup {NoServer}]
    /\ \A m \in Messages : send[m] = "routed" => target[m] # NoServer
    /\ \A s \in Servers : lock[s] # NoStream => ServerOf[lock[s]] = s

\* Streams that nobody opens, and messages that nobody sends, are over already.
MessagingInit ==
    /\ stored = {}
    /\ location = NoServer
    /\ old = FALSE
    /\ streams = [s \in Servers |-> NoStream]
    /\ lock = [s \in Servers |-> NoStream]
    /\ phase \in [Streams -> {"new", "ended"}]
    /\ toFlush = [st \in Streams |-> {}]
    /\ flushed = {}
    /\ abandoned = {}
    /\ earlier = [st \in Streams |-> {}]
    /\ channel = [st \in Streams |-> <<>>]
    /\ closed = {}
    /\ received = [st \in Streams |-> {}]
    /\ displaced = {}
    /\ send \in [Messages -> {"none", "refused"}]
    /\ target = [m \in Messages |-> NoServer]

Live == {st \in Streams : phase[st] = "live"}
Rivals(st) == {other \in Live : ServerOf[other] # ServerOf[st]}

(***************************************************************************)
(* Streams.                                                                *)
(***************************************************************************)

\* A stream is turned away when there is another in the map of the server.
Register(st) ==
    /\ phase[st] = "new"
    /\ IF streams[ServerOf[st]] = NoStream
       THEN /\ streams' = [streams EXCEPT ![ServerOf[st]] = st]
            /\ phase' = [phase EXCEPT ![st] = "waiting"]
       ELSE /\ phase' = [phase EXCEPT ![st] = "ended"]
            /\ streams' = streams
    /\ UNCHANGED <<stored, recordVars, lock, streamData, sendVars>>

SaveRendezvous(st) ==
    /\ location' = ServerOf[st]
    /\ old' = FALSE
    /\ displaced' = displaced \cup Rivals(st)

\* With the lock, the stream saves the record, unless it timed out or was
\* cancelled while it waited, or the record cannot be saved.
Announce(st) ==
    /\ phase[st] = "waiting"
    /\ lock[ServerOf[st]] = NoStream
    /\ lock' = [lock EXCEPT ![ServerOf[st]] = st]
    /\ \/ /\ SaveRendezvous(st)
          /\ phase' = [phase EXCEPT ![st] = "live"]
          /\ earlier' = [earlier EXCEPT ![st] = {m \in stored \ InTx : send[m] \in {"routed", "done"}}]
       \/ /\ phase' = [phase EXCEPT ![st] = "ending"]
          /\ UNCHANGED <<recordVars, earlier>>
    /\ UNCHANGED <<stored, streams, flushVars, channel, closed, received, sendVars>>

\* updateRendezvousRecordCh.
Refresh(st) ==
    /\ phase[st] = "live"
    /\ st \in KeepAlive
    /\ SaveRendezvous(st)
    /\ UNCHANGED <<stored, streamVars, sendVars>>

\* The record was not refreshed in time: that of a stream without keep-alive,
\* which may last a second longer, or of one that is gone.
GrowOld ==
    /\ location # NoServer
    /\ ~old
    /\ \A st \in Live \cap KeepAlive : ServerOf[st] # location
    /\ old' = TRUE
    /\ displaced' = displaced \cup {st \in Live : ServerOf[st] = location}
    /\ UNCHANGED <<stored, location, streamVars, sendVars>>

\* stream.notify: a message is lost when the stream was closed, or does not read
\* any more, and the stream is closed when the channel stays full for notifyTimeout.
Notify(st, m) ==
    \/ /\ st \in closed \/ phase[st] \notin {"waiting", "live"}
       /\ UNCHANGED <<channel, closed>>
    \/ /\ st \notin closed
       /\ phase[st] \in {"waiting", "live"}
       /\ Len(channel[st]) < Buffer
       /\ channel' = [channel EXCEPT ![st] = Append(@, m)]
       /\ closed' = closed
    \/ /\ st \notin closed
       /\ phase[st] \in {"waiting", "live"}
       /\ Len(channel[st]) = Buffer
       /\ closed' = closed \cup {st}
       /\ channel' = channel

\* Mutant: the flush does not wait for the rendezvous record.
FlushAtOnce(st) ==
    /\ phase[st] \in {"waiting", "live"}
    /\ st \notin flushed
    /\ flushed' = flushed \cup {st}
    /\ toFlush' = [toFlush EXCEPT ![st] = stored]
    /\ UNCHANGED <<stored, recordVars, streams, lock, phase, abandoned, earlier, channel,
                   closed, received, sendVars>>

\* flush reads the messages of the key ...
Flush(st) ==
    /\ phase[st] = "live"
    /\ st \notin flushed
    /\ flushed' = flushed \cup {st}
    /\ toFlush' = [toFlush EXCEPT ![st] = stored]
    /\ UNCHANGED <<stored, recordVars, streams, lock, phase, abandoned, earlier, channel,
                   closed, received, sendVars>>

\* ... and notifies the stream of each, until it finds the stream closed.
FlushOne(st) ==
    /\ phase[st] = "live"
    /\ \E m \in toFlush[st] :
          /\ Notify(st, m)
          /\ toFlush' = [toFlush EXCEPT ![st] = IF st \in closed' THEN {} ELSE @ \ {m}]
    /\ UNCHANGED <<stored, recordVars, streams, lock, phase, flushed, abandoned, earlier,
                   received, sendVars>>

\* GetMessages fails, or a message cannot be unmarshalled: the flush is over, and
\* the stream stays open.
FlushFails(st) ==
    /\ phase[st] = "live"
    /\ st \notin flushed \/ toFlush[st] # {}
    /\ flushed' = flushed \cup {st}
    /\ abandoned' = abandoned \cup {st}
    /\ toFlush' = [toFlush EXCEPT ![st] = {}]
    /\ UNCHANGED <<stored, recordVars, streams, lock, phase, earlier, channel, closed,
                   received, sendVars>>

Deliver(st) ==
    /\ phase[st] = "live"
    /\ channel[st] # <<>>
    /\ received' = [received EXCEPT ![st] = @ \cup {Head(channel[st])}]
    /\ channel' = [channel EXCEPT ![st] = Tail(@)]
    /\ UNCHANGED <<stored, recordVars, streams, lock, phase, flushVars, earlier, closed,
                   sendVars>>

\* What the channels of these streams hold is not read any more.
Drop(ended) ==
    /\ toFlush' = [st \in Streams |-> IF st \in ended THEN {} ELSE toFlush[st]]
    /\ flushed' = flushed \ ended
    /\ abandoned' = abandoned \ ended
    /\ earlier' = [st \in Streams |-> IF st \in ended THEN {} ELSE earlier[st]]
    /\ channel' = [st \in Streams |-> IF st \in ended THEN <<>> ELSE channel[st]]
    /\ closed' = closed \ ended
    /\ received' = [st \in Streams |-> IF st \in ended THEN {} ELSE received[st]]

\* A stream ends on a timeout, when its client is gone or does not answer, when
\* the record cannot be saved, or when its channel was closed.
End(st) ==
    /\ phase[st] = "live"
    /\ phase' = [phase EXCEPT ![st] = "ending"]
    /\ Drop({st})
    /\ displaced' = displaced \ {st}
    /\ UNCHANGED <<stored, location, old, streams, lock, sendVars>>

\* The cleanup leaves the map, ...
Unregister(st) ==
    /\ phase[st] = "ending"
    /\ streams' = [s \in Servers |-> IF streams[s] = st THEN NoStream ELSE streams[s]]
    /\ phase' = [phase EXCEPT ![st] = "removed"]
    /\ UNCHANGED <<stored, recordVars, lock, streamData, sendVars>>

DeleteRendezvous(st) ==
    /\ location' = NoServer
    /\ old' = FALSE
    /\ displaced' = displaced \cup Rivals(st)

\* Mutant: the cleanup returns early when the record could not be deleted.
CleanUpOrReturn(st) ==
    /\ phase[st] = "removed"
    /\ \/ /\ DeleteRendezvous(st)
          /\ lock' = [lock EXCEPT ![ServerOf[st]] = NoStream]
       \/ /\ UNCHANGED recordVars
          /\ lock' = lock
    /\ phase' = [phase EXCEPT ![st] = "ended"]
    /\ UNCHANGED <<stored, streams, streamData, sendVars>>

\* ... and then deletes the record of the key, if it can, and unlocks.
CleanUp(st) ==
    /\ phase[st] = "removed"
    /\ DeleteRendezvous(st) \/ UNCHANGED recordVars
    /\ lock' = [lock EXCEPT ![ServerOf[st]] = NoStream]
    /\ phase' = [phase EXCEPT ![st] = "ended"]
    /\ UNCHANGED <<stored, streams, streamData, sendVars>>

\* AckMessages.
Ack(m) ==
    /\ m \in stored
    /\ \E st \in Streams : m \in received[st]
    /\ stored' = stored \ {m}
    /\ UNCHANGED <<recordVars, streamVars, sendVars>>

(***************************************************************************)
(* Senders.                                                                *)
(***************************************************************************)

\* SendMessage turns a message down when no stream is open and none can be
\* expected any more.
Refuse(m) ==
    /\ send[m] = "none"
    /\ m \in NeedStream
    /\ location = NoServer
    /\ send' = [send EXCEPT ![m] = "refused"]
    /\ UNCHANGED <<stored, recordVars, streamVars, target>>

\* SendMessage and InternallyCreateMessage save the message first; inside a DB
\* transaction nobody else sees it yet.
CreateMessage(m) ==
    /\ send[m] = "none"
    /\ send' = [send EXCEPT ![m] = "created"]
    /\ stored' = IF m \in InTx THEN stored ELSE stored \cup {m}
    /\ UNCHANGED <<recordVars, streamVars, target>>

Forwarded(m) == IF m \in InTx THEN "forwarded" ELSE "done"

\* internallyForwardMessage: the record tells which server has the stream, if
\* any; an old record of another server is not followed.
Route(m) ==
    /\ send[m] = "created"
    /\ IF location = NoServer \/ (location # SenderOf[m] /\ old)
       THEN /\ send' = [send EXCEPT ![m] = Forwarded(m)]
            /\ target' = target
       ELSE /\ send' = [send EXCEPT ![m] = "routed"]
            /\ target' = [target EXCEPT ![m] = location]
    /\ UNCHANGED <<stored, recordVars, streamVars>>

\* The stream in the map of that server is notified.  When it is another
\* server, the answer may be lost, and the message is forwarded again.
Forward(m) ==
    /\ send[m] = "routed"
    /\ LET st == streams[target[m]]
       IN  IF st = NoStream THEN UNCHANGED <<channel, closed>> ELSE Notify(st, m)
    /\ \/ send' = [send EXCEPT ![m] = Forwarded(m)]
       \/ /\ target[m] # SenderOf[m]
          /\ send' = [send EXCEPT ![m] = "created"]
    /\ target' = [target EXCEPT ![m] = NoServer]
    /\ UNCHANGED <<stored, recordVars, streams, lock, phase, flushVars, earlier, received>>

\* The call to another server fails and is tried again, or given up.
ForwardFails(m) ==
    /\ send[m] = "routed"
    /\ target[m] # SenderOf[m]
    /\ \E next \in {"created", "failed"} :
          send' = [send EXCEPT ![m] = IF next = "failed" /\ m \in InTx THEN "forwarded" ELSE next]
    /\ target' = [target EXCEPT ![m] = NoServer]
    /\ UNCHANGED <<stored, recordVars, streamVars>>

\* The DB transaction around the message ends.
CommitMessage(m) ==
    /\ send[m] = "forwarded"
    /\ send' = [send EXCEPT ![m] = "done"]
    /\ stored' = stored \cup {m}
    /\ UNCHANGED <<recordVars, streamVars, target>>

Lose(messages) ==
    /\ send' = [m \in Messages |-> IF m \in messages THEN "lost" ELSE send[m]]
    /\ target' = [m \in Messages |-> IF m \in messages THEN NoServer ELSE target[m]]

Sending == {m \in Messages : send[m] \in {"created", "routed", "forwarded"}}

RollBackMessage(m) ==
    /\ m \in InTx
    /\ m \in Sending
    /\ Lose({m})
    /\ UNCHANGED <<stored, recordVars, streamVars>>

\* A server stops: its streams and what it was sending are gone, the record and
\* what is saved remain.
StopServer(s) ==
    LET stopped == {st \in Streams : ServerOf[st] = s /\ phase[st] \notin {"new", "ended"}}
    IN  /\ stopped # {}
        /\ streams' = [streams EXCEPT ![s] = NoStream]
        /\ lock' = [lock EXCEPT ![s] = NoStream]
        /\ phase' = [st \in Streams |-> IF st \in stopped THEN "ended" ELSE phase[st]]
        /\ Drop(stopped)
        /\ displaced' = displaced \ stopped
        /\ Lose({m \in Sending : SenderOf[m] = s})
        /\ UNCHANGED <<stored, location, old>>

StreamStep ==
    \/ \E st \in Streams :
          \/ Register(st) \/ Announce(st) \/ Refresh(st)
          \/ Flush(st) \/ FlushOne(st) \/ FlushFails(st) \/ Deliver(st)
          \/ End(st) \/ Unregister(st) \/ CleanUp(st)
    \/ GrowOld
    \/ \E m \in Messages : Ack(m)
    \/ \E s \in Servers : StopServer(s)

(***************************************************************************)
(* Properties.                                                             *)
(***************************************************************************)

Notified(st, m) ==
    \/ m \in received[st]
    \/ \E n \in DOMAIN channel[st] : channel[st][n] = m
    \/ st \in closed

LeftToFlush(st, m) == m \in toFlush[st] \/ st \notin flushed

\* A message that was sent reaches the stream that is open.  One whose sender
\* read the record after the stream had saved it was forwarded to that stream,
\* whatever becomes of the flush; an earlier one is left to the flush, and is
\* missed only if that fails (server.go, flush).  This is said neither of a
\* stream that another server has taken the record from, nor of the message of
\* an intent, which is forwarded before it can be flushed.
NoMessageMissed ==
    \A st \in Live \ displaced : \A m \in stored \ InTx : send[m] = "done" =>
        \/ Notified(st, m)
        \/ m \in earlier[st] /\ (LeftToFlush(st, m) \/ st \in abandoned)

\* A stream that waits for the one before it gets its turn (individualStreamMu).
\* No stream waits twice: each one that waits leaves off if, and only if, from
\* some time on no stream waits.
EveryStreamGetsItsTurn == <>[](\A st \in Streams : phase[st] # "waiting")

=============================================================================
