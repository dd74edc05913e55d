------------------------------ MODULE WebhookProofs ------------------------------
(***************************************************************************)
(* Proofs about Webhook and the messages of its rendezvous key: type       *)
(* correctness, and what the webhook's record and its attempts have to do  *)
(* with each other, for any number of streams, servers, messages and       *)
(* attempts.                                                               *)
(***************************************************************************)
EXTENDS Webhook, TLAPS, SequenceTheorems

(***************************************************************************)
(* Messages.                                                               *)
(***************************************************************************)

\* A message that is saved for good, or given up by the one that forwards it,
\* stays so.
FateIsFinal ==
    \A m \in Messages : send[m] \in {"done", "failed"} => send'[m] = send[m]

\* What the rest of the database and the streams are, whatever a sender does to
\* its messages.
StreamTypes ==
    /\ stored \subseteq Messages
    /\ location \in Servers \cup {NoServer}
    /\ old \in BOOLEAN
    /\ streams \in [Servers -> Streams \cup {NoStream}]
    /\ lock \in [Servers -> Streams \cup {NoStream}]
    /\ phase \in [Streams -> Phases]
    /\ toFlush \in [Streams -> SUBSET Messages]
    /\ flushed \subseteq Streams
    /\ abandoned \subseteq Streams
    /\ earlier \in [Streams -> SUBSET Messages]
    /\ channel \in [Streams -> Seq(Messages)]
    /\ \A st \in Streams : Len(channel[st]) <= Buffer
    /\ closed \subseteq Streams
    /\ received \in [Streams -> SUBSET Messages]
    /\ displaced \subseteq Streams
    /\ \A s \in Servers : lock[s] # NoStream => ServerOf[lock[s]] = s

SendTypes ==
    /\ send \in [Messages -> SendStates]
    /\ target \in [Messages -> Servers \cup {NoServer}]
    /\ \A m \in Messages : send[m] = "routed" => target[m] # NoServer

\* The two halves of the type invariant of Messaging.
LEMMA TypeParts ==
    /\ MessagingTypeOK <=> StreamTypes /\ SendTypes
    /\ MessagingTypeOK' <=> StreamTypes' /\ SendTypes'
BY DEF MessagingTypeOK, StreamTypes, SendTypes

\* Notifying a stream keeps its channel within messageStreamBufferSize.
LEMMA NotifyType ==
    ASSUME StreamTypes, NEW st \in Streams, NEW m \in Messages, Notify(st, m)
    PROVE  /\ channel' \in [Streams -> Seq(Messages)]
           /\ \A u \in Streams : Len(channel'[u]) <= Buffer
           /\ closed' \subseteq Streams
<1>1. CASE UNCHANGED <<channel, closed>>
  BY <1>1 DEF StreamTypes
<1>2. CASE /\ Len(channel[st]) < Buffer
           /\ channel' = [channel EXCEPT ![st] = Append(@, m)]
           /\ closed' = closed
  <2>1. channel[st] \in Seq(Messages)
    BY DEF StreamTypes
  <2>2. /\ Append(channel[st], m) \in Seq(Messages)
        /\ Len(Append(channel[st], m)) = Len(channel[st]) + 1
        /\ Len(channel[st]) \in Nat
    BY <2>1, AppendProperties, LenProperties
  <2>3. Len(channel[st]) + 1 <= Buffer
    BY <1>2, <2>2, MessagingSets
  <2> QED
    BY <1>2, <2>2, <2>3 DEF StreamTypes
<1>3. CASE closed' = closed \cup {st} /\ channel' = channel
  BY <1>3 DEF StreamTypes
<1> QED
  BY <1>1, <1>2, <1>3 DEF Notify

\* The streams of one rendezvous key keep their types, and no step of a stream
\* changes what became of a message.
LEMMA StreamStepType ==
    ASSUME MessagingTypeOK, StreamStep
    PROVE  MessagingTypeOK' /\ FateIsFinal
<1> StreamTypes /\ SendTypes
  BY TypeParts
<1> USE MessagingSets
<1> SUFFICES /\ StreamTypes'
             /\ UNCHANGED sendVars \/ \E messages \in SUBSET Sending : Lose(messages)
  <2>1. ASSUME UNCHANGED sendVars PROVE SendTypes' /\ FateIsFinal
    BY <2>1 DEF SendTypes, FateIsFinal, sendVars
  <2>2. ASSUME NEW messages \in SUBSET Sending, Lose(messages)
        PROVE  SendTypes' /\ FateIsFinal
    BY <2>2 DEF SendTypes, FateIsFinal, Lose, Sending, SendStates
  <2> QED
    BY <2>1, <2>2, TypeParts
<1>1. ASSUME NEW st \in Streams,
             Register(st) \/ Announce(st) \/ Refresh(st) \/ Unregister(st)
      PROVE  StreamTypes' /\ UNCHANGED sendVars
  <2> ServerOf[st] \in Servers
    OBVIOUS
  <2>1. CASE Register(st)
    <3>1. /\ streams' \in [Servers -> Streams \cup {NoStream}]
          /\ phase' \in [Streams -> Phases]
      <4> /\ streams \in [Servers -> Streams \cup {NoStream}]
          /\ phase \in [Streams -> Phases]
        BY DEF StreamTypes
      <4>1. CASE streams[ServerOf[st]] = NoStream
        <5>1. /\ streams' = [streams EXCEPT ![ServerOf[st]] = st]
              /\ phase' = [phase EXCEPT ![st] = "waiting"]
          BY <2>1, <4>1 DEF Register
        <5> QED
          BY <5>1 DEF Phases
      <4>2. CASE streams[ServerOf[st]] # NoStream
        BY <2>1, <4>2 DEF Register, StreamTypes, Phases
      <4> QED
        BY <4>1, <4>2
    <3>2. UNCHANGED <<stored, recordVars, lock, streamData, sendVars>>
      BY <2>1 DEF Register
    <3> QED
      BY <3>1, <3>2 DEF StreamTypes, recordVars, streamData, flushVars, sendVars
  <2>2. CASE Announce(st)
    <3>1. earlier' \in [Streams -> SUBSET Messages]
      <4>1. PICK ms \in SUBSET Messages : earlier' = earlier \/ earlier' = [earlier EXCEPT ![st] = ms]
        <5> DEFINE arrived == {m \in stored \ InTx : send[m] \in {"routed", "done"}}
        <5>1. arrived \in SUBSET Messages
          BY DEF StreamTypes
        <5>2. earlier' = earlier \/ earlier' = [earlier EXCEPT ![st] = arrived]
          BY <2>2 DEF Announce
        <5> QED
          BY <5>1, <5>2
      <4>2. earlier \in [Streams -> SUBSET Messages]
        BY DEF StreamTypes
      <4> QED
        BY <4>1, <4>2
    <3>2. /\ location' \in Servers \cup {NoServer}
          /\ old' \in BOOLEAN
          /\ displaced' \subseteq Streams
          /\ phase' \in [Streams -> Phases]
      BY <2>2 DEF Announce, SaveRendezvous, Rivals, Live, StreamTypes, Phases, recordVars
    <3>3. lock' = [lock EXCEPT ![ServerOf[st]] = st]
      BY <2>2 DEF Announce
    <3>4. UNCHANGED <<stored, streams, flushVars, channel, closed, received, sendVars>>
      BY <2>2 DEF Announce
    <3> QED
      BY <3>1, <3>2, <3>3, <3>4 DEF StreamTypes, flushVars, sendVars
  <2>3. CASE Refresh(st)
    BY <2>3 DEF Refresh, SaveRendezvous, Rivals, Live, StreamTypes, streamVars,
                streamData, flushVars, sendVars
  <2>4. CASE Unregister(st)
    BY <2>4 DEF Unregister, StreamTypes, Phases, recordVars, streamData, flushVars, sendVars
  <2> QED
    BY <1>1, <2>1, <2>2, <2>3, <2>4
<1>2. ASSUME NEW st \in Streams, Flush(st) \/ FlushFails(st) \/ Deliver(st)
      PROVE  StreamTypes' /\ UNCHANGED sendVars
  <2>1. CASE Flush(st)
    BY <2>1 DEF Flush, StreamTypes, recordVars, sendVars
  <2>2. CASE FlushFails(st)
    BY <2>2 DEF FlushFails, StreamTypes, recordVars, sendVars
  <2>3. CASE Deliver(st)
    <3>1. channel[st] \in Seq(Messages) /\ channel[st] # <<>>
      BY <2>3 DEF Deliver, StreamTypes
    <3>2. /\ Head(channel[st]) \in Messages
          /\ Tail(channel[st]) \in Seq(Messages)
          /\ Len(Tail(channel[st])) = Len(channel[st]) - 1
          /\ Len(channel[st]) \in Nat
      BY <3>1, HeadTailProperties, LenProperties
    <3>3. Len(Tail(channel[st])) <= Buffer
      BY <3>2 DEF StreamTypes
    <3> QED
      BY <2>3, <3>2, <3>3 DEF Deliver, StreamTypes, recordVars, flushVars, sendVars
  <2> QED
    BY <1>2, <2>1, <2>2, <2>3
<1>3. ASSUME NEW st \in Streams, FlushOne(st)
      PROVE  StreamTypes' /\ UNCHANGED sendVars
  <2>1. PICK m \in toFlush[st] :
            /\ Notify(st, m)
            /\ toFlush' = [toFlush EXCEPT ![st] = IF st \in closed' THEN {} ELSE @ \ {m}]
    BY <1>3 DEF FlushOne
  <2>2. m \in Messages
    BY <2>1 DEF StreamTypes
  <2> QED
    BY <1>3, <2>1, <2>2, NotifyType DEF FlushOne, StreamTypes, recordVars, sendVars
<1>4. ASSUME NEW ended \in SUBSET Streams, Drop(ended)
      PROVE  /\ toFlush' \in [Streams -> SUBSET Messages]
             /\ flushed' \subseteq Streams
             /\ abandoned' \subseteq Streams
             /\ earlier' \in [Streams -> SUBSET Messages]
             /\ channel' \in [Streams -> Seq(Messages)]
             /\ \A st \in Streams : Len(channel'[st]) <= Buffer
             /\ closed' \subseteq Streams
             /\ received' \in [Streams -> SUBSET Messages]
  <2>1. <<>> \in Seq(Messages) /\ Len(<<>>) = 0
    BY EmptySeq
  <2> QED
    BY <1>4, <2>1 DEF Drop, StreamTypes
<1>5. ASSUME NEW st \in Streams, End(st)
      PROVE  StreamTypes' /\ UNCHANGED sendVars
  BY <1>4, <1>5 DEF End, StreamTypes, Phases, sendVars
<1>6. ASSUME NEW st \in Streams, CleanUp(st)
      PROVE  StreamTypes' /\ UNCHANGED sendVars
  <2> ServerOf[st] \in Servers
    OBVIOUS
  <2> QED
    BY <1>6 DEF CleanUp, DeleteRendezvous, Rivals, Live, StreamTypes, Phases, recordVars,
                streamData, flushVars, sendVars
<1>7. ASSUME GrowOld PROVE StreamTypes' /\ UNCHANGED sendVars
  BY <1>7 DEF GrowOld, Live, StreamTypes, streamVars, streamData, flushVars, sendVars
<1>8. ASSUME NEW m \in Messages, Ack(m) PROVE StreamTypes' /\ UNCHANGED sendVars
  BY <1>8 DEF Ack, StreamTypes, recordVars, streamVars, streamData, flushVars, sendVars
<1>9. ASSUME NEW s \in Servers, StopServer(s)
      PROVE  StreamTypes' /\ \E messages \in SUBSET Sending : Lose(messages)
  <2> DEFINE stopped ==
        {st \in Streams : ServerOf[st] = s /\ phase[st] \notin {"new", "ended"}}
  <2>1. Drop(stopped) /\ Lose({m \in Sending : SenderOf[m] = s})
    BY <1>9 DEF StopServer
  <2>2. StreamTypes'
    BY <1>4, <1>9, <2>1 DEF StopServer, StreamTypes, Phases
  <2> QED
    BY <2>1, <2>2
<1> QED
  BY <1>1, <1>2, <1>3, <1>5, <1>6, <1>7, <1>8, <1>9 DEF StreamStep

\* A message that a server saves, forwards or gives up keeps its types too, and
\* so does what the stream it goes to holds.
LEMMA MessageStepType ==
    ASSUME MessagingTypeOK, NEW m \in Messages,
           \/ CreateMessage(m) \/ Refuse(m) \/ Route(m) \/ Forward(m)
           \/ ForwardFails(m) \/ RollBackMessage(m) \/ CommitMessage(m)
    PROVE  MessagingTypeOK' /\ FateIsFinal
<1> StreamTypes /\ SendTypes
  BY TypeParts
<1> USE MessagingSets
<1> SUFFICES StreamTypes' /\ SendTypes' /\ FateIsFinal
  BY TypeParts
<1>1. CASE CreateMessage(m) \/ CommitMessage(m)
  <2>1. /\ \E next \in SendStates \ {"routed"} : send' = [send EXCEPT ![m] = next]
        /\ send[m] \notin {"done", "failed"}
        /\ stored' \subseteq Messages
        /\ UNCHANGED <<recordVars, streamVars, target>>
    BY <1>1 DEF CreateMessage, CommitMessage, StreamTypes, SendStates
  <2> QED
    BY <2>1 DEF StreamTypes, SendTypes, FateIsFinal, recordVars, streamVars, streamData, flushVars
<1>2. CASE Refuse(m) \/ Route(m) \/ ForwardFails(m)
  <2>1. /\ \E next \in SendStates : send' = [send EXCEPT ![m] = next]
        /\ send[m] \notin {"done", "failed"}
        /\ target' \in [Messages -> Servers \cup {NoServer}]
        /\ \A n \in Messages : send'[n] = "routed" => target'[n] # NoServer
        /\ UNCHANGED <<stored, recordVars, streamVars>>
    <3>1. CASE Refuse(m)
      BY <3>1 DEF Refuse, SendTypes, SendStates
    <3>2. CASE Route(m)
      <4>1. /\ send[m] = "created"
            /\ UNCHANGED <<stored, recordVars, streamVars>>
            /\ \/ send' = [send EXCEPT ![m] = Forwarded(m)] /\ target' = target
               \/ /\ send' = [send EXCEPT ![m] = "routed"]
                  /\ target' = [target EXCEPT ![m] = location]
                  /\ location # NoServer
        BY <3>2 DEF Route
      <4>2. Forwarded(m) \in {"forwarded", "done"}
        BY DEF Forwarded
      <4>3. location \in Servers \cup {NoServer}
        BY DEF StreamTypes
      <4>4. CASE send' = [send EXCEPT ![m] = Forwarded(m)] /\ target' = target
        BY <4>1, <4>2, <4>4 DEF SendTypes, SendStates
      <4>5. CASE /\ send' = [send EXCEPT ![m] = "routed"]
                 /\ target' = [target EXCEPT ![m] = location]
                 /\ location # NoServer
        BY <4>1, <4>3, <4>5 DEF SendTypes, SendStates
      <4> QED
        BY <4>1, <4>4, <4>5
    <3>3. CASE ForwardFails(m)
      BY <3>3 DEF ForwardFails, SendTypes, SendStates
    <3> QED
      BY <1>2, <3>1, <3>2, <3>3
  <2>2. SendTypes' /\ FateIsFinal
    BY <2>1 DEF SendTypes, FateIsFinal
  <2>3. StreamTypes'
    BY <2>1 DEF StreamTypes, recordVars, streamVars, streamData, flushVars
  <2> QED
    BY <2>2, <2>3
<1>3. CASE Forward(m)
  <2>1. /\ \E next \in SendStates : send' = [send EXCEPT ![m] = next]
        /\ send[m] \notin {"done", "failed"}
        /\ target' \in [Messages -> Servers \cup {NoServer}]
        /\ \A n \in Messages : send'[n] = "routed" => target'[n] # NoServer
    BY <1>3 DEF Forward, Forwarded, SendTypes, SendStates
  <2>2. SendTypes' /\ FateIsFinal
    BY <2>1 DEF SendTypes, FateIsFinal
  <2>3. \/ UNCHANGED <<channel, closed>>
        \/ \E st \in Streams : Notify(st, m)
    <3>1. CASE streams[target[m]] = NoStream
      BY <1>3, <3>1 DEF Forward
    <3>2. CASE streams[target[m]] # NoStream
      <4>1. target[m] \in Servers
        BY <1>3 DEF Forward, SendTypes
      <4>2. streams[target[m]] \in Streams
        BY <3>2, <4>1 DEF StreamTypes
      <4> QED
        BY <1>3, <3>2, <4>2 DEF Forward
    <3> QED
      BY <3>1, <3>2
  <2>4. /\ channel' \in [Streams -> Seq(Messages)]
        /\ \A st \in Streams : Len(channel'[st]) <= Buffer
        /\ closed' \subseteq Streams
    BY <2>3, NotifyType DEF StreamTypes
  <2> QED
    BY <1>3, <2>2, <2>4 DEF Forward, StreamTypes, recordVars, flushVars
<1>4. CASE RollBackMessage(m)
  BY <1>4 DEF RollBackMessage, Lose, Sending, StreamTypes, SendTypes, SendStates,
              FateIsFinal, recordVars, streamVars, streamData, flushVars
<1> QED
  BY <1>1, <1>2, <1>3, <1>4

\* Servers and senders that stop lose what they were sending, nothing else.
LEMMA LoseType ==
    ASSUME MessagingTypeOK, NEW messages \in SUBSET Sending, Lose(messages),
           UNCHANGED <<stored, recordVars, streamVars>>
    PROVE  MessagingTypeOK' /\ FateIsFinal
<1> StreamTypes /\ SendTypes
  BY TypeParts
<1>1. SendTypes' /\ FateIsFinal
  BY DEF SendTypes, FateIsFinal, Lose, Sending, SendStates
<1>2. StreamTypes'
  BY DEF StreamTypes, recordVars, streamVars, streamData, flushVars
<1> QED
  BY <1>1, <1>2, TypeParts

\* Whatever happens, messages and streams keep their types, and a message that
\* was saved or given up stays so.
LEMMA MessagingStep ==
    ASSUME MessagingTypeOK, [Next]_vars
    PROVE  MessagingTypeOK' /\ FateIsFinal
<1> /\ Submitted \in Messages
    /\ \A n \in Attempts : Called[n] \in Messages
  BY WebhookSets, MessagingSets
<1>1. ASSUME UNCHANGED messagingVars PROVE MessagingTypeOK' /\ FateIsFinal
  <2> StreamTypes /\ SendTypes
    BY TypeParts
  <2>1. SendTypes' /\ FateIsFinal
    BY <1>1 DEF SendTypes, FateIsFinal, messagingVars, sendVars
  <2>2. StreamTypes'
    BY <1>1 DEF StreamTypes, messagingVars, recordVars, streamVars, streamData, flushVars
  <2> QED
    BY <2>1, <2>2, TypeParts
<1>2. CASE StreamStep
  BY <1>2, StreamStepType
<1>3. CASE SenderStep
  <2>1. PICK m \in Messages : CreateMessage(m) \/ Refuse(m) \/ Route(m) \/ Forward(m)
                                \/ ForwardFails(m) \/ RollBackMessage(m)
    BY <1>3 DEF SenderStep
  <2> QED
    BY <2>1, MessageStepType
<1>4. CASE SubmitIntent \/ Commit
  BY <1>4, MessageStepType DEF SubmitIntent, Commit
<1>5. ASSUME NEW n \in Attempts, Attempting(n)
      PROVE  MessagingTypeOK' /\ FateIsFinal
  <2>1. CASE CreateMessage(Called[n])
    BY <2>1, MessageStepType
  <2>2. CASE UNCHANGED messagingVars
    BY <1>1, <2>2
  <2> QED
    BY <1>5, <2>1, <2>2 DEF Attempting, Call, AnnounceCall, Announced, OnWebhookExecuted,
                            OnWebhookExecutedFails
<1>6. CASE StopWorker
  <2>1. Sending \cap CallMessages \in SUBSET Sending
    OBVIOUS
  <2> QED
    BY <1>6, <2>1, LoseType DEF StopWorker
<1>7. CASE CheckIntent \/ CreateWebhook \/ TimePasses \/ Poll \/ SetupNextAttempt
             \/ SetupFails \/ UNCHANGED vars
  <2>1. UNCHANGED messagingVars
    BY <1>7 DEF CheckIntent, CreateWebhook, TimePasses, Poll, SetupNextAttempt,
                SetupFails, vars
  <2> QED
    BY <1>1, <2>1
<1> QED
  BY <1>2, <1>3, <1>4, <1>5, <1>6, <1>7 DEF Next

(***************************************************************************)
(* The inductive invariant.                                                *)
(***************************************************************************)

\* Only the DB transaction of SubmitIntent makes a webhook pending, and a
\* webhook that is registered later stays unknown.
SubmitInv ==
    /\ webhook.state \notin {"none", "Unknown"} => Committed
    /\ register \in {"none", "checked"} => webhook.state = "none"
    /\ found = "Unknown" => register = "done"

\* The worker has not touched a webhook that was never pending.
FreshInv ==
    webhook.state \in {"none", "Unknown"} =>
        /\ webhook.attempts = 0
        /\ polled = None
        /\ \A n \in Attempts : begun[n] = 0

\* The attempts that were started are the first ones, as many as the record of
\* a pending webhook counts.
FirstAttempts(count) == \A n \in Attempts : begun[n] = IF n <= count THEN 1 ELSE 0

CountInv ==
    /\ \A n \in Attempts : attempt[n] # "none" => begun[n] = 1 /\ n < Delays
    /\ polled # None =>
        /\ FirstAttempts(polled)
        /\ webhook.state = "Pending" => webhook.attempts = polled
    /\ webhook.state = "Pending" => FirstAttempts(webhook.attempts)

\* An attempt that succeeded was processed, and its message was saved.
CallInv ==
    \A n \in Attempts :
        /\ attempt[n] \in {"called", "announcing", "succeeded"} => n \in reached
        /\ attempt[n] = "succeeded" => send[Called[n]] \in {"done", "failed"}

WebhookTypes ==
    /\ webhook \in [state : WebhookStates, attempts : 0 .. Delays - 1]
    /\ due \in BOOLEAN
    /\ register \in {"none", "checked", "done"}
    /\ found \in {"none", "Unknown"}
    /\ polled \in {None} \cup (0 .. Delays - 1)
    /\ attempt \in [Attempts -> AttemptStates]
    /\ begun \in [Attempts -> Nat]
    /\ reached \subseteq Attempts
    /\ faults \in 0 .. MaxFaults

WebhookInv ==
    /\ WebhookTypes
    /\ SubmitInv /\ FreshInv /\ CountInv /\ CallInv
    /\ NoAttemptTwice /\ FailedIsExhausted /\ ConfirmedIsAnnounced

IInv == MessagingTypeOK /\ WebhookInv

\* The type invariant of Webhook, in two parts.
LEMMA TypeOfParts == IInv => TypeOK
BY DEF IInv, WebhookInv, WebhookTypes, TypeOK

\* Nothing is sent or called at first.
LEMMA InvInit == Init => IInv
<1> SUFFICES ASSUME Init PROVE IInv
  OBVIOUS
<1> USE MessagingSets, WebhookSets
<1>1. MessagingTypeOK
  <2>1. <<>> \in Seq(Messages) /\ Len(<<>>) = 0
    BY EmptySeq
  <2>2. SendTypes
    BY DEF Init, MessagingInit, SendTypes, SendStates
  <2>3. StreamTypes
    <3>1. /\ phase \in [Streams -> Phases]
          /\ streams \in [Servers -> Streams \cup {NoStream}]
          /\ \A s \in Servers : lock[s] = NoStream
      BY DEF Init, MessagingInit, Phases
    <3>2. /\ channel \in [Streams -> Seq(Messages)]
          /\ \A st \in Streams : Len(channel[st]) <= Buffer
      BY <2>1 DEF Init, MessagingInit
    <3> QED
      BY <3>1, <3>2 DEF Init, MessagingInit, StreamTypes
  <2> QED
    BY <2>2, <2>3, TypeParts
<1>2. WebhookTypes
  <2>1. webhook \in [state : WebhookStates, attempts : 0 .. Delays - 1]
    BY DEF Init, WebhookStates
  <2>2. attempt \in [Attempts -> AttemptStates] /\ begun \in [Attempts -> Nat]
    BY DEF Init, AttemptStates
  <2> QED
    BY <2>1, <2>2 DEF Init, WebhookTypes
<1>3. SubmitInv /\ FreshInv /\ CountInv /\ CallInv
  BY DEF Init, SubmitInv, FreshInv, CountInv, CallInv, FirstAttempts, None
<1>4. NoAttemptTwice /\ FailedIsExhausted /\ ConfirmedIsAnnounced
  BY DEF Init, NoAttemptTwice, FailedIsExhausted, ConfirmedIsAnnounced
<1> QED
  BY <1>1, <1>2, <1>3, <1>4 DEF IInv, WebhookInv

\* Steps that leave the webhook alone change nothing the invariant speaks of: a
\* message that was sent was sent.
LEMMA OthersKeepInv ==
    ASSUME WebhookInv, FateIsFinal, UNCHANGED webhookVars
    PROVE  WebhookInv'
<1> /\ Submitted \in Messages
    /\ \A n \in Attempts : Called[n] \in Messages
  BY WebhookSets, MessagingSets
<1> USE DEF webhookVars
<1> /\ WebhookTypes
    /\ SubmitInv /\ FreshInv /\ CountInv /\ CallInv
    /\ NoAttemptTwice /\ FailedIsExhausted /\ ConfirmedIsAnnounced
  BY DEF WebhookInv
<1>1. Committed => Committed'
  BY DEF FateIsFinal, Committed
<1>2. \A n \in Attempts : send[Called[n]] \in {"done", "failed"} =>
                          send'[Called[n]] = send[Called[n]]
  BY DEF FateIsFinal
<1>3. WebhookTypes' /\ SubmitInv' /\ FreshInv'
  BY <1>1 DEF WebhookTypes, SubmitInv, FreshInv
<1>4. CountInv' /\ NoAttemptTwice' /\ FailedIsExhausted'
  BY DEF CountInv, FirstAttempts, NoAttemptTwice, FailedIsExhausted
<1>5. CallInv'
  BY <1>2 DEF CallInv
<1>6. ConfirmedIsAnnounced'
  BY <1>2 DEF ConfirmedIsAnnounced, WebhookTypes
<1> QED
  BY <1>3, <1>4, <1>5, <1>6 DEF WebhookInv

\* An update is merged with the record, or dropped.
LEMMA UpdateMerges ==
    ASSUME WebhookTypes, NEW state \in {"Pending", "Failed", "Confirmed"},
           NEW attempts \in 0 .. Delays - 1, UpdateRecord(state, attempts, FALSE)
    PROVE  /\ webhook' \in [state : WebhookStates, attempts : 0 .. Delays - 1]
           /\ due' \in BOOLEAN
           /\ \/ /\ webhook' = webhook
                 /\ \/ webhook.state = "Confirmed"
                    \/ webhook.state = "Failed" /\ state # "Confirmed"
                    \/ state = "Pending" /\ attempts <= webhook.attempts
              \/ /\ webhook'.state = state /\ webhook'.attempts = attempts
                 /\ webhook.state # "Confirmed"
<1>1. CASE UNCHANGED <<webhook, due>>
  BY <1>1 DEF UpdateRecord, WebhookTypes
<1>2. CASE /\ webhook' = [state |-> state, attempts |-> attempts]
           /\ due' = FALSE
           /\ webhook.state # "Confirmed"
  <2>1. state \in WebhookStates
    BY DEF WebhookStates
  <2> QED
    BY <1>2, <2>1
<1> QED
  BY <1>1, <1>2 DEF UpdateRecord

\* An attempt that is made was counted, its webhook was pending before.
LEMMA AttemptIsOfCommitted ==
    ASSUME WebhookInv, NEW n \in Attempts, attempt[n] # "none"
    PROVE  /\ webhook.state \notin {"none", "Unknown"}
           /\ n \in 0 .. Delays - 1
           /\ Committed
BY WebhookSets DEF WebhookInv, WebhookTypes, CountInv, FreshInv, SubmitInv, Attempts

(***************************************************************************)
(* The steps of the webhook.                                               *)
(***************************************************************************)

\* Registration creates a record that nobody has touched.
LEMMA RegistrationKeepsInv ==
    ASSUME WebhookInv, CheckIntent \/ CreateWebhook
    PROVE  WebhookInv'
<1> /\ UNCHANGED <<messagingVars, due, found, polled, attempt, begun, reached, faults>>
    /\ send' = send
  BY DEF CheckIntent, CreateWebhook, messagingVars, sendVars
<1> /\ WebhookTypes
    /\ SubmitInv /\ FreshInv /\ CountInv /\ CallInv
    /\ NoAttemptTwice /\ FailedIsExhausted /\ ConfirmedIsAnnounced
  BY DEF WebhookInv
<1>1. CASE CheckIntent
  BY <1>1 DEF CheckIntent, WebhookTypes, SubmitInv, FreshInv, CountInv, FirstAttempts,
              CallInv, NoAttemptTwice, FailedIsExhausted, ConfirmedIsAnnounced, Committed,
              WebhookInv
<1>2. CASE CreateWebhook
  <2>1. webhook' = [state |-> "Unknown", attempts |-> webhook.attempts]
    BY <1>2 DEF CreateWebhook, WebhookTypes
  <2>2. webhook.state = "none" /\ register' = "done"
    BY <1>2 DEF CreateWebhook, SubmitInv
  <2>3. WebhookTypes'
    BY <2>1, <2>2 DEF WebhookTypes, WebhookStates
  <2>4. SubmitInv' /\ FreshInv'
    BY <2>1, <2>2 DEF SubmitInv, FreshInv
  <2>5. CountInv' /\ CallInv'
    BY <2>1, <2>2 DEF CountInv, CallInv, FreshInv, FirstAttempts
  <2>6. NoAttemptTwice' /\ FailedIsExhausted' /\ ConfirmedIsAnnounced'
    BY <2>1 DEF NoAttemptTwice, FailedIsExhausted, ConfirmedIsAnnounced
  <2> QED
    BY <2>3, <2>4, <2>5, <2>6 DEF WebhookInv
<1> QED
  BY <1>1, <1>2

\* The DB transaction of SubmitIntent finds the webhook registered or not at
\* all, and makes it pending when it commits.
LEMMA SubmissionKeepsInv ==
    ASSUME MessagingTypeOK, WebhookInv, FateIsFinal, SubmitIntent \/ Commit
    PROVE  WebhookInv'
<1> /\ Submitted \in Messages
    /\ \A n \in Attempts : Called[n] \in Messages
    /\ Delays \in Nat \ {0}
  BY WebhookSets, MessagingSets
<1> /\ WebhookTypes
    /\ SubmitInv /\ FreshInv /\ CountInv /\ CallInv
    /\ NoAttemptTwice /\ FailedIsExhausted /\ ConfirmedIsAnnounced
  BY DEF WebhookInv
<1>1. ~Committed
  BY DEF SubmitIntent, CreateMessage, Commit, CommitMessage, Committed
<1>2. /\ webhook.state \in {"none", "Unknown"}
      /\ webhook.attempts = 0 /\ polled = None
      /\ \A n \in Attempts : begun[n] = 0 /\ attempt[n] = "none"
  BY <1>1 DEF SubmitInv, FreshInv, CountInv
<1>3. CASE SubmitIntent
  <2>1. UNCHANGED <<webhook, due, register, polled, attempt, begun, reached, faults>>
    BY <1>3 DEF SubmitIntent
  <2>2. found' = webhook.state
    BY <1>3 DEF SubmitIntent
  <2>3. WebhookTypes'
    BY <1>2, <2>1, <2>2 DEF WebhookTypes
  <2>4. SubmitInv' /\ FreshInv'
    BY <1>2, <2>1, <2>2 DEF SubmitInv, FreshInv, WebhookTypes
  <2>5. CountInv' /\ CallInv'
    BY <1>2, <2>1 DEF CountInv, CallInv
  <2>6. NoAttemptTwice' /\ FailedIsExhausted' /\ ConfirmedIsAnnounced'
    BY <1>2, <2>1 DEF NoAttemptTwice, FailedIsExhausted, ConfirmedIsAnnounced
  <2> QED
    BY <2>3, <2>4, <2>5, <2>6 DEF WebhookInv
<1>4. CASE Commit
  <2>1. UNCHANGED <<register, found, polled, attempt, begun, reached, faults>>
    BY <1>4 DEF Commit
  <2>2. \/ UNCHANGED <<webhook, due>>
        \/ /\ found = "Unknown"
           /\ webhook' = [state |-> "Pending", attempts |-> 0] /\ due' = TRUE
    BY <1>4 DEF Commit
  <2>3. Committed'
    BY <1>4 DEF Commit, CommitMessage, Committed, MessagingTypeOK
  <2>4. WebhookTypes'
    <3>1. webhook' \in [state : WebhookStates, attempts : 0 .. Delays - 1]
      <4>1. CASE UNCHANGED <<webhook, due>>
        BY <4>1 DEF WebhookTypes
      <4>2. CASE webhook' = [state |-> "Pending", attempts |-> 0]
        BY <4>2 DEF WebhookStates
      <4> QED
        BY <2>2, <4>1, <4>2
    <3> QED
      BY <2>1, <2>2, <3>1 DEF WebhookTypes
  <2>5. SubmitInv' /\ FreshInv'
    BY <1>2, <2>1, <2>2, <2>3 DEF SubmitInv, FreshInv
  <2>6. CountInv' /\ CallInv'
    BY <1>2, <2>1, <2>2 DEF CountInv, CallInv, FirstAttempts, Attempts
  <2>7. NoAttemptTwice' /\ FailedIsExhausted' /\ ConfirmedIsAnnounced'
    BY <1>2, <2>1, <2>2 DEF NoAttemptTwice, FailedIsExhausted, ConfirmedIsAnnounced
  <2> QED
    BY <2>4, <2>5, <2>6, <2>7 DEF WebhookInv
<1> QED
  BY <1>3, <1>4

\* The worker looks for a pending webhook, and counts an attempt before it
\* starts it.
LEMMA PollingKeepsInv ==
    ASSUME WebhookInv, TimePasses \/ Poll \/ SetupFails
    PROVE  WebhookInv'
<1> /\ UNCHANGED <<messagingVars, webhook, register, found, attempt, begun, reached>>
    /\ send' = send
  BY DEF TimePasses, Poll, SetupFails, messagingVars, sendVars
<1> /\ WebhookTypes
    /\ SubmitInv /\ FreshInv /\ CountInv /\ CallInv
    /\ NoAttemptTwice /\ FailedIsExhausted /\ ConfirmedIsAnnounced
  BY DEF WebhookInv
<1>1. /\ \/ polled' \in {polled, None}
         \/ polled' = webhook.attempts /\ webhook.state = "Pending"
      /\ due' \in BOOLEAN
      /\ faults' \in 0 .. MaxFaults
  <2> due \in BOOLEAN /\ faults \in 0 .. MaxFaults
    BY DEF WebhookTypes
  <2>1. CASE TimePasses
    BY <2>1 DEF TimePasses
  <2>2. CASE Poll
    BY <2>2 DEF Poll
  <2>3. CASE SetupFails
    <3>1. /\ faults < MaxFaults /\ faults' = faults + 1
          /\ polled' = None /\ due' = due
      BY <2>3 DEF SetupFails
    <3>2. MaxFaults \in Nat
      BY WebhookSets
    <3>3. faults' \in 0 .. MaxFaults
      BY <3>1, <3>2
    <3>4. polled' \in {polled, None}
      BY <3>1
    <3>5. due' \in BOOLEAN
      BY <3>1
    <3> QED
      BY <3>3, <3>4, <3>5
  <2> QED
    BY <2>1, <2>2, <2>3
<1>2. WebhookTypes'
  BY <1>1 DEF WebhookTypes
<1>3. SubmitInv' /\ FreshInv'
  BY <1>1 DEF SubmitInv, FreshInv, Committed
<1>4. CountInv'
  BY <1>1 DEF CountInv, FirstAttempts
<1>5. CallInv' /\ NoAttemptTwice' /\ FailedIsExhausted' /\ ConfirmedIsAnnounced'
  BY DEF CallInv, NoAttemptTwice, FailedIsExhausted, ConfirmedIsAnnounced
<1> QED
  BY <1>2, <1>3, <1>4, <1>5 DEF WebhookInv

LEMMA SetupKeepsInv ==
    ASSUME WebhookInv, SetupNextAttempt
    PROVE  WebhookInv'
<1> /\ UNCHANGED <<messagingVars, register, found, reached, faults>>
    /\ send' = send /\ polled' = None
  BY DEF SetupNextAttempt, messagingVars, sendVars
<1> /\ Delays \in Nat \ {0}
    /\ polled \in 0 .. Delays - 1
  BY WebhookSets DEF SetupNextAttempt, WebhookInv, WebhookTypes
<1> /\ WebhookTypes
    /\ SubmitInv /\ FreshInv /\ CountInv /\ CallInv
    /\ NoAttemptTwice /\ FailedIsExhausted /\ ConfirmedIsAnnounced
  BY DEF WebhookInv
<1>1. /\ webhook.state \notin {"none", "Unknown"}
      /\ polled # None
      /\ \A n \in Attempts : begun[n] = IF n <= polled THEN 1 ELSE 0
      /\ webhook.state = "Pending" => webhook.attempts = polled
  BY DEF SetupNextAttempt, FreshInv, CountInv, FirstAttempts
<1>2. CASE HasDelay(polled + 2)
  <2>1. /\ UpdateRecord("Pending", polled + 1, FALSE)
        /\ attempt' = [attempt EXCEPT ![polled + 1] = "calling"]
        /\ begun' = [begun EXCEPT ![polled + 1] = @ + 1]
    BY <1>2 DEF SetupNextAttempt
  <2>2. polled + 1 \in Attempts /\ polled + 1 \in 0 .. Delays - 1
    BY <1>2 DEF HasDelay, Attempts
  <2>3. /\ webhook' \in [state : WebhookStates, attempts : 0 .. Delays - 1]
        /\ due' \in BOOLEAN
        /\ \/ webhook' = webhook /\ webhook.state # "Pending"
           \/ webhook'.state = "Pending" /\ webhook'.attempts = polled + 1
    <3>1. /\ webhook' \in [state : WebhookStates, attempts : 0 .. Delays - 1]
          /\ due' \in BOOLEAN
          /\ \/ /\ webhook' = webhook
                /\ \/ webhook.state \in {"Confirmed", "Failed"}
                   \/ polled + 1 <= webhook.attempts
             \/ webhook'.state = "Pending" /\ webhook'.attempts = polled + 1
      BY <2>1, <2>2, UpdateMerges
    <3> QED
      BY <1>1, <3>1
  <2>4. \A n \in Attempts : begun'[n] = IF n <= polled + 1 THEN 1 ELSE 0
    BY <1>1, <2>1, <2>2 DEF WebhookTypes, Attempts
  <2>5. WebhookTypes'
    BY <2>1, <2>2, <2>3 DEF WebhookTypes, AttemptStates
  <2>6. SubmitInv' /\ FreshInv'
    BY <1>1, <2>3 DEF SubmitInv, FreshInv, Committed
  <2>7. CountInv'
    <3>1. \A n \in Attempts : attempt'[n] # "none" => begun'[n] = 1 /\ n < Delays
      BY <1>1, <2>1, <2>2, <2>4 DEF CountInv, WebhookTypes, Attempts
    <3>2. webhook'.state = "Pending" => FirstAttempts(webhook.attempts)'
      BY <2>3, <2>4 DEF FirstAttempts
    <3> QED
      BY <3>1, <3>2 DEF CountInv
  <2>8. CallInv'
    BY <2>1 DEF CallInv, WebhookTypes
  <2>9. NoAttemptTwice' /\ FailedIsExhausted'
    <3>1. NoAttemptTwice'
      BY <2>4 DEF NoAttemptTwice
    <3>2. webhook'.state # "Failed"
      <4>1. webhook.state # "Failed"
        BY <1>1, <2>2 DEF FailedIsExhausted, Attempts
      <4> QED
        BY <2>3, <4>1
    <3> QED
      BY <3>1, <3>2 DEF FailedIsExhausted
  <2>10. ConfirmedIsAnnounced'
    BY <2>3 DEF ConfirmedIsAnnounced
  <2> QED
    BY <2>5, <2>6, <2>7, <2>8, <2>9, <2>10 DEF WebhookInv
<1>3. CASE ~HasDelay(polled + 2)
  <2>1. UpdateRecord("Failed", polled, FALSE) /\ UNCHANGED <<attempt, begun>>
    BY <1>3 DEF SetupNextAttempt
  <2>2. polled = Delays - 1
    BY <1>3 DEF HasDelay
  <2>3. /\ webhook' \in [state : WebhookStates, attempts : 0 .. Delays - 1]
        /\ due' \in BOOLEAN
        /\ \/ webhook' = webhook /\ webhook.state # "Pending"
           \/ webhook'.state = "Failed"
    BY <1>1, <2>1, UpdateMerges
  <2>4. WebhookTypes'
    BY <2>1, <2>3 DEF WebhookTypes
  <2>5. SubmitInv' /\ FreshInv'
    BY <1>1, <2>3 DEF SubmitInv, FreshInv, Committed
  <2>6. CountInv' /\ CallInv'
    BY <2>1, <2>3 DEF CountInv, CallInv
  <2>7. NoAttemptTwice' /\ FailedIsExhausted'
    BY <1>1, <2>1, <2>2 DEF NoAttemptTwice, FailedIsExhausted, Attempts
  <2>8. ConfirmedIsAnnounced'
    BY <2>3 DEF ConfirmedIsAnnounced
  <2> QED
    BY <2>4, <2>5, <2>6, <2>7, <2>8 DEF WebhookInv
<1> QED
  BY <1>2, <1>3

\* An attempt that goes on touches the record only in the end.
LEMMA AttemptKeepsInv ==
    ASSUME MessagingTypeOK, WebhookInv, FateIsFinal,
           NEW n \in Attempts, Call(n) \/ AnnounceCall(n) \/ Announced(n)
    PROVE  WebhookInv'
<1> /\ Submitted \in Messages
    /\ \A k \in Attempts : Called[k] \in Messages
    /\ MaxFaults \in Nat
  BY WebhookSets, MessagingSets
<1> /\ WebhookTypes
    /\ SubmitInv /\ FreshInv /\ CountInv /\ CallInv
    /\ NoAttemptTwice /\ FailedIsExhausted /\ ConfirmedIsAnnounced
  BY DEF WebhookInv
<1>1. /\ UNCHANGED <<webhook, due, register, found, polled, begun>>
      /\ attempt[n] # "none"
      /\ reached \subseteq reached' /\ reached' \subseteq Attempts
      /\ faults' \in 0 .. MaxFaults
  <2> reached \subseteq Attempts /\ faults \in 0 .. MaxFaults
    BY DEF WebhookTypes
  <2>1. CASE Call(n)
    BY <2>1 DEF Call
  <2>2. CASE AnnounceCall(n)
    <3>1. faults' = faults \/ (faults < MaxFaults /\ faults' = faults + 1)
      BY <2>2 DEF AnnounceCall
    <3>2. faults' \in 0 .. MaxFaults
      BY <3>1
    <3> QED
      BY <2>2, <3>2 DEF AnnounceCall
  <2>3. CASE Announced(n)
    BY <2>3 DEF Announced
  <2> QED
    BY <2>1, <2>2, <2>3
<1>2. \E next \in AttemptStates :
          /\ attempt' = [attempt EXCEPT ![n] = next]
          /\ next \in {"called", "announcing", "succeeded"} => n \in reached'
          /\ next = "succeeded" => send[Called[n]] \in {"done", "failed"}
  <2>1. attempt[n] \in {"called", "announcing", "succeeded"} => n \in reached
    BY DEF CallInv
  <2>2. CASE Call(n)
    BY <2>2 DEF Call, AttemptStates
  <2>3. CASE AnnounceCall(n)
    <3>1. attempt[n] = "called" /\ reached' = reached
      BY <2>3 DEF AnnounceCall
    <3>2. \/ attempt' = [attempt EXCEPT ![n] = "announcing"]
          \/ attempt' = [attempt EXCEPT ![n] = "failed"]
      BY <2>3 DEF AnnounceCall
    <3> QED
      BY <2>1, <3>1, <3>2 DEF AttemptStates
  <2>4. CASE Announced(n)
    BY <2>1, <2>4 DEF Announced, AttemptStates
  <2> QED
    BY <2>2, <2>3, <2>4
<1>3. Committed => Committed'
  BY DEF FateIsFinal, Committed
<1>4. \A k \in Attempts : send[Called[k]] \in {"done", "failed"} =>
                          send'[Called[k]] = send[Called[k]]
  BY DEF FateIsFinal
<1>5. WebhookTypes'
  BY <1>1, <1>2 DEF WebhookTypes
<1>6. SubmitInv' /\ FreshInv'
  BY <1>1, <1>3 DEF SubmitInv, FreshInv
<1>7. CountInv'
  <2>1. \A k \in Attempts : attempt'[k] # "none" => attempt[k] # "none"
    BY <1>1, <1>2 DEF WebhookTypes
  <2> QED
    BY <1>1, <2>1 DEF CountInv, FirstAttempts
<1>8. CallInv'
  BY <1>1, <1>2, <1>4 DEF CallInv, WebhookTypes
<1>9. NoAttemptTwice' /\ FailedIsExhausted'
  BY <1>1 DEF NoAttemptTwice, FailedIsExhausted
<1>10. ConfirmedIsAnnounced'
  BY <1>1, <1>4 DEF ConfirmedIsAnnounced, WebhookTypes
<1> QED
  BY <1>5, <1>6, <1>7, <1>8, <1>9, <1>10 DEF WebhookInv

\* The result of an attempt is merged with whatever the record is by then.
LEMMA ResultKeepsInv ==
    ASSUME WebhookInv, NEW n \in Attempts,
           OnWebhookExecuted(n) \/ OnWebhookExecutedFails(n)
    PROVE  WebhookInv'
<1> /\ \A k \in Attempts : Called[k] \in Messages
    /\ MaxFaults \in Nat
  BY WebhookSets, MessagingSets
<1> /\ UNCHANGED <<messagingVars, register, found, polled, begun, reached>>
    /\ send' = send
    /\ attempt' = [attempt EXCEPT ![n] = "over"]
    /\ attempt[n] # "none"
  BY DEF OnWebhookExecuted, OnWebhookExecutedFails, messagingVars, sendVars
<1> /\ WebhookTypes
    /\ SubmitInv /\ FreshInv /\ CountInv /\ CallInv
    /\ NoAttemptTwice /\ FailedIsExhausted /\ ConfirmedIsAnnounced
  BY DEF WebhookInv
<1>1. /\ webhook.state \notin {"none", "Unknown"}
      /\ n \in 0 .. Delays - 1
      /\ Committed
  BY AttemptIsOfCommitted
<1>2. /\ webhook' \in [state : WebhookStates, attempts : 0 .. Delays - 1]
      /\ due' \in BOOLEAN
      /\ \/ webhook' = webhook
         \/ webhook'.state = "Confirmed" /\ attempt[n] = "succeeded"
  <2>1. CASE UNCHANGED <<webhook, due>>
    BY <2>1 DEF WebhookTypes
  <2>2. CASE attempt[n] = "succeeded" /\ UpdateRecord("Confirmed", n, FALSE)
    BY <1>1, <2>2, UpdateMerges
  <2>3. ~(n >= Delays)
    BY <1>1, WebhookSets
  <2> QED
    BY <2>1, <2>2, <2>3 DEF OnWebhookExecuted, OnWebhookExecutedFails
<1>3. faults' \in 0 .. MaxFaults
  <2>1. faults' = faults \/ (faults < MaxFaults /\ faults' = faults + 1)
    BY DEF OnWebhookExecuted, OnWebhookExecutedFails
  <2>2. faults \in 0 .. MaxFaults
    BY DEF WebhookTypes
  <2> QED
    BY <2>1, <2>2
<1>4. WebhookTypes'
  BY <1>2, <1>3 DEF WebhookTypes, AttemptStates
<1>5. SubmitInv' /\ FreshInv'
  BY <1>1, <1>2 DEF SubmitInv, FreshInv, Committed
<1>6. CountInv' /\ NoAttemptTwice' /\ FailedIsExhausted'
  BY <1>2 DEF CountInv, FirstAttempts, NoAttemptTwice, FailedIsExhausted, WebhookTypes
<1>7. CallInv'
  BY DEF CallInv, WebhookTypes
<1>8. ConfirmedIsAnnounced'
  <2>1. attempt[n] = "succeeded" =>
            n \in reached /\ send[Called[n]] \in {"done", "failed"}
    BY DEF CallInv
  <2> QED
    BY <1>2, <2>1 DEF ConfirmedIsAnnounced
<1> QED
  BY <1>4, <1>5, <1>6, <1>7, <1>8 DEF WebhookInv

\* When the worker stops, what it has counted stays counted.
LEMMA StopKeepsInv ==
    ASSUME WebhookInv, FateIsFinal, StopWorker
    PROVE  WebhookInv'
<1> /\ Submitted \in Messages
    /\ \A n \in Attempts : Called[n] \in Messages
    /\ MaxFaults \in Nat
  BY WebhookSets, MessagingSets
<1> /\ UNCHANGED <<webhook, due, register, found, begun, reached>>
    /\ polled' = None
    /\ attempt' = [n \in Attempts |-> IF attempt[n] = "none" THEN "none" ELSE "over"]
    /\ faults < MaxFaults /\ faults' = faults + 1
  BY DEF StopWorker
<1> /\ WebhookTypes
    /\ SubmitInv /\ FreshInv /\ CountInv /\ CallInv
    /\ NoAttemptTwice /\ FailedIsExhausted /\ ConfirmedIsAnnounced
  BY DEF WebhookInv
<1>1. Committed => Committed'
  BY DEF FateIsFinal, Committed
<1>2. \A n \in Attempts : send[Called[n]] \in {"done", "failed"} =>
                          send'[Called[n]] = send[Called[n]]
  BY DEF FateIsFinal
<1>3. faults' \in 0 .. MaxFaults
  BY DEF WebhookTypes
<1>4. WebhookTypes'
  BY <1>3 DEF WebhookTypes, AttemptStates
<1>5. SubmitInv' /\ FreshInv'
  BY <1>1 DEF SubmitInv, FreshInv
<1>6. CountInv' /\ CallInv'
  BY DEF CountInv, CallInv, FirstAttempts
<1>7. NoAttemptTwice' /\ FailedIsExhausted'
  BY DEF NoAttemptTwice, FailedIsExhausted
<1>8. ConfirmedIsAnnounced'
  BY <1>2 DEF ConfirmedIsAnnounced, WebhookTypes
<1> QED
  BY <1>4, <1>5, <1>6, <1>7, <1>8 DEF WebhookInv

\* The invariant is inductive.
LEMMA InvStep == IInv /\ [Next]_vars => IInv'
<1> SUFFICES ASSUME IInv, [Next]_vars PROVE IInv'
  OBVIOUS
<1> USE DEF IInv
<1>1. MessagingTypeOK' /\ FateIsFinal
  BY MessagingStep
<1>2. CASE (StreamStep \/ SenderStep) /\ UNCHANGED webhookVars
  BY <1>1, <1>2, OthersKeepInv
<1>3. CASE UNCHANGED vars
  BY <1>1, <1>3, OthersKeepInv DEF vars
<1>4. CASE CheckIntent \/ CreateWebhook
  BY <1>1, <1>4, RegistrationKeepsInv
<1>5. CASE SubmitIntent \/ Commit
  BY <1>1, <1>5, SubmissionKeepsInv
<1>6. CASE TimePasses \/ Poll \/ SetupFails
  BY <1>1, <1>6, PollingKeepsInv
<1>7. CASE SetupNextAttempt
  BY <1>1, <1>7, SetupKeepsInv
<1>8. CASE StopWorker
  BY <1>1, <1>8, StopKeepsInv
<1>9. ASSUME NEW n \in Attempts, Attempting(n) PROVE IInv'
  BY <1>1, <1>9, AttemptKeepsInv, ResultKeepsInv DEF Attempting
<1> QED
  BY <1>2, <1>3, <1>4, <1>5, <1>6, <1>7, <1>8, <1>9 DEF Next

LEMMA Invariance == Spec => []IInv
<1> QED
  BY InvInit, InvStep, PTL DEF Spec

(***************************************************************************)
(* Messages reach the open stream.                                         *)
(***************************************************************************)

\* A stream holds its place in the map of its server until its cleanup leaves
\* it, and the lock of the key from its announcement to the end of its cleanup.
\* The record points to the live stream that no other server has displaced.
PlaceInv ==
    /\ \A st \in Streams :
          /\ phase[st] \in {"waiting", "live", "ending"} => streams[ServerOf[st]] = st
          /\ phase[st] \in {"live", "ending", "removed"} => lock[ServerOf[st]] = st
    /\ flushed \subseteq Live
    /\ \A st \in Live \ displaced : location = ServerOf[st] /\ ~old

\* A message reaches the stream, or it is left to the flush because its sender
\* may have read the record before the stream saved it.
Covered(st, m) ==
    \/ Notified(st, m)
    \/ m \in earlier[st] /\ (LeftToFlush(st, m) \/ st \in abandoned)

\* A message that is still being forwarded goes to the server of that stream,
\* unless it is covered already.
DeliveryInv ==
    /\ \A m \in Messages : send[m] = "forwarded" => m \in InTx
    /\ \A st \in Live \ displaced : \A m \in stored \ InTx :
          \/ Covered(st, m)
          \/ send[m] # "done" /\ (send[m] = "routed" => target[m] = ServerOf[st])

ReachInv == PlaceInv /\ DeliveryInv

placeVars == <<streams, lock, phase, flushed, recordVars>>

\* No other stream is live where one holds the lock, and a stream that takes the
\* record displaces those of the other servers.
LEMMA OneUndisplaced ==
    ASSUME PlaceInv, NEW st \in Streams, lock[ServerOf[st]] \in {st, NoStream},
           displaced' = displaced \cup Rivals(st)
    PROVE  \A u \in Live \ displaced' : u = st
<1> NoStream \notin Streams
  BY MessagingSets
<1> QED
  BY DEF PlaceInv, Rivals, Live

\* What a notified stream gets is on its way, and so is all that was before.
LEMMA NotifyReaches ==
    ASSUME StreamTypes, NEW st \in Streams, NEW m \in Messages, Notify(st, m)
    PROVE  /\ closed \subseteq closed'
           /\ \A u \in Streams : \A n \in DOMAIN channel[u] :
                  n \in DOMAIN channel'[u] /\ channel'[u][n] = channel[u][n]
           /\ phase[st] = "live" =>
                  st \in closed' \/ \E n \in DOMAIN channel'[st] : channel'[st][n] = m
<1>1. CASE UNCHANGED <<channel, closed>> /\ (st \in closed \/ phase[st] # "live")
  BY <1>1
<1>2. CASE channel' = [channel EXCEPT ![st] = Append(@, m)] /\ closed' = closed
  <2>1. channel \in [Streams -> Seq(Messages)] /\ channel[st] \in Seq(Messages)
    BY DEF StreamTypes
  <2>2. /\ Append(channel[st], m) \in Seq(Messages)
        /\ Len(channel[st]) \in Nat
        /\ DOMAIN channel[st] = 1 .. Len(channel[st])
        /\ DOMAIN Append(channel[st], m) = 1 .. Len(channel[st]) + 1
        /\ \A n \in 1 .. Len(channel[st]) : Append(channel[st], m)[n] = channel[st][n]
        /\ Append(channel[st], m)[Len(channel[st]) + 1] = m
    BY <2>1, AppendProperties, LenProperties
  <2>3. channel'[st] = Append(channel[st], m)
        /\ \A u \in Streams \ {st} : channel'[u] = channel[u]
    BY <1>2, <2>1
  <2>4. \A n \in DOMAIN channel[st] :
            n \in DOMAIN channel'[st] /\ channel'[st][n] = channel[st][n]
    BY <2>2, <2>3
  <2>5. \A u \in Streams : \A n \in DOMAIN channel[u] :
            n \in DOMAIN channel'[u] /\ channel'[u][n] = channel[u][n]
    BY <2>3, <2>4
  <2>6. \E n \in DOMAIN channel'[st] : channel'[st][n] = m
    <3>1. Len(channel[st]) + 1 \in DOMAIN channel'[st]
      BY <2>2, <2>3
    <3> QED
      BY <2>2, <2>3, <3>1
  <2> QED
    BY <1>2, <2>5, <2>6
<1>3. CASE closed' = closed \cup {st} /\ channel' = channel
  BY <1>3
<1> QED
  BY <1>1, <1>2, <1>3 DEF Notify

\* The places of the streams and the record, whoever comes, goes or stops.
LEMMA PlaceStep ==
    ASSUME MessagingTypeOK, PlaceInv, StreamStep
    PROVE  PlaceInv'
<1> USE MessagingSets
<1> StreamTypes
  BY TypeParts
<1>1. ASSUME UNCHANGED placeVars PROVE PlaceInv'
  BY <1>1 DEF PlaceInv, Live, placeVars, recordVars
<1>2. ASSUME NEW st \in Streams, Register(st) PROVE PlaceInv'
  <2>1. UNCHANGED <<lock, flushed, location, old, displaced>>
    BY <1>2 DEF Register, streamData, flushVars, recordVars
  <2>2. /\ phase' \in {[phase EXCEPT ![st] = "waiting"], [phase EXCEPT ![st] = "ended"]}
        /\ phase[st] = "new"
    BY <1>2 DEF Register
  <2>3. Live' = Live
    BY <2>2 DEF Live, StreamTypes
  <2>4. \A u \in Streams : phase'[u] \in {"waiting", "live", "ending"} =>
                               streams'[ServerOf[u]] = u
    <3>1. CASE streams[ServerOf[st]] = NoStream
      <4>1. /\ streams' = [streams EXCEPT ![ServerOf[st]] = st]
            /\ phase' = [phase EXCEPT ![st] = "waiting"]
        BY <1>2, <3>1 DEF Register
      <4> QED
        BY <3>1, <4>1 DEF PlaceInv, StreamTypes
    <3>2. CASE streams[ServerOf[st]] # NoStream
      <4>1. streams' = streams /\ phase' = [phase EXCEPT ![st] = "ended"]
        BY <1>2, <3>2 DEF Register
      <4> QED
        BY <4>1 DEF PlaceInv, StreamTypes
    <3> QED
      BY <3>1, <3>2
  <2>5. \A u \in Streams : phase'[u] \in {"live", "ending", "removed"} =>
                               lock'[ServerOf[u]] = u
    BY <2>1, <2>2 DEF PlaceInv, StreamTypes
  <2> QED
    BY <2>1, <2>3, <2>4, <2>5 DEF PlaceInv
<1>3. ASSUME NEW st \in Streams, Announce(st) PROVE PlaceInv'
  <2>1. /\ UNCHANGED <<streams, flushed>>
        /\ phase[st] = "waiting"
        /\ lock[ServerOf[st]] = NoStream
        /\ lock' = [lock EXCEPT ![ServerOf[st]] = st]
    BY <1>3 DEF Announce, flushVars
  <2>2. /\ phase' \in {[phase EXCEPT ![st] = "live"], [phase EXCEPT ![st] = "ending"]}
    BY <1>3 DEF Announce
  <2>3. Live \subseteq Live' /\ Live' \subseteq Live \cup {st}
    BY <2>1, <2>2 DEF Live, StreamTypes
  <2>4. \A u \in Streams : phase'[u] \in {"waiting", "live", "ending"} =>
                               streams'[ServerOf[u]] = u
    BY <2>1, <2>2 DEF PlaceInv, StreamTypes
  <2>5. \A u \in Streams : phase'[u] \in {"live", "ending", "removed"} =>
                               lock'[ServerOf[u]] = u
    BY <2>1, <2>2 DEF PlaceInv, StreamTypes
  <2>6. \A u \in Live' \ displaced' : location' = ServerOf[u] /\ ~old'
    <3>1. CASE SaveRendezvous(st)
      BY <2>1, <2>3, <3>1, OneUndisplaced DEF SaveRendezvous
    <3>2. CASE phase' = [phase EXCEPT ![st] = "ending"] /\ UNCHANGED recordVars
      BY <2>1, <3>2 DEF PlaceInv, Live, StreamTypes, recordVars
    <3> QED
      BY <1>3, <3>1, <3>2 DEF Announce
  <2> QED
    BY <2>1, <2>3, <2>4, <2>5, <2>6 DEF PlaceInv
<1>4. ASSUME NEW st \in Streams, Refresh(st) PROVE PlaceInv'
  <2>1. UNCHANGED <<streams, lock, phase, flushed>> /\ Live' = Live
    BY <1>4 DEF Refresh, streamVars, streamData, flushVars, Live
  <2>2. lock[ServerOf[st]] = st
    BY <1>4 DEF Refresh, PlaceInv
  <2>3. \A u \in Live \ displaced' : location' = ServerOf[u] /\ ~old'
    BY <1>4, <2>2, OneUndisplaced DEF Refresh, SaveRendezvous
  <2> QED
    BY <2>1, <2>3 DEF PlaceInv
<1>5. ASSUME NEW st \in Streams, Flush(st) \/ FlushFails(st) PROVE PlaceInv'
  BY <1>5 DEF Flush, FlushFails, PlaceInv, Live, recordVars
<1>6. ASSUME NEW st \in Streams, FlushOne(st) \/ Deliver(st) PROVE PlaceInv'
  BY <1>1, <1>6 DEF FlushOne, Deliver, placeVars, flushVars
<1>7. ASSUME NEW st \in Streams, End(st) PROVE PlaceInv'
  <2>1. /\ phase[st] = "live" /\ phase' = [phase EXCEPT ![st] = "ending"]
        /\ flushed' = flushed \ {st} /\ displaced' = displaced \ {st}
        /\ UNCHANGED <<streams, lock, location, old>>
    BY <1>7 DEF End, Drop
  <2>2. Live' = Live \ {st}
    BY <2>1 DEF Live, StreamTypes
  <2> QED
    BY <2>1, <2>2 DEF PlaceInv, StreamTypes
<1>8. ASSUME NEW st \in Streams, Unregister(st) PROVE PlaceInv'
  <2>1. /\ phase[st] = "ending" /\ phase' = [phase EXCEPT ![st] = "removed"]
        /\ streams' = [s \in Servers |-> IF streams[s] = st THEN NoStream ELSE streams[s]]
        /\ UNCHANGED <<lock, flushed, location, old, displaced>>
    BY <1>8 DEF Unregister, streamData, flushVars, recordVars
  <2>2. Live' = Live
    BY <2>1 DEF Live, StreamTypes
  <2> QED
    BY <2>1, <2>2 DEF PlaceInv, StreamTypes
<1>9. ASSUME NEW st \in Streams, CleanUp(st) PROVE PlaceInv'
  <2>1. /\ phase[st] = "removed" /\ phase' = [phase EXCEPT ![st] = "ended"]
        /\ lock' = [lock EXCEPT ![ServerOf[st]] = NoStream]
        /\ UNCHANGED <<streams, flushed>>
    BY <1>9 DEF CleanUp, streamData, flushVars
  <2>2. Live' = Live /\ st \notin Live /\ lock[ServerOf[st]] = st
    BY <2>1 DEF Live, StreamTypes, PlaceInv
  <2>3. \A u \in Live \ displaced' : location' = ServerOf[u] /\ ~old'
    <3>1. CASE DeleteRendezvous(st)
      BY <2>2, <3>1, OneUndisplaced DEF DeleteRendezvous
    <3>2. CASE UNCHANGED recordVars
      BY <3>2 DEF PlaceInv, recordVars
    <3> QED
      BY <1>9, <3>1, <3>2 DEF CleanUp
  <2>4. \A u \in Streams : phase'[u] \in {"live", "ending", "removed"} =>
                               lock'[ServerOf[u]] = u
    BY <2>1, <2>2 DEF PlaceInv, StreamTypes
  <2> QED
    BY <2>1, <2>2, <2>3, <2>4 DEF PlaceInv, StreamTypes
<1>10. ASSUME GrowOld PROVE PlaceInv'
  BY <1>10 DEF GrowOld, PlaceInv, Live, streamVars, streamData, flushVars
<1>11. ASSUME NEW m \in Messages, Ack(m) PROVE PlaceInv'
  BY <1>1, <1>11 DEF Ack, placeVars, streamVars, streamData, flushVars
<1>12. ASSUME NEW s \in Servers, StopServer(s) PROVE PlaceInv'
  <2> DEFINE stopped ==
        {st \in Streams : ServerOf[st] = s /\ phase[st] \notin {"new", "ended"}}
  <2>1. /\ streams' = [streams EXCEPT ![s] = NoStream]
        /\ lock' = [lock EXCEPT ![s] = NoStream]
        /\ phase' = [st \in Streams |-> IF st \in stopped THEN "ended" ELSE phase[st]]
        /\ flushed' = flushed \ stopped /\ displaced' = displaced \ stopped
        /\ UNCHANGED <<location, old>>
    BY <1>12 DEF StopServer, Drop
  <2>2. Live' = Live \ stopped
    BY <2>1 DEF Live
  <2>3. \A st \in Streams : phase'[st] \notin {"new", "ended"} =>
            /\ ServerOf[st] # s /\ phase'[st] = phase[st]
            /\ streams'[ServerOf[st]] = streams[ServerOf[st]]
            /\ lock'[ServerOf[st]] = lock[ServerOf[st]]
    BY <2>1 DEF StreamTypes
  <2> QED
    BY <2>1, <2>2, <2>3 DEF PlaceInv
<1> QED
  BY <1>2, <1>3, <1>4, <1>5, <1>6, <1>7, <1>8, <1>9, <1>10, <1>11, <1>12 DEF StreamStep

\* A step that changes what becomes of no message but to lose it keeps the
\* invariant when what is covered at a stream stays so.
LEMMA KeepsDelivery ==
    ASSUME DeliveryInv, stored \subseteq Messages, stored' \subseteq stored,
           \A m \in Messages :
               \/ send'[m] = send[m] /\ target'[m] = target[m]
               \/ send'[m] = "lost",
           \A st \in Live' \ displaced' :
               /\ st \in Live \ displaced
               /\ \A m \in stored' : Covered(st, m) => Covered(st, m)'
    PROVE  DeliveryInv'
BY DEF DeliveryInv

\* Whatever the streams do, a stream that is open and not displaced keeps what is
\* on its way to it, or left to its flush.
LEMMA StreamDelivery ==
    ASSUME MessagingTypeOK, ReachInv, StreamStep
    PROVE  DeliveryInv'
<1> USE MessagingSets
<1> StreamTypes /\ SendTypes
  BY TypeParts
<1> PlaceInv /\ DeliveryInv /\ flushed \subseteq Live /\ stored \subseteq Messages
  BY DEF ReachInv, PlaceInv, StreamTypes
<1> USE DEF Covered, Notified, LeftToFlush
<1>1. ASSUME UNCHANGED <<sendVars, streamData>>, stored' \subseteq stored,
             Live' \ displaced' \subseteq Live \ displaced
      PROVE  DeliveryInv'
  BY <1>1, KeepsDelivery DEF sendVars, streamData, flushVars
<1>2. ASSUME NEW st \in Streams, Register(st) \/ Refresh(st) \/ Unregister(st) \/ CleanUp(st)
      PROVE  DeliveryInv'
  <2>1. UNCHANGED <<stored, sendVars, streamData>>
    BY <1>2 DEF Register, Refresh, Unregister, CleanUp, streamVars
  <2>2. displaced \subseteq displaced'
    BY <1>2 DEF Register, Refresh, Unregister, CleanUp, SaveRendezvous, DeleteRendezvous,
                recordVars
  <2>3. Live' = Live
    BY <1>2 DEF Register, Refresh, Unregister, CleanUp, Live, StreamTypes, streamVars
  <2> QED
    BY <1>1, <2>1, <2>2, <2>3
<1>3. ASSUME NEW st \in Streams, Announce(st) PROVE DeliveryInv'
  <2>1. /\ UNCHANGED <<stored, sendVars, toFlush, flushed, abandoned, channel, closed, received>>
        /\ phase[st] = "waiting"
    BY <1>3 DEF Announce, flushVars
  <2>2. CASE phase' = [phase EXCEPT ![st] = "ending"] /\ UNCHANGED <<recordVars, earlier>>
    <3>1. Live' = Live
      BY <2>1, <2>2 DEF Live, StreamTypes
    <3> QED
      BY <1>1, <2>1, <2>2, <3>1 DEF recordVars, streamData, flushVars
  <2>3. CASE /\ SaveRendezvous(st)
             /\ phase' = [phase EXCEPT ![st] = "live"]
             /\ earlier' = [earlier EXCEPT ![st] =
                               {m \in stored \ InTx : send[m] \in {"routed", "done"}}]
    <3>1. ASSUME NEW u \in Live' \ displaced', u # st, NEW m \in stored', Covered(u, m)
          PROVE  u \in Live \ displaced /\ Covered(u, m)'
      <4>1. u \in Live \ displaced /\ u \in Streams
        BY <2>3, <3>1 DEF Live, SaveRendezvous, StreamTypes
      <4>2. earlier'[u] = earlier[u]
        BY <2>3, <3>1, <4>1 DEF StreamTypes
      <4> QED
        BY <2>1, <3>1, <4>1, <4>2
    <3>2. \A u \in Live' \ displaced' : u # st => u \in Live \ displaced
      BY <2>3 DEF Live, SaveRendezvous, StreamTypes
    <3>3. st \notin flushed'
      BY <2>1 DEF Live
    <3>4. \A m \in stored \ InTx : send[m] \in {"routed", "done"} => Covered(st, m)'
      BY <2>3, <3>3 DEF StreamTypes
    <3> QED
      BY <2>1, <3>1, <3>2, <3>4 DEF DeliveryInv, sendVars
  <2> QED
    BY <1>3, <2>2, <2>3 DEF Announce
<1>11. ASSUME NEW st \in Streams, Flush(st) \/ FlushFails(st) PROVE DeliveryInv'
  <2>1. /\ UNCHANGED <<stored, sendVars, displaced, phase, earlier, channel, closed, received>>
        /\ flushed' = flushed \cup {st}
        /\ \/ /\ toFlush' = [toFlush EXCEPT ![st] = stored]
              /\ abandoned' = abandoned
           \/ /\ toFlush' = [toFlush EXCEPT ![st] = {}]
              /\ abandoned' = abandoned \cup {st}
    BY <1>11 DEF Flush, FlushFails, recordVars
  <2>2. ASSUME NEW u \in Live, NEW m \in stored, Covered(u, m) PROVE Covered(u, m)'
    <3>1. CASE u = st
      <4>1. toFlush'[st] = stored \/ st \in abandoned'
        BY <2>1 DEF StreamTypes
      <4> QED
        BY <2>1, <2>2, <3>1, <4>1
    <3>2. CASE u # st
      <4>1. toFlush'[u] = toFlush[u] /\ (u \in flushed' <=> u \in flushed)
        BY <2>1, <3>2 DEF StreamTypes, Live
      <4> QED
        BY <2>1, <2>2, <4>1
    <3> QED
      BY <3>1, <3>2
  <2> QED
    BY <2>1, <2>2, KeepsDelivery DEF sendVars, Live
<1>4. ASSUME NEW st \in Streams, FlushOne(st) PROVE DeliveryInv'
  <2>1. /\ UNCHANGED <<stored, sendVars, displaced, phase, flushed, abandoned, earlier, received>>
        /\ phase[st] = "live"
    BY <1>4 DEF FlushOne, recordVars
  <2>2. PICK m \in toFlush[st] :
            /\ Notify(st, m)
            /\ toFlush' = [toFlush EXCEPT ![st] = IF st \in closed' THEN {} ELSE @ \ {m}]
    BY <1>4 DEF FlushOne
  <2>3. m \in Messages
    BY <2>2 DEF StreamTypes
  <2>4. /\ closed \subseteq closed'
        /\ \A u \in Streams : \A n \in DOMAIN channel[u] :
               n \in DOMAIN channel'[u] /\ channel'[u][n] = channel[u][n]
        /\ st \in closed' \/ \E n \in DOMAIN channel'[st] : channel'[st][n] = m
    BY <2>1, <2>2, <2>3, NotifyReaches
  <2>5. \A u \in Streams : \A k \in toFlush[u] :
            k \in toFlush'[u] \/ (u = st /\ (k = m \/ st \in closed'))
    <3>1. toFlush \in [Streams -> SUBSET Messages]
      BY DEF StreamTypes
    <3>2. \A u \in Streams \ {st} : toFlush'[u] = toFlush[u]
      BY <2>2, <3>1
    <3>3. toFlush'[st] = IF st \in closed' THEN {} ELSE toFlush[st] \ {m}
      BY <2>2, <3>1
    <3> QED
      BY <3>2, <3>3
  <2>6. ASSUME NEW u \in Live, NEW k \in stored, Covered(u, k) PROVE Covered(u, k)'
    BY <2>1, <2>4, <2>5, <2>6 DEF Live
  <2> QED
    BY <2>1, <2>6, KeepsDelivery DEF sendVars, Live
<1>5. ASSUME NEW st \in Streams, Deliver(st) PROVE DeliveryInv'
  <2>1. /\ UNCHANGED <<stored, sendVars, displaced, phase, flushVars, earlier, closed>>
        /\ received' = [received EXCEPT ![st] = @ \cup {Head(channel[st])}]
        /\ channel' = [channel EXCEPT ![st] = Tail(@)]
        /\ channel[st] # <<>>
    BY <1>5 DEF Deliver, recordVars
  <2>2. /\ channel \in [Streams -> Seq(Messages)] /\ channel[st] \in Seq(Messages)
        /\ received \in [Streams -> SUBSET Messages]
    BY DEF StreamTypes
  <2>3. ASSUME NEW n \in DOMAIN channel[st]
        PROVE  \/ channel[st][n] \in received'[st]
               \/ \E k \in DOMAIN channel'[st] : channel'[st][k] = channel[st][n]
    <3>1. /\ DOMAIN channel[st] = 1 .. Len(channel[st])
          /\ Len(channel[st]) \in Nat
          /\ Head(channel[st]) = channel[st][1]
          /\ Tail(channel[st]) \in Seq(Messages)
          /\ Len(Tail(channel[st])) = Len(channel[st]) - 1
          /\ DOMAIN Tail(channel[st]) = 1 .. Len(Tail(channel[st]))
          /\ \A k \in 1 .. Len(Tail(channel[st])) : Tail(channel[st])[k] = channel[st][k + 1]
      BY <2>1, <2>2, HeadTailProperties, LenProperties
    <3>2. received'[st] = received[st] \cup {channel[st][1]}
          /\ channel'[st] = Tail(channel[st])
      BY <2>1, <2>2, <3>1
    <3>3. CASE n = 1
      BY <3>2, <3>3
    <3>4. CASE n # 1
      <4>1. n - 1 \in 1 .. Len(Tail(channel[st])) /\ (n - 1) + 1 = n
        BY <3>1, <3>4
      <4> QED
        BY <3>1, <3>2, <4>1
    <3> QED
      BY <3>3, <3>4
  <2>4. \A u \in Streams :
            /\ received[u] \subseteq received'[u]
            /\ u # st => channel'[u] = channel[u]
    BY <2>1, <2>2
  <2>5. ASSUME NEW u \in Live, NEW k \in stored, Covered(u, k) PROVE Covered(u, k)'
    BY <2>1, <2>3, <2>4, <2>5 DEF flushVars, Live
  <2> QED
    BY <2>1, <2>5, KeepsDelivery DEF sendVars, Live
<1>6. ASSUME NEW ended \in SUBSET Streams, Drop(ended),
             Live' = Live \ ended, displaced' = displaced \ ended, stored' = stored,
             \A m \in Messages :
                 \/ send'[m] = send[m] /\ target'[m] = target[m]
                 \/ send'[m] = "lost"
      PROVE  DeliveryInv'
  <2>1. ASSUME NEW u \in Live' \ displaced'
        PROVE  /\ u \in Live \ displaced
               /\ \A m \in stored' : Covered(u, m) => Covered(u, m)'
    <3>1. u \in Live \ displaced /\ u \in Streams /\ u \notin ended
      BY <1>6, <2>1 DEF Live
    <3>2. /\ toFlush'[u] = toFlush[u] /\ channel'[u] = channel[u]
          /\ received'[u] = received[u] /\ earlier'[u] = earlier[u]
          /\ u \in flushed' <=> u \in flushed
          /\ u \in abandoned' <=> u \in abandoned
          /\ u \in closed' <=> u \in closed
      BY <1>6, <3>1 DEF Drop
    <3> QED
      BY <3>1, <3>2
  <2> QED
    BY <1>6, <2>1, KeepsDelivery
<1>7. ASSUME NEW st \in Streams, End(st) PROVE DeliveryInv'
  <2>1. Live' = Live \ {st}
    BY <1>7 DEF End, Live, StreamTypes
  <2> QED
    BY <1>6, <1>7, <2>1 DEF End, sendVars
<1>8. ASSUME GrowOld PROVE DeliveryInv'
  <2>1. /\ UNCHANGED <<stored, sendVars, streamData>>
        /\ displaced \subseteq displaced' /\ Live' = Live
    BY <1>8 DEF GrowOld, Live, streamVars
  <2> QED
    BY <1>1, <2>1
<1>9. ASSUME NEW m \in Messages, Ack(m) PROVE DeliveryInv'
  <2>1. /\ UNCHANGED <<sendVars, streamData>>
        /\ stored' \subseteq stored /\ displaced' = displaced /\ Live' = Live
    BY <1>9 DEF Ack, Live, recordVars, streamVars
  <2> QED
    BY <1>1, <2>1
<1>10. ASSUME NEW s \in Servers, StopServer(s) PROVE DeliveryInv'
  <2> DEFINE stopped ==
        {st \in Streams : ServerOf[st] = s /\ phase[st] \notin {"new", "ended"}}
  <2>1. /\ phase' = [st \in Streams |-> IF st \in stopped THEN "ended" ELSE phase[st]]
        /\ Drop(stopped) /\ displaced' = displaced \ stopped /\ stored' = stored
        /\ Lose({m \in Sending : SenderOf[m] = s})
    BY <1>10 DEF StopServer
  <2>2. Live' = Live \ stopped
    BY <2>1 DEF Live
  <2>3. \A m \in Messages : \/ send'[m] = send[m] /\ target'[m] = target[m]
                            \/ send'[m] = "lost"
    BY <2>1 DEF Lose
  <2> QED
    BY <1>6, <2>1, <2>2, <2>3
<1> QED
  BY <1>2, <1>3, <1>4, <1>5, <1>7, <1>8, <1>9, <1>10, <1>11 DEF StreamStep

\* Whatever becomes of one message, the streams stay where they are, and the
\* message is sent to the stream that the record points to.
LEMMA MessageStepReaches ==
    ASSUME MessagingTypeOK, ReachInv, NEW m \in Messages,
           \/ CreateMessage(m) \/ Refuse(m) \/ Route(m) \/ Forward(m)
           \/ ForwardFails(m) \/ RollBackMessage(m) \/ CommitMessage(m)
    PROVE  ReachInv'
<1> USE MessagingSets
<1> StreamTypes /\ SendTypes
  BY TypeParts
<1> PlaceInv /\ DeliveryInv
  BY DEF ReachInv
<1>1. /\ UNCHANGED <<placeVars, toFlush, abandoned, earlier, received>>
      /\ UNCHANGED <<channel, closed>> \/ Forward(m)
  BY DEF CreateMessage, Refuse, Route, Forward, ForwardFails, RollBackMessage, CommitMessage,
         placeVars, streamVars, streamData, flushVars
<1>2. PlaceInv' /\ Live' = Live /\ displaced' = displaced /\ flushed' = flushed
  BY <1>1 DEF PlaceInv, Live, placeVars, recordVars
<1>3. \A n \in Messages \ {m} : send'[n] = send[n] /\ target'[n] = target[n]
  BY DEF CreateMessage, Refuse, Route, Forward, ForwardFails, RollBackMessage, CommitMessage,
         Lose, SendTypes
<1>4. /\ stored \subseteq Messages /\ stored' \ {m} = stored \ {m}
      /\ m \in stored' => m \in InTx \/ m \in stored \/ send'[m] = "created"
  BY DEF CreateMessage, Refuse, Route, Forward, ForwardFails, RollBackMessage, CommitMessage,
         SendTypes, StreamTypes, DeliveryInv
<1>5. send'[m] = "forwarded" => m \in InTx
  BY DEF CreateMessage, Refuse, Route, Forward, ForwardFails, RollBackMessage, CommitMessage,
         Lose, Forwarded, SendTypes
<1>6. ASSUME NEW st \in Live, NEW n \in Messages, Covered(st, n) PROVE Covered(st, n)'
  <2> st \in Streams
    BY DEF Live
  <2>1. CASE UNCHANGED <<channel, closed>>
    BY <1>1, <1>2, <1>6, <2>1 DEF Covered, Notified, LeftToFlush
  <2>2. CASE Forward(m)
    <3>1. CASE streams[target[m]] = NoStream
      BY <1>1, <2>1, <2>2, <3>1 DEF Forward
    <3>2. CASE streams[target[m]] # NoStream
      <4>1. target[m] \in Servers
        BY <2>2 DEF Forward, SendTypes
      <4>2. streams[target[m]] \in Streams
        BY <3>2, <4>1 DEF StreamTypes
      <4>3. Notify(streams[target[m]], m)
        BY <2>2, <3>2 DEF Forward
      <4> QED
        BY <1>1, <1>2, <1>6, <4>2, <4>3, NotifyReaches DEF Covered, Notified, LeftToFlush
    <3> QED
      BY <3>1, <3>2
  <2> QED
    BY <1>1, <2>1, <2>2
<1>7. ASSUME NEW st \in Live \ displaced, m \in stored', m \notin InTx
      PROVE  \/ Covered(st, m)'
             \/ send'[m] # "done" /\ (send'[m] = "routed" => target'[m] = ServerOf[st])
  <2> st \in Streams /\ ServerOf[st] \in Servers
    BY DEF Live
  <2>1. location = ServerOf[st] /\ ~old
    BY DEF PlaceInv
  <2>2. CASE send'[m] \in {"created", "refused", "failed", "lost"}
    BY <2>2
  <2>3. CASE Route(m)
    BY <2>1, <2>3 DEF Route, SendTypes
  <2>4. CASE Forward(m)
    <3>1. CASE Covered(st, m)
      BY <1>6, <3>1
    <3>2. CASE ~Covered(st, m)
      <4>1. m \in stored /\ send[m] = "routed"
        BY <1>7, <2>4 DEF Forward
      <4>2. target[m] = ServerOf[st]
        BY <1>7, <3>2, <4>1 DEF DeliveryInv
      <4>3. streams[ServerOf[st]] = st /\ phase[st] = "live" /\ st # NoStream
        BY DEF PlaceInv, Live
      <4>4. Notify(st, m)
        BY <2>4, <4>2, <4>3 DEF Forward
      <4> QED
        BY <4>3, <4>4, NotifyReaches DEF Covered, Notified, LeftToFlush
    <3> QED
      BY <3>1, <3>2
  <2>5. CASE CreateMessage(m) \/ Refuse(m) \/ ForwardFails(m) \/ RollBackMessage(m)
    <3>1. send'[m] \in {"created", "refused", "failed", "lost"}
      BY <1>7, <2>5 DEF CreateMessage, Refuse, ForwardFails, RollBackMessage, Lose, SendTypes
    <3> QED
      BY <2>2, <3>1
  <2>6. CASE CommitMessage(m)
    BY <1>7, <2>6 DEF CommitMessage, DeliveryInv
  <2> QED
    BY <2>3, <2>4, <2>5, <2>6
<1>8. DeliveryInv'
  <2>1. \A n \in Messages : send'[n] = "forwarded" => n \in InTx
    BY <1>3, <1>5 DEF DeliveryInv
  <2>2. ASSUME NEW st \in Live \ displaced, NEW n \in stored' \ InTx, n # m
        PROVE  \/ Covered(st, n)'
               \/ send'[n] # "done" /\ (send'[n] = "routed" => target'[n] = ServerOf[st])
    <3>1. n \in stored \ InTx /\ n \in Messages
      BY <1>4, <2>2
    <3> QED
      BY <1>3, <1>6, <2>2, <3>1 DEF DeliveryInv
  <2> QED
    BY <1>2, <1>7, <2>1, <2>2 DEF DeliveryInv
<1> QED
  BY <1>2, <1>8 DEF ReachInv

\* Every step of the webhook, its messages and their streams keeps it.
LEMMA ReachStep ==
    ASSUME MessagingTypeOK, ReachInv, [Next]_vars
    PROVE  ReachInv'
<1> /\ Submitted \in Messages
    /\ \A n \in Attempts : Called[n] \in Messages
  BY WebhookSets, MessagingSets
<1> PlaceInv /\ DeliveryInv /\ stored \subseteq Messages
  BY DEF ReachInv, MessagingTypeOK
<1>1. ASSUME UNCHANGED <<stored, recordVars, streamVars>>,
             \A m \in Messages :
                 \/ send'[m] = send[m] /\ target'[m] = target[m]
                 \/ send'[m] = "lost"
      PROVE  ReachInv'
  <2>1. PlaceInv'
    BY <1>1 DEF PlaceInv, Live, recordVars, streamVars, streamData, flushVars
  <2>2. DeliveryInv'
    BY <1>1, KeepsDelivery DEF Covered, Notified, LeftToFlush, Live, recordVars, streamVars, streamData, flushVars
  <2> QED
    BY <2>1, <2>2 DEF ReachInv
<1>2. CASE UNCHANGED messagingVars
  BY <1>1, <1>2 DEF messagingVars, sendVars
<1>3. CASE StreamStep
  BY <1>3, PlaceStep, StreamDelivery DEF ReachInv
<1>4. CASE SenderStep
  <2>1. PICK m \in Messages : CreateMessage(m) \/ Refuse(m) \/ Route(m) \/ Forward(m)
                                \/ ForwardFails(m) \/ RollBackMessage(m)
    BY <1>4 DEF SenderStep
  <2> QED
    BY <2>1, MessageStepReaches
<1>5. CASE SubmitIntent \/ Commit
  BY <1>5, MessageStepReaches DEF SubmitIntent, Commit
<1>6. ASSUME NEW n \in Attempts, Attempting(n) PROVE ReachInv'
  <2>1. CASE CreateMessage(Called[n])
    BY <2>1, MessageStepReaches
  <2>2. CASE UNCHANGED messagingVars
    BY <1>2, <2>2
  <2> QED
    BY <1>6, <2>1, <2>2 DEF Attempting, Call, AnnounceCall, Announced, OnWebhookExecuted,
                            OnWebhookExecutedFails
<1>7. CASE StopWorker
  BY <1>1, <1>7 DEF StopWorker, Lose
<1>8. CASE CheckIntent \/ CreateWebhook \/ TimePasses \/ Poll \/ SetupNextAttempt
             \/ SetupFails \/ UNCHANGED vars
  <2>1. UNCHANGED messagingVars
    BY <1>8 DEF CheckIntent, CreateWebhook, TimePasses, Poll, SetupNextAttempt,
                SetupFails, vars
  <2> QED
    BY <1>2, <2>1
<1> QED
  BY <1>3, <1>4, <1>5, <1>6, <1>7, <1>8 DEF Next

\* No stream is open at first.
LEMMA ReachInit == Init => ReachInv
BY DEF Init, MessagingInit, ReachInv, PlaceInv, DeliveryInv, Live

LEMMA ReachInvariance == Spec => []ReachInv
<1>1. IInv /\ ReachInv /\ [Next]_vars => ReachInv'
  BY ReachStep DEF IInv
<1> QED
  BY <1>1, ReachInit, Invariance, PTL DEF Spec

(***************************************************************************)
(* Theorems.                                                               *)
(***************************************************************************)

\* Streams, messages and the webhook keep their types, whoever ends, stops or is
\* interrupted.
THEOREM TypeCorrect == Spec => []TypeOK
<1> QED
  BY Invariance, TypeOfParts, PTL

\* No attempt is started twice (handlePending).
THEOREM NotTwice == Spec => []NoAttemptTwice
<1>1. IInv => NoAttemptTwice
  BY DEF IInv, WebhookInv
<1> QED
  BY <1>1, Invariance, PTL

\* A webhook is given up only after each attempt of the table but the last was
\* started (setupNextAttempt).
THEOREM FailedExhausted == Spec => []FailedIsExhausted
<1>1. IInv => FailedIsExhausted
  BY DEF IInv, WebhookInv
<1> QED
  BY <1>1, Invariance, PTL

\* A webhook is confirmed only when the third party has processed an attempt and
\* the message that says so was saved (Execute).
THEOREM ConfirmedAnnounced == Spec => []ConfirmedIsAnnounced
<1>1. IInv => ConfirmedIsAnnounced
  BY DEF IInv, WebhookInv
<1> QED
  BY <1>1, Invariance, PTL

\* A confirmed webhook stays as it is, whatever attempts end after it
\* (updateWebhookRecord).
THEOREM ConfirmedForGood == Spec => ConfirmedStays
<1>1. IInv /\ [Next]_vars => [webhook.state = "Confirmed" => webhook' = webhook]_vars
  <2> SUFFICES ASSUME IInv, [Next]_vars, webhook.state = "Confirmed"
               PROVE  webhook' = webhook
    OBVIOUS
  <2>1. Committed /\ register = "done"
    BY DEF IInv, WebhookInv, WebhookTypes, SubmitInv
  <2>2. ~CreateWebhook /\ ~Commit
    BY <2>1 DEF CreateWebhook, Commit, CommitMessage, Committed
  <2>3. ASSUME NEW state, NEW attempts, NEW at, UpdateRecord(state, attempts, at)
        PROVE  webhook' = webhook
    BY <2>3 DEF UpdateRecord
  <2>4. ASSUME NEW n \in Attempts, Attempting(n) PROVE webhook' = webhook
    BY <2>3, <2>4 DEF Attempting, Call, AnnounceCall, Announced, OnWebhookExecuted,
                      OnWebhookExecutedFails
  <2>5. CASE SetupNextAttempt
    BY <2>3, <2>5 DEF SetupNextAttempt
  <2>6. CASE CheckIntent \/ SubmitIntent \/ TimePasses \/ Poll \/ SetupFails \/ StopWorker
    BY <2>6 DEF CheckIntent, SubmitIntent, TimePasses, Poll, SetupFails, StopWorker
  <2>7. CASE UNCHANGED webhookVars
    BY <2>7 DEF webhookVars
  <2> QED
    BY <2>2, <2>4, <2>5, <2>6, <2>7 DEF Next, vars
<1> QED
  BY <1>1, Invariance, PTL DEF Spec, ConfirmedStays

\* A message that was sent reaches the stream that is open.  Forwarding does that
\* for each one whose sender read the record after the stream had saved it, and
\* the flush, unless it fails, for the earlier ones, until another server takes
\* the record (internallyForwardMessage, flush and the rendezvous record).
THEOREM MessagesReachTheStream == Spec => []NoMessageMissed
<1>1. ReachInv => NoMessageMissed
  BY DEF ReachInv, DeliveryInv, Covered, NoMessageMissed
<1> QED
  BY <1>1, ReachInvariance, PTL

=============================================================================
