--------------------------------- MODULE Webhook ---------------------------------
(***************************************************************************)
(* The webhook of one intent: its registration (micropayment/server.go),   *)
(* the DB transaction of SubmitIntent that makes it pending, and the       *)
(* worker that calls the third party (pkg/code/async/webhook).  The key of *)
(* the webhook is the rendezvous key of the intent: the intent and every   *)
(* call that succeeds are announced by a message of Messaging.             *)
(*                                                                         *)
(* An attempt is started with the next one already scheduled, and runs on  *)
(* its own: several attempts may be under way at once.                     *)
(***************************************************************************)
EXTENDS Messaging

CONSTANTS
    Delays,         \* len(attemptToDelay)
    Submitted,      \* the IntentSubmitted message
    Called,         \* the WebhookCalled message of each attempt
    MaxFaults       \* bound on stops of the worker and on failed updates

Attempts == 1 .. Delays

ASSUME WebhookSets ==
    /\ Delays \in Nat \ {0}
    /\ Called \in [Attempts -> Messages]
    /\ \A m, n \in Attempts : Called[m] = Called[n] => m = n
    /\ InTx = {Submitted} /\ Submitted \notin {Called[n] : n \in Attempts}
    /\ MaxFaults \in Nat

VARIABLES
    webhook,        \* database: state and attempts of the record
    due,            \* has NextAttemptAt passed?
    register,       \* progress of RegisterWebhook
    found,          \* the state of the record when SubmitIntent looked
    polled,         \* what the worker read: the attempts so far, None if nothing
    attempt,        \* progress of each attempt
    begun,          \* how often each attempt was started
    reached,        \* attempts the third party has processed
    faults

None == -1

webhookVars == <<webhook, due, register, found, polled, attempt, begun, reached, faults>>
vars == <<messagingVars, webhookVars>>

WebhookStates == {"none", "Unknown", "Pending", "Confirmed", "Failed"}
AttemptStates == {"none", "calling", "called", "announcing", "succeeded", "failed", "over"}

TypeOK ==
    /\ MessagingTypeOK
    /\ webhook \in [state : WebhookStates, attempts : 0 .. Delays - 1]
    /\ due \in BOOLEAN
    /\ register \in {"none", "checked", "done"}
    /\ found \in {"none", "Unknown"}
    /\ polled \in {None} \cup (0 .. Delays - 1)
    /\ attempt \in [Attempts -> AttemptStates]
    /\ begun \in [Attempts -> Nat]
    /\ reached \subseteq Attempts
    /\ faults \in 0 .. MaxFaults

\* Perhaps nobody registers a webhook.
Init ==
    /\ MessagingInit
    /\ webhook = [state |-> "none", attempts |-> 0]
    /\ due = FALSE
    /\ register \in {"none", "done"}
    /\ found = "none"
    /\ polled = None
    /\ attempt = [n \in Attempts |-> "none"]
    /\ begun = [n \in Attempts |-> 0]
    /\ reached = {}
    /\ faults \in 0 .. MaxFaults

CallMessages == {Called[n] : n \in Attempts}
Committed == send[Submitted] = "done"

(***************************************************************************)
(* Registration and SubmitIntent.                                          *)
(***************************************************************************)

\* RegisterWebhook looks whether the intent exists ...
CheckIntent ==
    /\ register = "none"
    /\ register' = IF Committed THEN "done" ELSE "checked"
    /\ UNCHANGED <<messagingVars, webhook, due, found, polled, attempt, begun, reached, faults>>

\* ... and creates the record.
CreateWebhook ==
    /\ register = "checked"
    /\ register' = "done"
    /\ webhook' = [webhook EXCEPT !.state = "Unknown"]
    /\ UNCHANGED <<messagingVars, due, found, polled, attempt, begun, reached, faults>>

\* markWebhookAsPending finds the record, and the message is created, in the DB
\* transaction of SubmitIntent.
SubmitIntent ==
    /\ CreateMessage(Submitted)
    /\ found' = webhook.state
    /\ UNCHANGED <<webhook, due, register, polled, attempt, begun, reached, faults>>

\* The DB transaction commits what it read and changed.
Commit ==
    /\ CommitMessage(Submitted)
    /\ IF found = "Unknown"
       THEN webhook' = [state |-> "Pending", attempts |-> 0] /\ due' = TRUE
       ELSE UNCHANGED <<webhook, due>>
    /\ UNCHANGED <<register, found, polled, attempt, begun, reached, faults>>

(***************************************************************************)
(* The worker.                                                             *)
(***************************************************************************)

\* Mutant: the attempts are compared whatever the states are.
UpdateRecordOfMoreAttempts(state, attempts, at) ==
    IF \/ webhook.state = "Confirmed"
       \/ webhook.state = "Failed" /\ state # "Confirmed"
       \/ attempts <= webhook.attempts
    THEN UNCHANGED <<webhook, due>>
    ELSE /\ webhook' = [state |-> state, attempts |-> attempts]
         /\ due' = at

\* Mutant: a confirmed record is not left alone.
UpdateRecordBlindly(state, attempts, at) ==
    IF \/ webhook.state = "Failed" /\ state # "Confirmed"
       \/ state = "Pending" /\ attempts <= webhook.attempts
    THEN UNCHANGED <<webhook, due>>
    ELSE /\ webhook' = [state |-> state, attempts |-> attempts]
         /\ due' = at

\* updateWebhookRecord merges an update with what is in the database, under the
\* lock of the webhook.
UpdateRecord(state, attempts, at) ==
    IF \/ webhook.state = "Confirmed"
       \/ webhook.state = "Failed" /\ state # "Confirmed"
       \/ state = "Pending" /\ attempts <= webhook.attempts
    THEN UNCHANGED <<webhook, due>>
    ELSE /\ webhook' = [state |-> state, attempts |-> attempts]
         /\ due' = at

TimePasses ==
    /\ webhook.state = "Pending"
    /\ ~due
    /\ due' = TRUE
    /\ UNCHANGED <<messagingVars, webhook, register, found, polled, attempt, begun, reached,
                   faults>>

\* GetAllPendingWebhooksReadyToSend.
Poll ==
    /\ polled = None
    /\ webhook.state = "Pending"
    /\ due
    /\ polled' = webhook.attempts
    /\ UNCHANGED <<messagingVars, webhook, due, register, found, attempt, begun, reached,
                   faults>>

\* attemptToDelay has an entry for this attempt.
HasDelay(n) == n \in 1 .. Delays

\* Mutant: the attempt is started before the next one is scheduled.
SetupNextAttemptLater ==
    /\ polled # None
    /\ HasDelay(polled + 2)
    /\ attempt' = [attempt EXCEPT ![polled + 1] = "calling"]
    /\ begun' = [begun EXCEPT ![polled + 1] = @ + 1]
    /\ polled' = None
    /\ UNCHANGED <<messagingVars, webhook, due, register, found, reached, faults>>

\* setupNextAttempt: the attempt after this one gets its time now, or there is
\* none, and the webhook has failed.  The worker does not poll again before.
SetupNextAttempt ==
    /\ polled # None
    /\ polled' = None
    /\ \/ /\ HasDelay(polled + 2)
          /\ UpdateRecord("Pending", polled + 1, FALSE)
          /\ attempt' = [attempt EXCEPT ![polled + 1] = "calling"]
          /\ begun' = [begun EXCEPT ![polled + 1] = @ + 1]
       \/ /\ ~HasDelay(polled + 2)
          /\ UpdateRecord("Failed", polled, FALSE)
          /\ UNCHANGED <<attempt, begun>>
    /\ UNCHANGED <<messagingVars, register, found, reached, faults>>

SetupFails ==
    /\ polled # None
    /\ faults < MaxFaults
    /\ faults' = faults + 1
    /\ polled' = None
    /\ UNCHANGED <<messagingVars, webhook, due, register, found, attempt, begun, reached>>

\* The third party answers with 200, or with an error, or too late, and then it
\* may have processed the call or not.
Call(n) ==
    /\ attempt[n] = "calling"
    /\ \E answer \in {"called", "failed"} :
          /\ attempt' = [attempt EXCEPT ![n] = answer]
          /\ \/ reached' = reached \cup {n}
             \/ answer = "failed" /\ reached' = reached
    /\ UNCHANGED <<messagingVars, webhook, due, register, found, polled, begun, faults>>

\* Mutant: the message is sent with best effort.
AnnounceCallOrNot(n) ==
    /\ attempt[n] = "called"
    /\ \/ /\ CreateMessage(Called[n])
          /\ attempt' = [attempt EXCEPT ![n] = "announcing"]
          /\ faults' = faults
       \/ /\ faults < MaxFaults
          /\ faults' = faults + 1
          /\ attempt' = [attempt EXCEPT ![n] = "succeeded"]
          /\ UNCHANGED messagingVars
    /\ UNCHANGED <<webhook, due, register, found, polled, begun, reached>>

\* Execute announces a call that succeeded.
AnnounceCall(n) ==
    /\ attempt[n] = "called"
    /\ \/ /\ CreateMessage(Called[n])
          /\ attempt' = [attempt EXCEPT ![n] = "announcing"]
          /\ faults' = faults
       \/ /\ faults < MaxFaults
          /\ faults' = faults + 1
          /\ attempt' = [attempt EXCEPT ![n] = "failed"]
          /\ UNCHANGED messagingVars
    /\ UNCHANGED <<webhook, due, register, found, polled, begun, reached>>

\* InternallyCreateMessage does not return an error of forwarding.
Announced(n) ==
    /\ attempt[n] = "announcing"
    /\ send[Called[n]] \in {"done", "failed"}
    /\ attempt' = [attempt EXCEPT ![n] = "succeeded"]
    /\ UNCHANGED <<messagingVars, webhook, due, register, found, polled, begun, reached, faults>>

\* Mutant: a failure is final.
OnWebhookExecutedOnce(n) ==
    /\ attempt[n] \in {"succeeded", "failed"}
    /\ attempt' = [attempt EXCEPT ![n] = "over"]
    /\ IF attempt[n] = "succeeded"
       THEN UpdateRecord("Confirmed", n, FALSE)
       ELSE UpdateRecord("Failed", n, FALSE)
    /\ UNCHANGED <<messagingVars, register, found, polled, begun, reached, faults>>

\* onWebhookExecuted: a success is saved at once, a failure only after the last
\* attempt, which is never started.
OnWebhookExecuted(n) ==
    /\ attempt[n] \in {"succeeded", "failed"}
    /\ attempt' = [attempt EXCEPT ![n] = "over"]
    /\ IF attempt[n] = "succeeded" THEN UpdateRecord("Confirmed", n, FALSE)
       ELSE IF n >= Delays THEN UpdateRecord("Failed", n, FALSE)
       ELSE UNCHANGED <<webhook, due>>
    /\ UNCHANGED <<messagingVars, register, found, polled, begun, reached, faults>>

OnWebhookExecutedFails(n) ==
    /\ attempt[n] = "succeeded"
    /\ faults < MaxFaults
    /\ faults' = faults + 1
    /\ attempt' = [attempt EXCEPT ![n] = "over"]
    /\ UNCHANGED <<messagingVars, webhook, due, register, found, polled, begun, reached>>

\* The process of the worker stops: attempts under way are not taken up again.
StopWorker ==
    /\ faults < MaxFaults
    /\ polled # None \/ \E n \in Attempts : attempt[n] \notin {"none", "over"}
    /\ faults' = faults + 1
    /\ polled' = None
    /\ attempt' = [n \in Attempts |-> IF attempt[n] = "none" THEN "none" ELSE "over"]
    /\ Lose(Sending \cap CallMessages)
    /\ UNCHANGED <<stored, recordVars, streamVars, webhook, due, register, found, begun,
                   reached>>

SenderStep ==
    \/ \E m \in Messages \ (CallMessages \cup {Submitted}) : CreateMessage(m) \/ Refuse(m)
    \/ \E m \in Messages : Route(m) \/ Forward(m) \/ ForwardFails(m) \/ RollBackMessage(m)

Attempting(n) ==
    \/ Call(n) \/ AnnounceCall(n) \/ Announced(n)
    \/ OnWebhookExecuted(n) \/ OnWebhookExecutedFails(n)

Next ==
    \/ (StreamStep \/ SenderStep) /\ UNCHANGED webhookVars
    \/ CheckIntent \/ CreateWebhook \/ SubmitIntent \/ Commit
    \/ TimePasses \/ Poll \/ SetupNextAttempt \/ SetupFails \/ StopWorker
    \/ \E n \in Attempts : Attempting(n)

Spec == Init /\ [][Next]_vars

\* Fairness: time passes, the worker polls again and again, HTTP calls and
\* forwarding time out, and streams end and clean up after at most 15 minutes.
Fairness ==
    /\ WF_vars(TimePasses)
    /\ WF_vars(Poll \/ SetupNextAttempt)
    /\ \A st \in Streams :
          WF_vars((Announce(st) \/ End(st) \/ Unregister(st) \/ CleanUp(st))
                    /\ UNCHANGED webhookVars)

FairSpec == Spec /\ Fairness

(***************************************************************************)
(* Properties.                                                             *)
(***************************************************************************)

\* A confirmed webhook was processed by the third party, and the message that
\* says so is in the database for every stream of the key (Execute).
ConfirmedIsAnnounced ==
    webhook.state = "Confirmed" =>
        \E n \in reached : send[Called[n]] \in {"done", "failed"}

\* A webhook is given up only after every attempt was started, each of them
\* once, the last delay being no attempt (attemptToDelay, setupNextAttempt).
FailedIsExhausted ==
    webhook.state = "Failed" => \A n \in 1 .. Delays - 1 : begun[n] = 1

\* No attempt is made twice: the next one is scheduled before the worker polls
\* again (handlePending).
NoAttemptTwice == \A n \in Attempts : begun[n] <= 1

\* Whatever attempts end after it, a webhook that was confirmed stays so
\* (updateWebhookRecord).
ConfirmedStays == [][webhook.state = "Confirmed" => webhook' = webhook]_vars

\* A webhook that its intent made pending is confirmed or given up (worker), and
\* stays so: some time after the commit it is in one of these states for good.
EveryWebhookEnds ==
    <>[](Committed /\ found = "Unknown" => webhook.state \in {"Confirmed", "Failed"})

=============================================================================
