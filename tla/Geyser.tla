--------------------------------- MODULE Geyser ---------------------------------
(***************************************************************************)
(* The Geyser consumer (pkg/code/async/geyser): it finds out what third    *)
(* parties do on the blockchain.  A payment to the fee collector carries a *)
(* message for a chat; a payment to the vault of a primary account is a    *)
(* deposit.  Workers handle the updates that Geyser sends, any of which    *)
(* may be dropped, late or repeated; a backup for messages and one for     *)
(* deposits read the history of the account.  What they have handled is    *)
(* kept in the memory of the process.                                      *)
(*                                                                         *)
(* A transaction is in the chain once it is confirmed.  What else may be   *)
(* in the history of the accounts (fulfillments, other memos, transactions *)
(* with an error) is left out: it is skipped without an effect.            *)
(***************************************************************************)
EXTENDS Integers, Sequences, FiniteSets

CONSTANTS
    Messages,       \* transactions that carry a message
    Muted,          \* of these, the ones for a chat that is muted
    Unsubscribed,   \*   and for a chat that the user left
    Deposits,       \* transactions that deposit into the vault
    Workers,        \* programUpdateWorker goroutines
    MaxFound,       \* transactions a backup takes from a history
    MaxFaults,      \* bound on errors
    MaxRestarts,    \* bound on restarts
    None

Backups == {"messages", "deposits"}
Processes == Workers \cup Backups
Transactions == Messages \cup Deposits

ASSUME GeyserSets ==
    /\ Messages \cap Deposits = {} /\ None \notin Transactions
    /\ Muted \subseteq Messages /\ Unsubscribed \subseteq Messages
    /\ Workers \cap Backups = {}
ASSUME GeyserBounds ==
    MaxFound \in Nat \ {0} /\ MaxFaults \in Nat /\ MaxRestarts \in Nat

VARIABLES
    coming,         \* transactions that may still be sent
    chain,          \* blockchain: confirmed transactions in their order
    final,          \* blockchain: how many of them are finalized
    chat,           \* database: chat messages, by the transaction they tell of
    badge,          \* database: how often each message was counted
    pushed,         \* notifications sent for each message
    intents,        \* database: ExternalDeposit intents
    credited,       \* database: external deposits, part of the balance
    flag,           \* database: RequiresDepositSync of the account
    asking,         \* has GetTokenAccountInfos read a flag that it will set?
    due,            \* deposits on the chain when the flag was last set
    cached,         \* syncedMessageCache and syncedDepositCache
    checkpoint,     \* of the backup for messages
    at,             \* what each process does next, and with which transaction
    todo,           \* what each backup has found and not yet begun, by its place
                    \* in the chain
    failed,         \* anyError of each backup
    pointed,        \* does the checkpoint point to the loop variable?
    faults, restarts,
    clean           \* has the process met no error since it started?

chainVars == <<coming, chain, final>>
chatVars == <<chat, badge, pushed>>
depositVars == <<intents, credited>>
flagVars == <<flag, asking, due>>
backupVars == <<checkpoint, todo, pointed>>
faultVars == <<faults, restarts, clean>>
vars == <<chainVars, chatVars, depositVars, flagVars, cached, at, failed, backupVars, faultVars>>

Steps == {"idle", "next", "message", "badge", "push", "deposit", "intent", "chat", "credit"}

GeyserTypeOK ==
    /\ coming \subseteq Transactions
    /\ chain \in Seq(Transactions) /\ final \in 0 .. Len(chain)
    /\ chat \subseteq Transactions
    /\ badge \in [Messages -> Nat] /\ pushed \in [Messages -> Nat]
    /\ intents \subseteq Deposits /\ credited \subseteq Deposits /\ due \subseteq Deposits
    /\ flag \in BOOLEAN /\ asking \in BOOLEAN
    /\ cached \subseteq Transactions
    /\ checkpoint \in Messages \cup {None}
    /\ at \in [Processes -> [step : Steps, tx : Transactions \cup {None}]]
    /\ at["messages"].tx \notin Deposits /\ at["deposits"].tx \notin Messages
    /\ todo \in [Backups -> SUBSET DOMAIN chain]
    /\ \A n \in todo["messages"] : chain[n] \in Messages
    /\ \A n \in todo["deposits"] : chain[n] \in Deposits
    /\ failed \in [Backups -> BOOLEAN]
    /\ pointed \in BOOLEAN
    /\ faults \in 0 .. MaxFaults /\ restarts \in 0 .. MaxRestarts
    /\ clean \in BOOLEAN

Idle == [step |-> "idle", tx |-> None]

\* Perhaps some transactions, errors or restarts never come.
Init ==
    /\ coming \in SUBSET Transactions
    /\ chain = <<>> /\ final = 0
    /\ chat = {}
    /\ badge = [m \in Messages |-> 0] /\ pushed = [m \in Messages |-> 0]
    /\ intents = {} /\ credited = {}
    /\ flag = FALSE /\ asking = FALSE /\ due = {}
    /\ cached = {}
    /\ checkpoint = None
    /\ at = [p \in Processes |-> Idle]
    /\ todo = [b \in Backups |-> {}]
    /\ failed = [b \in Backups |-> FALSE]
    /\ pointed = FALSE
    /\ faults \in 0 .. MaxFaults /\ restarts \in 0 .. MaxRestarts /\ clean = TRUE

OnChain == {chain[n] : n \in DOMAIN chain}
Finalized == {chain[n] : n \in 1 .. final}

(***************************************************************************)
(* The blockchain, and the client that asks for its accounts.              *)
(***************************************************************************)

Arrive(t) ==
    /\ t \in coming
    /\ coming' = coming \ {t}
    /\ chain' = Append(chain, t)
    /\ UNCHANGED <<final, chatVars, depositVars, flagVars, cached, at, failed, backupVars, faultVars>>

Finalize ==
    /\ final < Len(chain)
    /\ final' = final + 1
    /\ UNCHANGED <<coming, chain, chatVars, depositVars, flagVars, cached, at, failed, backupVars,
                   faultVars>>

\* GetTokenAccountInfos reads the flag, and sets it if it was not set.
Ask ==
    /\ ~flag /\ ~asking
    /\ asking' = TRUE
    /\ UNCHANGED <<chainVars, chatVars, depositVars, flag, due, cached, at, failed, backupVars,
                   faultVars>>

SetFlag ==
    /\ asking
    /\ asking' = FALSE
    /\ flag' = TRUE
    /\ due' = IF flag THEN due ELSE OnChain \cap Deposits
    /\ UNCHANGED <<chainVars, chatVars, depositVars, cached, at, failed, backupVars, faultVars>>

(***************************************************************************)
(* Handling one transaction.                                               *)
(***************************************************************************)

Goto(p, step) == at' = [at EXCEPT ![p].step = step]

\* Mutant: what could not be handled is cached as well.
ReturnAndCache(p, ok) ==
    /\ Goto(p, IF p \in Workers THEN "idle" ELSE "next")
    /\ cached' = cached \cup {at[p].tx}
    /\ failed' = IF p \in Backups /\ ~ok THEN [failed EXCEPT ![p] = TRUE] ELSE failed
    /\ pointed' = (pointed \/ (p = "messages" /\ ok /\ ~failed[p]))

\* The handler of p returns: a worker takes the next update, a backup the next
\* transaction it found.  Errors are remembered, and the checkpoint of the
\* backup for messages is made to point to the loop variable if there was none.
Return(p, ok) ==
    /\ Goto(p, IF p \in Workers THEN "idle" ELSE "next")
    /\ cached' = IF ok THEN cached \cup {at[p].tx} ELSE cached
    /\ failed' = IF p \in Backups /\ ~ok THEN [failed EXCEPT ![p] = TRUE] ELSE failed
    /\ pointed' = (pointed \/ (p = "messages" /\ ok /\ ~failed[p]))

FirstStep(t) == IF t \in Messages THEN "message" ELSE "deposit"

\* A worker gets an update, of any transaction there is.
HandleUpdate(w, t) ==
    /\ at[w].step = "idle"
    /\ t \in OnChain
    /\ t \notin cached
    /\ at' = [at EXCEPT ![w] = [step |-> FirstStep(t), tx |-> t]]
    /\ UNCHANGED <<chainVars, chatVars, depositVars, flagVars, cached, failed, backupVars, faultVars>>

\* Mutant: a message that is there already is pushed again.
PutChatMessageAgain(p) ==
    LET m == at[p].tx
        ok == m \in Muted \cup Unsubscribed
    IN  /\ at[p].step = "message"
        /\ chat' = IF m \in Unsubscribed THEN chat ELSE chat \cup {m}
        /\ IF ok THEN Return(p, TRUE)
                 ELSE Goto(p, "badge") /\ UNCHANGED <<cached, failed, pointed>>
        /\ UNCHANGED <<chainVars, badge, pushed, depositVars, flagVars, checkpoint, todo, faultVars>>

\* SendChatMessage: a message that is there already is neither counted nor
\* pushed.
PutChatMessage(p) ==
    LET m == at[p].tx
        quiet == m \in Muted \cup Unsubscribed \cup chat
    IN  /\ at[p].step = "message"
        /\ chat' = IF m \in Unsubscribed THEN chat ELSE chat \cup {m}
        /\ IF quiet THEN Return(p, TRUE)
                    ELSE Goto(p, "badge") /\ UNCHANGED <<cached, failed, pointed>>
        /\ UNCHANGED <<chainVars, badge, pushed, depositVars, flagVars, checkpoint, todo, faultVars>>

AddToBadgeCount(p) ==
    /\ at[p].step = "badge"
    /\ badge' = [badge EXCEPT ![at[p].tx] = @ + 1]
    /\ Goto(p, "push")
    /\ UNCHANGED <<chainVars, chat, pushed, depositVars, flagVars, cached, failed, backupVars, faultVars>>

PushMessage(p) ==
    /\ at[p].step = "push"
    /\ pushed' = [pushed EXCEPT ![at[p].tx] = @ + 1]
    /\ Return(p, TRUE)
    /\ UNCHANGED <<chainVars, chat, badge, depositVars, flagVars, checkpoint, todo, faultVars>>

\* processPotentialExternalDeposit, once the transaction is finalized.
LookUpDeposit(p) ==
    LET d == at[p].tx
    IN  /\ at[p].step = "deposit"
        /\ d \in Finalized
        /\ IF d \in credited THEN Return(p, TRUE)
                             ELSE Goto(p, "intent") /\ UNCHANGED <<cached, failed, pointed>>
        /\ UNCHANGED <<chainVars, chatVars, depositVars, flagVars, checkpoint, todo, faultVars>>

\* waitForFinalizationRetryStrategies are exhausted.
NotFinalized(p) ==
    /\ at[p].step = "deposit"
    /\ at[p].tx \notin Finalized
    /\ Return(p, FALSE)
    /\ UNCHANGED <<chainVars, chatVars, depositVars, flagVars, checkpoint, todo, faultVars>>

SaveIntent(p) ==
    /\ at[p].step = "intent"
    /\ intents' = intents \cup {at[p].tx}
    /\ Goto(p, "chat")
    /\ UNCHANGED <<chainVars, chatVars, credited, flagVars, cached, failed, backupVars, faultVars>>

\* SendCashTransactionsExchangeMessage: a silent message, perhaps there already.
TellOfDeposit(p) ==
    /\ at[p].step = "chat"
    /\ chat' = chat \cup {at[p].tx}
    /\ Goto(p, "credit")
    /\ UNCHANGED <<chainVars, badge, pushed, depositVars, flagVars, cached, failed, backupVars, faultVars>>

SaveExternalDeposit(p) ==
    /\ at[p].step = "credit"
    /\ credited' = credited \cup {at[p].tx}
    /\ Return(p, TRUE)
    /\ UNCHANGED <<chainVars, chatVars, intents, flagVars, checkpoint, todo, faultVars>>

Handling == Steps \ {"idle", "next"}

\* Mutant: the chat is taken for a best effort.
FailAndGoOn(p) ==
    /\ at[p].step \in Handling \ {"push"}
    /\ faults < MaxFaults
    /\ faults' = faults + 1 /\ clean' = FALSE
    /\ IF at[p].step = "chat"
       THEN Goto(p, "credit") /\ UNCHANGED <<cached, failed, pointed>>
       ELSE Return(p, FALSE)
    /\ UNCHANGED <<chainVars, chatVars, depositVars, flagVars, checkpoint, todo, restarts>>

\* A call to a store or to the blockchain fails.
Fail(p) ==
    /\ at[p].step \in Handling \ {"push"}
    /\ faults < MaxFaults
    /\ faults' = faults + 1 /\ clean' = FALSE
    /\ Return(p, FALSE)
    /\ UNCHANGED <<chainVars, chatVars, depositVars, flagVars, checkpoint, todo, restarts>>

\* The owner of the sender's domain cannot be looked up: the message is given up.
GiveUp(p) ==
    /\ at[p].step = "message"
    /\ faults < MaxFaults
    /\ faults' = faults + 1 /\ clean' = FALSE
    /\ Return(p, TRUE)
    /\ UNCHANGED <<chainVars, chatVars, depositVars, flagVars, checkpoint, todo, restarts>>

(***************************************************************************)
(* The backups.                                                            *)
(***************************************************************************)

\* The newest of the transactions at some places of a history.
Newest(places) == {n \in places : Cardinality({k \in places : k > n}) < MaxFound}

\* Mutant: the history is not searched by account.
PotentialMessagesOfAll ==
    Newest({n \in 1 .. final : \A k \in 1 .. final : chain[k] = checkpoint => n > k})

\* findPotentialBlockchainMessages: what was finalized after the checkpoint.
PotentialMessages ==
    LET sent == {n \in 1 .. final : chain[n] \in Messages}
    IN  Newest({n \in sent : \A k \in sent : chain[k] = checkpoint => n > k})

\* findPotentialExternalDeposits.
PotentialDeposits == Newest({n \in DOMAIN chain : chain[n] \in Deposits})

Find(b) ==
    /\ at[b].step = "idle"
    /\ b = "deposits" => flag
    /\ todo' = [todo EXCEPT ![b] = IF b = "messages" THEN PotentialMessages ELSE PotentialDeposits]
    /\ b = "messages" => todo'[b] # {}
    /\ Goto(b, "next")
    /\ UNCHANGED <<chainVars, chatVars, depositVars, flagVars, cached, checkpoint, failed, pointed,
                   faultVars>>

\* The next one, the oldest message or the newest deposit; it is done with at
\* once if it was handled before.
Take(b) ==
    /\ at[b].step = "next"
    /\ \E n \in todo[b] :
        /\ \A k \in todo[b] : IF b = "messages" THEN n <= k ELSE n >= k
        /\ LET t == chain[n]
               skip == t \in cached
           IN  /\ at' = [at EXCEPT ![b] = [step |-> IF skip THEN "next" ELSE FirstStep(t), tx |-> t]]
               /\ pointed' = (pointed \/ (b = "messages" /\ skip /\ ~failed[b]))
        /\ todo' = [todo EXCEPT ![b] = @ \ {n}]
    /\ UNCHANGED <<chainVars, chatVars, depositVars, flagVars, cached, checkpoint, failed, faultVars>>

Rest(b) ==
    /\ at' = [at EXCEPT ![b] = Idle]
    /\ failed' = [failed EXCEPT ![b] = FALSE]

\* fixMissingBlockchainMessages returns the checkpoint.  It points to the
\* variable of the loop, which by now is the last transaction found.
EndMessages ==
    /\ at["messages"].step = "next" /\ todo["messages"] = {}
    /\ checkpoint' = IF pointed THEN at["messages"].tx ELSE checkpoint
    /\ pointed' = FALSE
    /\ Rest("messages")
    /\ UNCHANGED <<chainVars, chatVars, depositVars, flagVars, cached, todo, faultVars>>

\* Mutant: the account is synced even if a deposit was not handled.
EndDepositsAnyhow ==
    /\ at["deposits"].step = "next" /\ todo["deposits"] = {}
    /\ flag' = FALSE
    /\ Rest("deposits")
    /\ UNCHANGED <<chainVars, chatVars, depositVars, asking, due, cached, backupVars, faultVars>>

\* fixMissingExternalDeposits, and markDepositsAsSynced after no error.
EndDeposits ==
    /\ at["deposits"].step = "next" /\ todo["deposits"] = {}
    /\ flag' = (flag /\ failed["deposits"])
    /\ Rest("deposits")
    /\ UNCHANGED <<chainVars, chatVars, depositVars, asking, due, cached, backupVars, faultVars>>

\* Mutant: the checkpoint is stored.
RestartAtCheckpoint ==
    /\ restarts < MaxRestarts
    /\ restarts' = restarts + 1 /\ clean' = TRUE
    /\ at' = [p \in Processes |-> Idle]
    /\ todo' = [b \in Backups |-> {}]
    /\ failed' = [b \in Backups |-> FALSE]
    /\ pointed' = FALSE
    /\ cached' = {}
    /\ UNCHANGED <<chainVars, chatVars, depositVars, flagVars, checkpoint, faults>>

\* The process stops and is started again: it has nothing in memory.
Restart ==
    /\ restarts < MaxRestarts
    /\ restarts' = restarts + 1 /\ clean' = TRUE
    /\ at' = [p \in Processes |-> Idle]
    /\ todo' = [b \in Backups |-> {}]
    /\ failed' = [b \in Backups |-> FALSE]
    /\ pointed' = FALSE
    /\ cached' = {}
    /\ checkpoint' = None
    /\ UNCHANGED <<chainVars, chatVars, depositVars, flagVars, faults>>

Handle(p) ==
    \/ PutChatMessage(p) \/ AddToBadgeCount(p) \/ PushMessage(p)
    \/ LookUpDeposit(p) \/ NotFinalized(p)
    \/ SaveIntent(p) \/ TellOfDeposit(p) \/ SaveExternalDeposit(p)

BackupStep(b) ==
    \/ Find(b) \/ Take(b) \/ Handle(b)
    \/ b = "messages" /\ EndMessages
    \/ b = "deposits" /\ EndDeposits

Next ==
    \/ \E t \in Transactions : Arrive(t)
    \/ Finalize \/ Ask \/ SetFlag
    \/ \E w \in Workers : (\E t \in Transactions : HandleUpdate(w, t)) \/ Handle(w)
    \/ \E b \in Backups : BackupStep(b)
    \/ \E p \in Processes : Fail(p) \/ GiveUp(p)
    \/ Restart

Spec == Init /\ [][Next]_vars

\* Fairness: transactions are finalized, clients ask for their accounts again
\* and again, and the backups run.  Nothing is assumed of Geyser (backup.go).
Fairness ==
    /\ WF_vars(Finalize)
    /\ WF_vars(Ask) /\ WF_vars(SetFlag)
    /\ \A b \in Backups : WF_vars(BackupStep(b))

FairSpec == Spec /\ Fairness

(***************************************************************************)
(* Properties.                                                             *)
(***************************************************************************)

\* A message is counted and pushed at most once, and never pushed uncounted,
\* whoever handles it how often (SendChatMessage).
CountedOnce == \A m \in Messages : badge[m] <= 1 /\ pushed[m] <= badge[m]

\* What is part of a balance is part of the payment history, and the user was
\* told of it (processPotentialExternalDeposit).
CreditIsShown == credited \subseteq intents \cap chat

\* MaxFound transactions of its kind came after it.
Beyond(t) ==
    LET kind == IF t \in Messages THEN Messages ELSE Deposits
        places == {n \in DOMAIN chain : chain[n] \in kind}
    IN  \E n \in places : chain[n] = t /\ n \notin Newest(places)

\* When the account is not to be synced, what was on the chain when it was last
\* found to be is part of its balance (markDepositsAsSynced).
SyncedIsCredited == flag \/ \A d \in due : d \in credited \/ Beyond(d)

\* A process that meets no error stores every message that was sent, also those
\* that the process before it failed to store.
EveryMessageIsStored ==
    <>[]clean =>
        []<>(\A m \in Finalized \cap Messages : m \in chat \cup Unsubscribed \/ Beyond(m))

\* Every deposit gets credited, if the client asks for its accounts again.
EveryDepositIsCredited ==
    \A d \in Deposits : d \in OnChain ~> (d \in credited \/ Beyond(d))

=============================================================================
