---------------------------- MODULE SequencerProofs ----------------------------
(***************************************************************************)
(* Proofs about Sequencer, for any intents, actions and fulfillments, and  *)
(* any number of them in hand: what is confirmed is settled; the state of  *)
(* an intent is what its actions say; transactions execute in the order of *)
(* the scheduler, find their accounts on the blockchain, and the funds in  *)
(* them.  The lemmas about its steps serve also where it is composed with  *)
(* others (GiftCardProofs).                                                *)
(***************************************************************************)
EXTENDS Sequencer, TLAPS, FiniteSetTheorems

(***************************************************************************)
(* The inductive invariant.                                                *)
(***************************************************************************)

\* The accounts a transaction closes, the payments that are recorded.
Closing == {"Withdraw", "CloseEmpty", "CloseDormant"}
Paying == {"Transfer", "Withdraw", "Advance", "Temporary"}

\* The records that depend on a fulfillment that succeeded are saved.
Settled(f) ==
    /\ Type[f] # "Advance" => actionState[ActionOf[f]] = "Confirmed"
    /\ Type[f] \in Paying => f \in payments
    /\ Type[f] = "Initialize" => timelock[Source[f]] # "Unknown"
    /\ Type[f] \in Closing => timelock[Source[f]] = "Closed"
    /\ Type[f] = "Advance" => commitment[ActionOf[f]] \in {"ReadyToOpen", "Open"}

\* What the worker that has a fulfillment in hand has saved so far.
FulfillmentInv(f) ==
    /\ step[f] # "idle" => ful[f] = "Pending" /\ outcome[f] # "none"
    /\ step[f] # "idle" /\ Succeeded(f) /\ Type[f] # "Advance" =>
            actionState[ActionOf[f]] = "Confirmed"
    /\ step[f] = "success" => Succeeded(f)
    /\ step[f] = "settle" /\ Succeeded(f) => Settled(f)
    /\ ful[f] = "Confirmed" => Succeeded(f) /\ Settled(f)
    /\ Succeeded(f) /\ Type[f] \in Closing => vault[Source[f]] = "closed"
    /\ Type[f] = "Advance" /\ ful[f] \in {"None", "Unknown"} => commitment[ActionOf[f]] = "Unknown"
    /\ ~Submitted(IntentOf[ActionOf[f]]) => ful[f] = "None"

\* A record that says closed is right.
VaultInv == \A v \in Accounts : timelock[v] = "Closed" => vault[v] = "closed"

\* The intent's state is what its actions say, or some fulfillment is still to be
\* handled that will have the intent handler read them all again.
Waiting(i) == \E f \in FulfillmentsOf[i] :
    ful[f] = "Pending" /\ outcome[f] # "none" /\ step[f] \in {"idle", "intent"}
Current(i) == intentState[i] = IF IsFailed(i) THEN "Failed"
                               ELSE IF IsConfirmed(i) THEN "Confirmed" ELSE "Pending"
IntentInv(i) ==
    /\ Submitted(i) => intentState[i] # "None" /\ (Current(i) \/ Waiting(i))
    /\ intentState[i] = "Failed" => IsFailed(i)
    /\ intentState[i] = "Confirmed" => IsConfirmed(i)
    /\ ~Submitted(i) => \A a \in ActionsOf[i] : actionState[a] = "None"

SeqInv ==
    /\ TypeOK
    /\ VaultInv
    /\ \A f \in Fulfillments : FulfillmentInv(f)
    /\ \A i \in Intents : IntentInv(i)

LEMMA SequencerInvInit == Init => SeqInv
<1> SUFFICES ASSUME Init PROVE SeqInv
  OBVIOUS
<1>1. TypeOK
  <2>1. Cardinality(Intents) \in Nat
    BY SomeDecide, FS_CardinalityType
  <2> QED
    BY <2>1, AccountSets
    DEF Init, TypeOK, IntentStates, ActionStates, FulfillmentStates, Steps, Holders
<1>2. VaultInv
  BY DEF Init, VaultInv
<1>3. \A f \in Fulfillments : FulfillmentInv(f)
  BY Records DEF Init, FulfillmentInv, Succeeded
<1>4. \A i \in Intents : IntentInv(i)
  BY DEF Init, IntentInv, Submitted, ActionsOf
<1> QED
  BY <1>1, <1>2, <1>3, <1>4 DEF SeqInv

(***************************************************************************)
(* What no step takes back.                                                *)
(***************************************************************************)

\* Between two states: what is submitted, executed, saved or closed stays so.
Onward ==
    /\ \A i \in Intents : Submitted(i) => Submitted(i)'
    /\ \A a \in Actions : actionState[a] = "Confirmed" => actionState'[a] = "Confirmed"
    /\ payments \subseteq payments'
    /\ \A v \in Accounts :
        /\ timelock[v] # "Unknown" => timelock'[v] # "Unknown"
        /\ timelock[v] = "Closed" => timelock'[v] = "Closed"
        /\ vault[v] = "closed" => vault'[v] = "closed"
    /\ \A a \in Actions :
        commitment[a] \in {"ReadyToOpen", "Open"} => commitment'[a] \in {"ReadyToOpen", "Open"}

LEMMA SettledStays ==
    ASSUME Onward, NEW f \in Fulfillments, Settled(f)
    PROVE  Settled(f)'
<1>1. ActionOf[f] \in Actions
  BY Records
<1>2. Type[f] \in {"Initialize", "Withdraw", "CloseEmpty", "CloseDormant"} => Source[f] \in Accounts
  BY OpenedAndClosed
<1> QED
  BY <1>1, <1>2 DEF Onward, Settled, Closing

\* A step that is not about a fulfillment keeps what is known of it.
LEMMA FulfillmentKept ==
    ASSUME Onward, NEW f \in Fulfillments, FulfillmentInv(f),
           ful'[f] = ful[f], outcome'[f] = outcome[f], step'[f] = step[f],
           \/ commitment'[ActionOf[f]] = commitment[ActionOf[f]]
           \/ Type[f] # "Advance" \/ ful[f] \notin {"None", "Unknown"}
    PROVE  FulfillmentInv(f)'
<1>1. Records /\ ActionOf[f] \in Actions /\ IntentOf[ActionOf[f]] \in Intents
  BY Records
<1>2. Type[f] \in Closing => Source[f] \in Accounts
  BY OpenedAndClosed DEF Closing
<1>3. Settled(f) => Settled(f)'
  BY SettledStays
<1>4. Succeeded(f)' <=> Succeeded(f)
  BY DEF Succeeded
<1> QED
  BY <1>1, <1>2, <1>3, <1>4 DEF FulfillmentInv, Onward

\* A step that does not confirm or fail an action of an intent, nor ends its
\* waiting, keeps what is known of it.
LEMMA IntentKept ==
    ASSUME NEW i \in Intents, IntentInv(i),
           intentId'[i] = intentId[i], intentState'[i] = intentState[i],
           \A a \in ActionsOf[i] :
                \/ actionState'[a] = actionState[a]
                \/ /\ actionState[a] \in {"Unknown", "Pending", "Revoked"}
                   /\ actionState'[a] \in {"Unknown", "Pending", "Revoked"},
           Waiting(i) => Waiting(i)'
    PROVE  IntentInv(i)'
<1>1. Submitted(i)' <=> Submitted(i)
  BY DEF Submitted
<1>2. \A a \in ActionsOf[i] :
        /\ actionState'[a] = "Failed" <=> actionState[a] = "Failed"
        /\ actionState'[a] = "Confirmed" <=> actionState[a] = "Confirmed"
        /\ actionState[a] = "None" => actionState'[a] = "None"
  OBVIOUS
<1>3. Deciding[i] \subseteq ActionsOf[i]
  BY DEF Deciding
<1>4. IsFailed(i)' <=> IsFailed(i)
  BY <1>2, <1>3 DEF IsFailed
<1>5. IsConfirmed(i)' <=> IsConfirmed(i)
  BY <1>2, <1>3 DEF IsConfirmed
<1>6. Current(i) => Current(i)'
  BY <1>4, <1>5 DEF Current
<1> QED
  BY <1>1, <1>2, <1>4, <1>5, <1>6 DEF IntentInv

\* A fulfillment moves on, its side effects and those of the others being kept.
LEMMA OneMoves ==
    ASSUME SeqInv, Onward, NEW f \in Fulfillments, FulfillmentInv(f)',
           \A g \in Fulfillments \ {f} :
                ful'[g] = ful[g] /\ outcome'[g] = outcome[g] /\ step'[g] = step[g],
           \/ commitment' = commitment
           \/ /\ Type[f] = "Advance"
              /\ \A a \in Actions \ {ActionOf[f]} : commitment'[a] = commitment[a]
    PROVE  \A g \in Fulfillments : FulfillmentInv(g)'
<1> SUFFICES ASSUME NEW g \in Fulfillments, g # f PROVE FulfillmentInv(g)'
  OBVIOUS
<1>1. ActionOf[g] \in Actions
  BY Records
<1>2. \/ commitment'[ActionOf[g]] = commitment[ActionOf[g]]
      \/ Type[g] # "Advance"
  BY <1>1, OneOfEachType
<1> QED
  BY <1>2, FulfillmentKept DEF SeqInv

\* What a fulfillment waits for is still to come after a step that leaves it
\* where it is, or takes it on without the intent handler.
Waits(f) == ful[f] = "Pending" /\ outcome[f] # "none" /\ step[f] \in {"idle", "intent"}

LEMMA IntentsKept ==
    ASSUME SeqInv, UNCHANGED <<intentId, intentState>>,
           \A a \in Actions :
                \/ actionState'[a] = actionState[a]
                \/ /\ actionState[a] \in {"Unknown", "Pending", "Revoked"}
                   /\ actionState'[a] \in {"Unknown", "Pending", "Revoked"},
           \A f \in Fulfillments : Waits(f) => Waits(f)'
    PROVE  \A i \in Intents : IntentInv(i)'
<1> SUFFICES ASSUME NEW i \in Intents PROVE IntentInv(i)'
  OBVIOUS
<1>1. Waiting(i) => Waiting(i)'
  BY DEF Waiting, Waits, FulfillmentsOf
<1>2. IntentInv(i) /\ ActionsOf[i] \subseteq Actions
  BY DEF SeqInv, ActionsOf
<1> QED
  BY <1>1, <1>2, IntentKept

(***************************************************************************)
(* Every step keeps the invariant.                                         *)
(***************************************************************************)

\* What is polled, presorted or noticed does not matter to it.
LEMMA SideStep ==
    ASSUME SeqInv, UNCHANGED <<intentId, intentState, actionState, ful, sideVars, chainVars, step>>,
           awake' \subseteq Fulfillments, presorted' \subseteq Fulfillments,
           noticed' \subseteq Fulfillments
    PROVE  SeqInv'
<1> USE DEF sideVars, chainVars
<1>1. TypeOK'
  BY DEF SeqInv, TypeOK
<1>2. VaultInv'
  BY DEF SeqInv, VaultInv
<1>3. Onward
  BY DEF Onward, Submitted
<1>4. \A f \in Fulfillments : FulfillmentInv(f)'
  BY <1>3, FulfillmentKept DEF SeqInv
<1>5. \A i \in Intents : IntentInv(i)'
  BY IntentsKept DEF Waits
<1> QED
  BY <1>1, <1>2, <1>4, <1>5 DEF SeqInv

\* An action is scheduled or revoked.
LEMMA ActionStep ==
    ASSUME SeqInv, NEW a \in Actions, NEW new \in {"Pending", "Revoked"},
           actionState[a] \in {"Unknown", "Pending"},
           actionState' = [actionState EXCEPT ![a] = new],
           UNCHANGED <<intentId, intentState, presorted, ful, awake, sideVars, chainVars, step, noticed>>
    PROVE  SeqInv'
<1> USE DEF sideVars, chainVars
<1>1. TypeOK'
  BY DEF SeqInv, TypeOK, ActionStates
<1>2. VaultInv'
  BY DEF SeqInv, VaultInv
<1>3. \A b \in Actions : actionState'[b] = IF b = a THEN new ELSE actionState[b]
  BY DEF SeqInv, TypeOK
<1>4. Onward
  BY <1>3 DEF Onward, Submitted
<1>5. \A f \in Fulfillments : FulfillmentInv(f)'
  BY <1>4, FulfillmentKept DEF SeqInv
<1>6. \A i \in Intents : IntentInv(i)'
  BY <1>3, IntentsKept DEF Waits
<1> QED
  BY <1>1, <1>2, <1>5, <1>6 DEF SeqInv

LEMMA StepPolling ==
    ASSUME SeqInv, NEW f \in Fulfillments, Postpone(f) \/ Notice(f) \/ ReleaseAdvance(f)
    PROVE  SeqInv'
<1>1. awake \subseteq Fulfillments /\ presorted \subseteq Fulfillments /\ noticed \subseteq Fulfillments
  BY DEF SeqInv, TypeOK
<1>2. /\ UNCHANGED <<intentId, intentState, actionState, ful, sideVars, chainVars, step>>
      /\ awake' \subseteq Fulfillments /\ presorted' \subseteq Fulfillments
      /\ noticed' \subseteq Fulfillments
  BY <1>1 DEF Postpone, Notice, ReleaseAdvance, recordVars
<1> QED
  BY <1>2, SideStep

LEMMA StepRevokeAction ==
    ASSUME SeqInv, NEW f \in Fulfillments, RevokeAction(f)
    PROVE  SeqInv'
  BY Records, ActionStep DEF RevokeAction

LEMMA StepSchedule ==
    ASSUME SeqInv, NEW f \in Fulfillments, Schedule(f)
    PROVE  SeqInv'
<1> USE DEF sideVars, chainVars, recordVars
<1> DEFINE a == ActionOf[f]
<1>1. /\ ful[f] = "Unknown" /\ ful' = [ful EXCEPT ![f] = "Pending"]
      /\ commitment' = IF Type[f] = "Advance" THEN [commitment EXCEPT ![a] = "PayingDestination"]
                       ELSE commitment
      /\ UNCHANGED <<intentId, intentState, actionState, presorted, awake, timelock, payments>>
      /\ UNCHANGED <<outcome, vault, balance, step, noticed>>
      /\ a \in Actions
  BY Records DEF Schedule, Polled
<1>2. TypeOK /\ FulfillmentInv(f) /\ IntentOf[a] \in Intents
  BY Records DEF SeqInv
<1>3. TypeOK'
  BY <1>1, <1>2 DEF TypeOK, FulfillmentStates
<1>4. VaultInv'
  BY <1>1 DEF SeqInv, VaultInv
<1>5. \A b \in Actions : commitment'[b] =
        IF Type[f] = "Advance" /\ b = a THEN "PayingDestination" ELSE commitment[b]
  BY <1>1, <1>2 DEF TypeOK
<1>6. Type[f] = "Advance" => commitment[a] = "Unknown"
  BY <1>1, <1>2 DEF FulfillmentInv
<1>7. Onward
  BY <1>1, <1>5, <1>6 DEF Onward, Submitted
<1>8. ful'[f] = "Pending" /\ \A g \in Fulfillments \ {f} : ful'[g] = ful[g]
  BY <1>1, <1>2 DEF TypeOK
<1>9. FulfillmentInv(f)'
  BY <1>1, <1>2, <1>8 DEF FulfillmentInv, Succeeded, Submitted
<1>10. \A g \in Fulfillments : FulfillmentInv(g)'
  BY <1>1, <1>5, <1>7, <1>8, <1>9, OneMoves
<1>11. \A i \in Intents : IntentInv(i)'
  BY <1>1, <1>8, IntentsKept DEF Waits
<1> QED
  BY <1>3, <1>4, <1>10, <1>11 DEF SeqInv

LEMMA StepRevoke ==
    ASSUME SeqInv, NEW f \in Fulfillments, Revoke(f)
    PROVE  SeqInv'
<1> USE DEF sideVars, chainVars, recordVars
<1>1. /\ ful[f] = "Unknown" /\ ful' = [ful EXCEPT ![f] = "Revoked"]
      /\ UNCHANGED <<intentId, intentState, actionState, presorted, awake, timelock, commitment>>
      /\ UNCHANGED <<payments, outcome, vault, balance, step, noticed>>
  BY DEF Revoke
<1>2. TypeOK /\ FulfillmentInv(f) /\ IntentOf[ActionOf[f]] \in Intents
  BY Records DEF SeqInv
<1>3. TypeOK'
  BY <1>1, <1>2 DEF TypeOK, FulfillmentStates
<1>4. VaultInv'
  BY <1>1 DEF SeqInv, VaultInv
<1>5. Onward
  BY <1>1 DEF Onward, Submitted
<1>6. ful'[f] = "Revoked" /\ \A g \in Fulfillments \ {f} : ful'[g] = ful[g]
  BY <1>1, <1>2 DEF TypeOK
<1>7. FulfillmentInv(f)'
  BY <1>1, <1>2, <1>6 DEF FulfillmentInv, Succeeded, Submitted
<1>8. \A g \in Fulfillments : FulfillmentInv(g)'
  BY <1>1, <1>5, <1>6, <1>7, OneMoves
<1>9. \A i \in Intents : IntentInv(i)'
  BY <1>1, <1>6, IntentsKept DEF Waits
<1> QED
  BY <1>3, <1>4, <1>8, <1>9 DEF SeqInv

LEMMA StepSubmitIntent ==
    ASSUME SeqInv, NEW i \in Intents, SubmitIntent(i)
    PROVE  SeqInv'
<1> USE DEF sideVars, chainVars
<1> DEFINE before == {j \in Intents : Submitted(j)}
<1>1. /\ ~Submitted(i)
      /\ intentId' = [intentId EXCEPT ![i] = Cardinality(before) + 1]
      /\ intentState' = [intentState EXCEPT ![i] = "Pending"]
      /\ actionState' = [a \in Actions |->
            IF IntentOf[a] # i THEN actionState[a]
            ELSE IF ActionType[a] = "CloseDormantAccount" THEN "Unknown" ELSE "Pending"]
      /\ ful' = [f \in Fulfillments |-> IF f \in FulfillmentsOf[i] THEN "Unknown" ELSE ful[f]]
      /\ awake' = awake \cup (FulfillmentsOf[i] \ Asleep)
      /\ UNCHANGED <<presorted, timelock, commitment, payments, outcome, vault, balance, step, noticed>>
  BY DEF SubmitIntent
<1>2. TypeOK /\ IntentInv(i)
  BY DEF SeqInv
<1>3. Cardinality(before) + 1 \in 1 .. Cardinality(Intents)
  <2>1. IsFiniteSet(Intents) /\ before \subseteq Intents \ {i}
    BY <1>1, SomeDecide
  <2>2. /\ IsFiniteSet(Intents \ {i})
        /\ Cardinality(Intents \ {i}) = Cardinality(Intents) - 1
    BY <2>1, FS_RemoveElement
  <2>3. Cardinality(before) <= Cardinality(Intents \ {i}) /\ IsFiniteSet(before)
    BY <2>1, <2>2, FS_Subset
  <2>4. Cardinality(before) \in Nat /\ Cardinality(Intents) \in Nat
    BY <2>1, <2>3, FS_CardinalityType
  <2> QED
    BY <2>2, <2>3, <2>4
<1>4. /\ intentId' \in [Intents -> 0 .. Cardinality(Intents)]
      /\ intentId'[i] # 0 /\ \A j \in Intents \ {i} : intentId'[j] = intentId[j]
  <2> HIDE DEF before
  <2>1. Cardinality(Intents) \in Nat
    BY SomeDecide, FS_CardinalityType
  <2> QED
    BY <1>1, <1>2, <1>3, <2>1 DEF TypeOK
<1>5. TypeOK'
  <2>1. FulfillmentsOf[i] \subseteq Fulfillments
    BY DEF FulfillmentsOf
  <2>2. ful' \in [Fulfillments -> FulfillmentStates] /\ awake' \subseteq Fulfillments
    BY <1>1, <1>2, <2>1 DEF TypeOK, FulfillmentStates
  <2>3. actionState' \in [Actions -> ActionStates]
    BY <1>1, <1>2 DEF TypeOK, ActionStates
  <2>4. intentState' \in [Intents -> IntentStates]
    BY <1>1, <1>2 DEF TypeOK, IntentStates
  <2> QED
    BY <1>1, <1>2, <1>4, <2>2, <2>3, <2>4 DEF TypeOK
<1>6. VaultInv'
  BY <1>1 DEF SeqInv, VaultInv
<1>7. /\ \A a \in Actions : IntentOf[a] # i => actionState'[a] = actionState[a]
      /\ \A a \in Actions : IntentOf[a] = i =>
            actionState[a] = "None" /\ actionState'[a] \in {"Unknown", "Pending"}
  BY <1>1, <1>2 DEF IntentInv, ActionsOf
<1>8. Onward
  BY <1>1, <1>4, <1>7 DEF Onward, Submitted
<1>9. ASSUME NEW f \in Fulfillments PROVE FulfillmentInv(f)'
  <2>1. FulfillmentInv(f) /\ IntentOf[ActionOf[f]] \in Intents
    BY Records DEF SeqInv
  <2>2. CASE f \in FulfillmentsOf[i]
    <3>1. IntentOf[ActionOf[f]] = i
      BY <2>2 DEF FulfillmentsOf
    <3>2. ful[f] = "None" /\ ful'[f] = "Unknown" /\ step[f] = "idle"
      BY <1>1, <2>1, <2>2, <3>1 DEF FulfillmentInv
    <3> QED
      BY <1>1, <1>4, <2>1, <3>1, <3>2 DEF FulfillmentInv, Succeeded, Submitted
  <2>3. CASE f \notin FulfillmentsOf[i]
    <3>1. ful'[f] = ful[f]
      BY <1>1, <2>3
    <3> QED
      BY <1>1, <1>8, <2>1, <3>1, FulfillmentKept
  <2> QED
    BY <2>2, <2>3
<1>10. ASSUME NEW j \in Intents PROVE IntentInv(j)'
  <2>1. CASE j # i
    <3>1. \A f \in FulfillmentsOf[j] : f \in Fulfillments /\ f \notin FulfillmentsOf[i]
      BY <2>1 DEF FulfillmentsOf
    <3>2. Waiting(j) => Waiting(j)'
      BY <1>1, <3>1 DEF Waiting
    <3>3. \A a \in ActionsOf[j] : actionState'[a] = actionState[a]
      BY <1>7, <2>1 DEF ActionsOf
    <3>4. intentState'[j] = intentState[j]
      BY <1>1, <1>2, <2>1 DEF TypeOK
    <3> QED
      BY <1>4, <2>1, <3>2, <3>3, <3>4, IntentKept DEF SeqInv
  <2>2. CASE j = i
    <3>1. intentState'[i] = "Pending"
      BY <1>1, <1>2 DEF TypeOK
    <3>2. \A a \in Deciding[i] : actionState'[a] \in {"Unknown", "Pending"}
      BY <1>7 DEF Deciding, ActionsOf
    <3>3. Deciding[i] # {}
      BY SomeDecide
    <3>4. ~IsFailed(i)' /\ ~IsConfirmed(i)'
      BY <3>2, <3>3 DEF IsFailed, IsConfirmed
    <3> QED
      BY <1>4, <2>2, <3>1, <3>4 DEF IntentInv, Current, Submitted
  <2> QED
    BY <2>1, <2>2
<1> QED
  BY <1>5, <1>6, <1>9, <1>10 DEF SeqInv

\* The blockchain.  A transaction that succeeded closed what it closes.
LEMMA StepExecute ==
    ASSUME SeqInv, NEW f \in Fulfillments, Execute(f) \/ Fault(f)
    PROVE  SeqInv'
<1> USE DEF sideVars, chainVars, recordVars
<1>1. /\ ful[f] = "Pending" /\ outcome[f] = "none"
      /\ UNCHANGED <<intentId, intentState, actionState, presorted, ful, awake>>
      /\ UNCHANGED <<timelock, commitment, payments, step, noticed>>
  BY DEF Execute, Fault
<1>2. TypeOK /\ FulfillmentInv(f) /\ IntentOf[ActionOf[f]] \in Intents
      /\ Source[f] \in Holders /\ Destination[f] \in Holders
      /\ ActionOf[f] \in Actions /\ Quantity[ActionOf[f]] \in Nat
  BY Records DEF SeqInv, Holders
<1>3. step[f] = "idle"
  BY <1>1, <1>2 DEF FulfillmentInv
<1>4. PICK o \in {"done", "short", "failed"} :
        /\ outcome' = [outcome EXCEPT ![f] = o]
        /\ o \in {"done", "short"} /\ Type[f] \in Closing => vault'[Source[f]] = "closed"
        /\ \/ vault' = vault
           \/ vault' = [vault EXCEPT ![Source[f]] = "open"] /\ vault[Source[f]] = "absent"
           \/ vault' = [vault EXCEPT ![Source[f]] = "closed"]
        /\ balance' \in [Holders -> Int]
  <2>1. CASE Fault(f) \/ (Execute(f) /\ ~Executable(f))
    <3>1. /\ outcome' = [outcome EXCEPT ![f] = "failed"]
          /\ vault' = vault /\ balance' = balance
      BY <2>1 DEF Execute, Fault
    <3> QED
      BY <1>2, <3>1 DEF TypeOK
  <2>2. CASE Execute(f) /\ Executable(f)
    <3> DEFINE moved == Moved(f)
    <3>1. moved \in Int
      BY <1>2 DEF Moved, TypeOK
    <3>2. balance' = [v \in Holders |-> balance[v]
                    + (IF v = Destination[f] THEN moved ELSE 0)
                    - (IF v = Source[f] THEN moved ELSE 0)]
      BY <2>2 DEF Execute
    <3>3. balance' \in [Holders -> Int]
      <4> HIDE DEF moved
      <4>1. \A v \in Holders : balance[v] \in Int
        BY <1>2 DEF TypeOK
      <4> QED
        BY <3>1, <3>2, <4>1
    <3>4. \E o \in {"done", "short"} : outcome' = [outcome EXCEPT ![f] = o]
      BY <2>2 DEF Execute
    <3>5. Type[f] \in FulfillmentTypes
      BY Records
    <3>6. /\ Type[f] = "Initialize" =>
                vault' = [vault EXCEPT ![Source[f]] = "open"] /\ vault[Source[f]] = "absent"
          /\ Type[f] \in Closing => vault' = [vault EXCEPT ![Source[f]] = "closed"]
          /\ Type[f] \notin Closing \cup {"Initialize"} => vault' = vault
      BY <2>2, <3>5 DEF Execute, Executable, Closing
    <3>7. Type[f] \in Closing => Source[f] \in Accounts
      BY OpenedAndClosed DEF Closing
    <3>8. Type[f] \in Closing => vault'[Source[f]] = "closed"
      BY <1>2, <3>6, <3>7 DEF TypeOK
    <3> QED
      BY <3>3, <3>4, <3>6, <3>8
  <2> QED
    BY <2>1, <2>2 DEF Execute, Fault
<1>5. TypeOK'
  <2>1. outcome' \in [Fulfillments -> {"none", "done", "short", "failed"}]
    BY <1>2, <1>4 DEF TypeOK
  <2>2. vault' \in [Accounts -> {"absent", "open", "closed"}]
    BY <1>2, <1>4 DEF TypeOK
  <2> QED
    BY <1>1, <1>2, <1>4, <2>1, <2>2 DEF TypeOK
<1>6. \A v \in Accounts : vault[v] = "closed" => vault'[v] = "closed"
  BY <1>2, <1>4 DEF TypeOK
<1>7. VaultInv'
  BY <1>1, <1>6 DEF SeqInv, VaultInv
<1>8. Onward
  BY <1>1, <1>6 DEF Onward, Submitted
<1>9. outcome'[f] = o /\ \A g \in Fulfillments \ {f} : outcome'[g] = outcome[g]
  BY <1>2, <1>4 DEF TypeOK
<1>10. FulfillmentInv(f)'
  BY <1>1, <1>2, <1>3, <1>4, <1>9 DEF FulfillmentInv, Succeeded, Submitted
<1>11. \A g \in Fulfillments : FulfillmentInv(g)'
  BY <1>1, <1>8, <1>9, <1>10, OneMoves
<1>12. \A i \in Intents : IntentInv(i)'
  BY <1>1, <1>9, IntentsKept DEF Waits
<1> QED
  BY <1>5, <1>7, <1>11, <1>12 DEF SeqInv

LEMMA StepObserveVault ==
    ASSUME SeqInv, NEW v \in Accounts, ObserveVault(v)
    PROVE  SeqInv'
<1> USE DEF sideVars, chainVars, recordVars
<1>1. /\ vault[v] # "absent"
      /\ timelock' = [timelock EXCEPT ![v] = IF vault[v] = "open" THEN "Locked" ELSE "Closed"]
      /\ UNCHANGED <<intentId, intentState, actionState, presorted, ful, awake, commitment>>
      /\ UNCHANGED <<payments, outcome, vault, balance, step, noticed>>
  BY DEF ObserveVault
<1>2. TypeOK
  BY DEF SeqInv
<1>3. TypeOK'
  BY <1>1, <1>2 DEF TypeOK
<1>4. VaultInv'
  BY <1>1, <1>2 DEF SeqInv, VaultInv, TypeOK
<1>5. Onward
  BY <1>1, <1>2 DEF Onward, Submitted, SeqInv, VaultInv, TypeOK
<1>6. \A f \in Fulfillments : FulfillmentInv(f)'
  BY <1>1, <1>5, FulfillmentKept DEF SeqInv
<1>7. \A i \in Intents : IntentInv(i)'
  BY <1>1, IntentsKept DEF Waits
<1> QED
  BY <1>3, <1>4, <1>6, <1>7 DEF SeqInv

LEMMA StepCommitmentOpens ==
    ASSUME SeqInv, NEW a \in Actions, CommitmentOpens(a)
    PROVE  SeqInv'
<1> USE DEF sideVars, chainVars, recordVars
<1>1. /\ commitment[a] = "ReadyToOpen" /\ commitment' = [commitment EXCEPT ![a] = "Open"]
      /\ awake' = awake \cup OfAction(a, "Temporary")
      /\ UNCHANGED <<intentId, intentState, actionState, presorted, ful, timelock>>
      /\ UNCHANGED <<payments, outcome, vault, balance, step, noticed>>
  BY DEF CommitmentOpens
<1>2. TypeOK
  BY DEF SeqInv
<1>3. TypeOK'
  BY <1>1, <1>2 DEF TypeOK, OfAction
<1>4. VaultInv'
  BY <1>1 DEF SeqInv, VaultInv
<1>5. \A b \in Actions : commitment'[b] = IF b = a THEN "Open" ELSE commitment[b]
  BY <1>1, <1>2 DEF TypeOK
<1>6. Onward
  BY <1>1, <1>5 DEF Onward, Submitted
<1>7. ASSUME NEW f \in Fulfillments PROVE FulfillmentInv(f)'
  <2>1. FulfillmentInv(f) /\ ActionOf[f] \in Actions
    BY Records DEF SeqInv
  <2>2. \/ commitment'[ActionOf[f]] = commitment[ActionOf[f]]
        \/ Type[f] # "Advance" \/ ful[f] \notin {"None", "Unknown"}
    BY <1>1, <1>5, <2>1 DEF FulfillmentInv
  <2> QED
    BY <1>1, <1>6, <2>1, <2>2, FulfillmentKept
<1>8. \A i \in Intents : IntentInv(i)'
  BY <1>1, IntentsKept DEF Waits
<1> QED
  BY <1>3, <1>4, <1>7, <1>8 DEF SeqInv

\* The action handler: its intent now waits for the intent handler.
LEMMA StepUpdateAction ==
    ASSUME SeqInv, NEW f \in Fulfillments, UpdateAction(f)
    PROVE  SeqInv'
<1> USE DEF sideVars, chainVars
<1> DEFINE a == ActionOf[f]
           new == IF ~Succeeded(f) THEN "Failed"
                  ELSE IF Type[f] = "Advance" THEN actionState[a] ELSE "Confirmed"
<1>1. /\ ful[f] = "Pending" /\ outcome[f] # "none" /\ step[f] = "idle"
      /\ actionState[a] \in {"Pending", new}
      /\ actionState' = [actionState EXCEPT ![a] = new]
      /\ step' = [step EXCEPT ![f] = "intent"]
      /\ UNCHANGED <<intentId, intentState, presorted, ful, awake, timelock, commitment, payments>>
      /\ UNCHANGED <<outcome, vault, balance, noticed>>
  BY DEF UpdateAction
<1>2. TypeOK /\ FulfillmentInv(f) /\ a \in Actions /\ IntentOf[a] \in Intents
  BY Records DEF SeqInv
<1>3. new \in ActionStates
  BY <1>2 DEF TypeOK, ActionStates
<1>4. TypeOK'
  <2> HIDE DEF new
  <2> QED
    BY <1>1, <1>2, <1>3 DEF TypeOK, Steps
<1>5. VaultInv'
  BY <1>1 DEF SeqInv, VaultInv
<1>6. /\ actionState'[a] = new /\ \A b \in Actions \ {a} : actionState'[b] = actionState[b]
      /\ step'[f] = "intent" /\ \A g \in Fulfillments \ {f} : step'[g] = step[g]
  BY <1>1, <1>2 DEF TypeOK
<1>7. \A b \in Actions : actionState[b] \in {"Confirmed", "Failed"} => actionState'[b] = actionState[b]
  BY <1>1, <1>6
<1>8. Onward
  BY <1>1, <1>7 DEF Onward, Submitted
<1>9. FulfillmentInv(f)'
  <2>1. Succeeded(f)' <=> Succeeded(f)
    BY <1>1 DEF Succeeded
  <2>2. Succeeded(f) /\ Type[f] # "Advance" => actionState'[a] = "Confirmed"
    BY <1>6
  <2>3. /\ ful'[f] = "Pending" /\ outcome'[f] # "none"
        /\ Succeeded(f)' /\ Type[f] \in Closing => vault'[Source[f]] = "closed"
    BY <1>1, <1>2, <2>1 DEF FulfillmentInv
  <2>4. Submitted(IntentOf[a])'
    BY <1>1, <1>2 DEF FulfillmentInv, Submitted
  <2> HIDE DEF new
  <2> QED
    BY <1>6, <2>1, <2>2, <2>3, <2>4 DEF FulfillmentInv
<1>10. \A g \in Fulfillments : FulfillmentInv(g)'
  BY <1>1, <1>6, <1>8, <1>9, OneMoves
<1>11. ASSUME NEW i \in Intents PROVE IntentInv(i)'
  <2>1. IntentInv(i)
    BY DEF SeqInv
  <2>2. CASE IntentOf[a] # i
    <3>1. \A g \in FulfillmentsOf[i] : g \in Fulfillments \ {f}
      BY <2>2 DEF FulfillmentsOf
    <3>2. Waiting(i) => Waiting(i)'
      BY <1>1, <1>6, <3>1 DEF Waiting
    <3>3. \A b \in ActionsOf[i] : actionState'[b] = actionState[b]
      BY <1>6, <2>2 DEF ActionsOf
    <3> QED
      BY <1>1, <2>1, <3>2, <3>3, IntentKept
  <2>3. CASE IntentOf[a] = i
    <3>1. f \in FulfillmentsOf[i]
      BY <2>3 DEF FulfillmentsOf
    <3>2. Waiting(i)'
      BY <1>1, <1>6, <3>1 DEF Waiting
    <3>3. Submitted(i) /\ Submitted(i)'
      BY <1>1, <1>2, <2>3 DEF FulfillmentInv, Submitted
    <3>4. Deciding[i] \subseteq Actions
      BY DEF Deciding, ActionsOf
    <3>5. IsFailed(i) => IsFailed(i)'
      BY <1>7, <3>4 DEF IsFailed
    <3>6. IsConfirmed(i) => IsConfirmed(i)'
      BY <1>7, <3>4 DEF IsConfirmed
    <3> QED
      BY <1>1, <2>1, <3>2, <3>3, <3>5, <3>6 DEF IntentInv
  <2> QED
    BY <2>2, <2>3
<1> QED
  BY <1>4, <1>5, <1>10, <1>11 DEF SeqInv

\* The intent handler: the intent is now what its actions say.
LEMMA StepUpdateIntent ==
    ASSUME SeqInv, NEW f \in Fulfillments, UpdateIntent(f)
    PROVE  SeqInv'
<1> USE DEF sideVars, chainVars
<1> DEFINE i == IntentOf[ActionOf[f]]
<1>1. /\ step[f] = "intent"
      /\ \/ IsFailed(i) /\ intentState' = [intentState EXCEPT ![i] = "Failed"]
         \/ ~IsFailed(i) /\ IsConfirmed(i) /\ intentState' = [intentState EXCEPT ![i] = "Confirmed"]
         \/ ~IsFailed(i) /\ ~IsConfirmed(i) /\ intentState' = intentState
      /\ step' = [step EXCEPT ![f] = IF Succeeded(f) THEN "success" ELSE "settle"]
      /\ UNCHANGED <<intentId, actionState, presorted, ful, timelock, commitment, payments>>
      /\ UNCHANGED <<outcome, vault, balance, noticed>>
  BY DEF UpdateIntent
<1>2. TypeOK /\ FulfillmentInv(f) /\ i \in Intents
  BY Records DEF SeqInv
<1>3. awake' \subseteq Fulfillments
  <2>1. OutgoingWakes(i) \subseteq Fulfillments /\ IncomingWakes(i) \subseteq Fulfillments
    BY <1>2 DEF OutgoingWakes, IncomingWakes, FulfillmentsOf
  <2>2. awake \subseteq Fulfillments
    BY <1>2 DEF TypeOK
  <2> QED
    BY <2>1, <2>2 DEF UpdateIntent
<1>4. TypeOK'
  BY <1>1, <1>2, <1>3 DEF TypeOK, IntentStates, Steps
<1>5. VaultInv'
  BY <1>1 DEF SeqInv, VaultInv
<1>6. Onward
  BY <1>1 DEF Onward, Submitted
<1>7. /\ step'[f] = IF Succeeded(f) THEN "success" ELSE "settle"
      /\ \A g \in Fulfillments \ {f} : step'[g] = step[g]
  BY <1>1, <1>2 DEF TypeOK
<1>8. FulfillmentInv(f)'
  BY <1>1, <1>2, <1>7 DEF FulfillmentInv, Succeeded, Submitted
<1>9. \A g \in Fulfillments : FulfillmentInv(g)'
  BY <1>1, <1>6, <1>7, <1>8, OneMoves
<1>10. ASSUME NEW j \in Intents PROVE IntentInv(j)'
  <2>1. IntentInv(j)
    BY DEF SeqInv
  <2>2. CASE j # i
    <3>1. \A g \in FulfillmentsOf[j] : g \in Fulfillments \ {f}
      BY <2>2 DEF FulfillmentsOf
    <3>2. Waiting(j) => Waiting(j)'
      BY <1>1, <1>7, <3>1 DEF Waiting
    <3>3. intentState'[j] = intentState[j]
      BY <1>1, <1>2, <2>2 DEF TypeOK
    <3> QED
      BY <1>1, <2>1, <3>2, <3>3, IntentKept
  <2>3. CASE j = i
    <3>1. (IsFailed(i)' <=> IsFailed(i)) /\ (IsConfirmed(i)' <=> IsConfirmed(i))
      BY <1>1 DEF IsFailed, IsConfirmed
    <3>2. Submitted(i) /\ Submitted(i)' /\ intentState[i] \in IntentStates \ {"None"}
      BY <1>1, <1>2, <2>1, <2>3 DEF FulfillmentInv, IntentInv, Submitted, TypeOK
    <3>3. \/ IsFailed(i) /\ intentState'[i] = "Failed"
          \/ ~IsFailed(i) /\ IsConfirmed(i) /\ intentState'[i] = "Confirmed"
          \/ ~IsFailed(i) /\ ~IsConfirmed(i) /\ intentState'[i] = intentState[i]
      BY <1>1, <1>2 DEF TypeOK
    <3>4. ~IsFailed(i) /\ ~IsConfirmed(i) => intentState[i] = "Pending"
      BY <2>1, <2>3, <3>2 DEF IntentInv, IntentStates
    <3>5. Current(i)'
      BY <3>1, <3>3, <3>4 DEF Current
    <3> QED
      BY <2>3, <3>1, <3>2, <3>3, <3>4, <3>5 DEF IntentInv
  <2> QED
    BY <2>2, <2>3
<1> QED
  BY <1>4, <1>5, <1>9, <1>10 DEF SeqInv

\* The side effects are saved.
LEMMA StepOnSuccess ==
    ASSUME SeqInv, NEW f \in Fulfillments, OnSuccess(f)
    PROVE  SeqInv'
<1> USE DEF sideVars, chainVars, recordVars
<1> DEFINE v == Source[f]
           a == ActionOf[f]
<1>1. /\ step[f] = "success" /\ step' = [step EXCEPT ![f] = "settle"]
      /\ payments' = IF Type[f] \in Paying THEN payments \cup {f} ELSE payments
      /\ commitment' = IF Type[f] = "Advance" THEN [commitment EXCEPT ![a] = "ReadyToOpen"]
                       ELSE commitment
      /\ Type[f] = "Advance" => commitment[a] \in {"PayingDestination", "ReadyToOpen"}
      /\ UNCHANGED <<intentId, intentState, actionState, presorted, ful, outcome, vault, balance, noticed>>
  BY DEF OnSuccess, Paying
<1>2. TypeOK /\ FulfillmentInv(f) /\ a \in Actions /\ Type[f] \in FulfillmentTypes
      /\ Succeeded(f) /\ ful[f] = "Pending"
      /\ (Type[f] \in Closing \cup {"Initialize"} => v \in Accounts)
  BY <1>1, Records, OpenedAndClosed DEF SeqInv, FulfillmentInv, Closing
<1>3. /\ Type[f] = "Initialize" =>
            timelock' = [timelock EXCEPT ![v] = IF @ = "Closed" THEN @ ELSE "Locked"]
      /\ Type[f] \in Closing => timelock' = [timelock EXCEPT ![v] = "Closed"]
      /\ Type[f] \notin Closing \cup {"Initialize"} => timelock' = timelock
  BY <1>2 DEF OnSuccess, Closing
<1>4. awake' \subseteq Fulfillments
  BY <1>2 DEF OnSuccess, TypeOK, DormantOf
<1>5. timelock' \in [Accounts -> {"Unknown", "Locked", "Closed"}]
      /\ \A w \in Accounts : timelock'[w] =
            IF w = v /\ Type[f] \in Closing THEN "Closed"
            ELSE IF w = v /\ Type[f] = "Initialize" /\ timelock[v] # "Closed" THEN "Locked"
            ELSE timelock[w]
  BY <1>2, <1>3 DEF TypeOK, Closing
<1>6. TypeOK'
  BY <1>1, <1>2, <1>4, <1>5 DEF TypeOK, Steps
<1>7. VaultInv'
  BY <1>1, <1>2, <1>5 DEF SeqInv, VaultInv, FulfillmentInv
<1>8. \A b \in Actions : commitment'[b] =
        IF Type[f] = "Advance" /\ b = a THEN "ReadyToOpen" ELSE commitment[b]
  BY <1>1, <1>2 DEF TypeOK
<1>9. Onward
  BY <1>1, <1>5, <1>8 DEF Onward, Submitted
<1>10. step'[f] = "settle" /\ \A g \in Fulfillments \ {f} : step'[g] = step[g]
  BY <1>1, <1>2 DEF TypeOK
<1>11. Settled(f)'
  BY <1>1, <1>2, <1>5, <1>8 DEF Settled, FulfillmentInv, Closing
<1>12. FulfillmentInv(f)'
  BY <1>1, <1>2, <1>10, <1>11 DEF FulfillmentInv, Succeeded, Submitted
<1>13. \A g \in Fulfillments : FulfillmentInv(g)'
  BY <1>1, <1>8, <1>9, <1>10, <1>12, OneMoves
<1>14. \A i \in Intents : IntentInv(i)'
  BY <1>1, <1>10, IntentsKept DEF Waits
<1> QED
  BY <1>6, <1>7, <1>13, <1>14 DEF SeqInv

\* The fulfillment is marked, last of all.
LEMMA StepSettle ==
    ASSUME SeqInv, NEW f \in Fulfillments, Settle(f)
    PROVE  SeqInv'
<1> USE DEF sideVars, chainVars, recordVars
<1>1. /\ step[f] = "settle" /\ step' = [step EXCEPT ![f] = "idle"]
      /\ ful' = [ful EXCEPT ![f] = IF Succeeded(f) THEN "Confirmed" ELSE "Failed"]
      /\ UNCHANGED <<intentId, intentState, actionState, presorted, awake, timelock, commitment>>
      /\ UNCHANGED <<payments, outcome, vault, balance, noticed>>
  BY DEF Settle
<1>2. TypeOK /\ FulfillmentInv(f)
  BY DEF SeqInv
<1>3. TypeOK'
  BY <1>1, <1>2 DEF TypeOK, Steps, FulfillmentStates
<1>4. VaultInv'
  BY <1>1 DEF SeqInv, VaultInv
<1>5. Onward
  BY <1>1 DEF Onward, Submitted
<1>6. /\ step'[f] = "idle" /\ ful'[f] = IF Succeeded(f) THEN "Confirmed" ELSE "Failed"
      /\ \A g \in Fulfillments \ {f} : step'[g] = step[g] /\ ful'[g] = ful[g]
  BY <1>1, <1>2 DEF TypeOK
<1>7. FulfillmentInv(f)'
  <2>1. Settled(f) => Settled(f)'
    BY <1>5, SettledStays
  <2>2. Succeeded(f)' <=> Succeeded(f)
    BY <1>1 DEF Succeeded
  <2> QED
    BY <1>1, <1>2, <1>6, <2>1, <2>2 DEF FulfillmentInv, Submitted
<1>8. \A g \in Fulfillments : FulfillmentInv(g)'
  BY <1>1, <1>5, <1>6, <1>7, OneMoves
<1>9. \A i \in Intents : IntentInv(i)'
  BY <1>1, <1>6, IntentsKept DEF Waits
<1> QED
  BY <1>3, <1>4, <1>8, <1>9 DEF SeqInv

\* The worker lets go of a fulfillment: all of it is done again.
LEMMA StepLetGo ==
    ASSUME SeqInv, NEW f \in Fulfillments, Interrupt(f) \/ Refuse(f)
    PROVE  SeqInv'
<1> USE DEF sideVars, chainVars, recordVars
<1>1. /\ step[f] # "idle" /\ step' = [step EXCEPT ![f] = "idle"]
      /\ payments' \in {payments, payments \cup {f}}
      /\ UNCHANGED <<intentId, intentState, actionState, presorted, ful, awake, timelock, commitment>>
      /\ UNCHANGED <<outcome, vault, balance, noticed>>
  BY DEF Interrupt, Refuse
<1>2. TypeOK /\ FulfillmentInv(f)
  BY DEF SeqInv
<1>3. TypeOK'
  BY <1>1, <1>2 DEF TypeOK, Steps
<1>4. VaultInv'
  BY <1>1 DEF SeqInv, VaultInv
<1>5. Onward
  BY <1>1 DEF Onward, Submitted
<1>6. step'[f] = "idle" /\ \A g \in Fulfillments \ {f} : step'[g] = step[g]
  BY <1>1, <1>2 DEF TypeOK
<1>7. FulfillmentInv(f)'
  BY <1>1, <1>2, <1>6 DEF FulfillmentInv, Succeeded, Submitted
<1>8. \A g \in Fulfillments : FulfillmentInv(g)'
  BY <1>1, <1>5, <1>6, <1>7, OneMoves
<1>9. \A i \in Intents : IntentInv(i)'
  BY <1>1, <1>6, IntentsKept DEF Waits
<1> QED
  BY <1>3, <1>4, <1>8, <1>9 DEF SeqInv

\* Every step of the sequencer.
LEMMA SequencerInvStep ==
    ASSUME SeqInv, SequencerStep
    PROVE  SeqInv'
<1>1. Observed \subseteq Accounts
  BY AccountSets
<1> QED
  BY <1>1, StepSchedule, StepPolling, StepRevokeAction, StepRevoke, StepExecute, StepUpdateAction,
     StepUpdateIntent, StepOnSuccess, StepSettle, StepLetGo, StepCommitmentOpens, StepObserveVault
  DEF SequencerStep, Progress

LEMMA SequencerInvStutter ==
    ASSUME SeqInv, UNCHANGED sequencerVars
    PROVE  SeqInv'
<1>1. awake \subseteq Fulfillments /\ presorted \subseteq Fulfillments /\ noticed \subseteq Fulfillments
  BY DEF SeqInv, TypeOK
<1> QED
  BY <1>1, SideStep DEF sequencerVars, recordVars

LEMMA SequencerInvariance == Spec => []SeqInv
<1>1. SeqInv /\ [Next]_sequencerVars => SeqInv'
  BY SequencerInvStep, StepSubmitIntent, SequencerInvStutter DEF Next
<1> QED
  BY <1>1, SequencerInvInit, PTL DEF Spec

(***************************************************************************)
(* The order of execution.                                                 *)
(***************************************************************************)

\* The transactions that the scheduler compares with those into their source, and
\* the fulfillments f is not scheduled before, if they are ahead of it: those into
\* its source, and those out of a source that it closes.
Spending == {"Transfer", "Withdraw", "Temporary", "CloseEmpty", "CloseDormant"}
Awaits(f) == {g \in Fulfillments :
    /\ ~IsDormant(g)
    /\ \/ /\ Type[f] \in Spending
          /\ Type[g] \notin {"Initialize", "CloseEmpty"}
          /\ Destination[g] = Source[f]
       \/ Type[f] \in Closing /\ Source[g] = Source[f]}

\* Its position does not depend on what is submitted later.
Placed(f) == IsDormant(f) => f \in presorted
InFlight(f) == ful[f] \in {"Pending", "Confirmed", "Failed"}

\* Behind has room for every intent, and a fulfillment knows of its transaction.
StateInv(f) ==
    /\ ful[f] = "Revoked" => IsDormant(f)
    /\ outcome[f] # "none" => InFlight(f)
    /\ ful[f] \in {"Confirmed", "Failed"} => outcome[f] # "none"
OrderInv(f) ==
    InFlight(f) /\ Placed(f) =>
        \A g \in Awaits(f) : ful[g] # "None" /\ Before(g, f) => ful[g] \in {"Confirmed", "Failed"}

\* The user accounts that have to be there for a transaction.
Touched(f) ==
    Accounts \cap (CASE Type[f] \in {"Transfer", "Withdraw", "CloseDormant"} -> {Source[f], Destination[f]}
                     [] Type[f] = "Advance" -> {Destination[f]}
                     [] Type[f] = "Temporary" -> {Source[f]}
                     [] OTHER -> {})
ExistInv ==
    /\ \A v \in Accounts : timelock[v] = "Locked" => vault[v] # "absent"
    /\ \A f \in Fulfillments :
        /\ Succeeded(f) /\ Type[f] = "Initialize" => vault[Source[f]] # "absent"
        /\ InFlight(f) => \A v \in Touched(f) : vault[v] # "absent"

PlacedInv ==
    /\ \A i \in Intents : intentId[i] <= Cardinality({j \in Intents : Submitted(j)})
    /\ \A f \in Fulfillments : StateInv(f) /\ OrderInv(f)
    /\ ExistInv

\* A transaction executes after everything that is before it into its source, and
\* one that closes its source after everything before it out of it.
ExecutesInOrder == \A f \in Fulfillments : \A g \in Awaits(f) :
    outcome[f] # "none" /\ Placed(f) /\ ful[g] # "None" /\ Before(g, f) => outcome[g] # "none"

\* What is submitted to the blockchain finds its accounts there.
AccountsExist == \A f \in Fulfillments : ful[f] = "Pending" =>
    \A v \in Touched(f) : vault[v] # "absent"

LEMMA PlacedInit == Init => PlacedInv
<1> SUFFICES ASSUME Init PROVE PlacedInv
  OBVIOUS
<1>1. \A i \in Intents : intentId[i] = 0
  BY DEF Init
<1>2. \A i \in Intents : intentId[i] <= Cardinality({j \in Intents : Submitted(j)})
  <2> DEFINE submitted == {j \in Intents : Submitted(j)}
  <2>1. submitted = {}
    BY <1>1 DEF Submitted
  <2>2. Cardinality(submitted) = 0
    BY <2>1, FS_EmptySet
  <2> HIDE DEF submitted
  <2>3. \A i \in Intents : intentId[i] <= Cardinality(submitted)
    BY <1>1, <2>2
  <2> QED
    BY <2>3 DEF submitted
<1>3. \A f \in Fulfillments : StateInv(f) /\ OrderInv(f)
  BY DEF Init, StateInv, OrderInv, InFlight
<1>4. ExistInv
  BY DEF Init, ExistInv, Succeeded, InFlight
<1> QED
  BY <1>2, <1>3, <1>4 DEF PlacedInv

\* What the order of two fulfillments rests on, and what is there.
LEMMA PositionKept ==
    ASSUME NEW f \in Fulfillments, NEW g \in Fulfillments, ~IsDormant(g),
           intentId'[IntentOf[ActionOf[f]]] = intentId[IntentOf[ActionOf[f]]],
           intentId'[IntentOf[ActionOf[g]]] = intentId[IntentOf[ActionOf[g]]],
           f \in presorted <=> f \in presorted'
    PROVE  Before(g, f)' <=> Before(g, f)
  BY DEF Before, IsDormant

\* No account disappears.
LEMMA AccountsStay ==
    ASSUME ExistInv, \A v \in Accounts : vault[v] # "absent" => vault'[v] # "absent",
           NEW f \in Fulfillments, outcome'[f] = outcome[f], InFlight(f)' => InFlight(f)
    PROVE  /\ Succeeded(f)' /\ Type[f] = "Initialize" => vault'[Source[f]] # "absent"
           /\ InFlight(f)' => \A v \in Touched(f) : vault'[v] # "absent"
<1>1. Touched(f) \subseteq Accounts
  BY DEF Touched
<1>2. Type[f] = "Initialize" => Source[f] \in Accounts
  BY OpenedAndClosed
<1> QED
  BY <1>1, <1>2 DEF ExistInv, Succeeded

\* Steps that no position, state or transaction is changed by.
LEMMA PlacedFrame ==
    ASSUME PlacedInv, UNCHANGED <<intentId, presorted, ful, outcome, timelock, vault>>
    PROVE  PlacedInv'
<1>1. \A i \in Intents : intentId'[i] <= Cardinality({j \in Intents : Submitted(j)}')
  BY DEF PlacedInv, Submitted
<1>2. ASSUME NEW f \in Fulfillments PROVE StateInv(f)' /\ OrderInv(f)'
  <2>1. Awaits(f)' = Awaits(f) /\ \A g \in Awaits(f) : g \in Fulfillments /\ ~IsDormant(g)
    BY DEF Awaits, IsDormant
  <2>2. \A g \in Awaits(f) : Before(g, f)' <=> Before(g, f)
    BY <2>1, PositionKept
  <2> QED
    BY <2>1, <2>2 DEF PlacedInv, StateInv, OrderInv, InFlight, Placed, IsDormant
<1>3. ExistInv'
  BY DEF PlacedInv, ExistInv, Succeeded, InFlight, Touched
<1> QED
  BY <1>1, <1>2, <1>3 DEF PlacedInv

\* A fulfillment that goes on its way has nothing before it to wait for, and one
\* that ends does so with its transaction.
LEMMA MovePlaced ==
    ASSUME PlacedInv, ful \in [Fulfillments -> FulfillmentStates],
           NEW f \in Fulfillments, NEW new \in FulfillmentStates \ {"None", "Unknown"},
           Schedulable(f), ful' = [ful EXCEPT ![f] = new],
           UNCHANGED <<intentId, presorted, outcome, timelock, vault>>,
           new = "Revoked" => IsDormant(f) /\ ful[f] = "Unknown",
           new \in {"Confirmed", "Failed"} => ful[f] = "Pending" /\ outcome[f] # "none",
           new = "Pending" => /\ \A g \in Awaits(f) : Before(g, f) => ~Schedulable(g)
                              /\ \A v \in Touched(f) : vault[v] # "absent"
    PROVE  PlacedInv'
<1>1. \A i \in Intents : intentId'[i] <= Cardinality({j \in Intents : Submitted(j)}')
  BY DEF PlacedInv, Submitted
<1>2. ful'[f] = new /\ \A g \in Fulfillments \ {f} : ful'[g] = ful[g]
  OBVIOUS
<1>3. InFlight(f) => new \in {"Confirmed", "Failed", "Pending"}
  BY DEF InFlight, FulfillmentStates
<1>4. ASSUME NEW g \in Fulfillments PROVE StateInv(g)'
  <2>1. StateInv(g)
    BY DEF PlacedInv
  <2>2. CASE g = f
    BY <1>2, <1>3, <2>1, <2>2 DEF StateInv, InFlight, IsDormant, FulfillmentStates
  <2>3. CASE g # f
    BY <1>2, <2>1, <2>3 DEF StateInv, InFlight, IsDormant
  <2> QED
    BY <2>2, <2>3
<1>5. ASSUME NEW g \in Fulfillments, InFlight(g)', Placed(g)', NEW e \in Awaits(g),
             ful'[e] # "None", Before(e, g)'
      PROVE  ful'[e] \in {"Confirmed", "Failed"}
  <2>1. e \in Fulfillments /\ ~IsDormant(e) /\ Placed(g)
    BY <1>5 DEF Awaits, Placed, IsDormant
  <2>2. Before(e, g)
    BY <1>5, <2>1, PositionKept
  <2>3. ful[e] # "None"
    BY <1>2, <1>5 DEF Schedulable
  <2>4. CASE g = f /\ new = "Pending"
    <3>1. ~Schedulable(e) /\ e # f
      BY <1>5, <2>2, <2>4
    <3>2. ful[e] \in FulfillmentStates /\ (ful[e] = "Revoked" => IsDormant(e))
      BY <2>1 DEF PlacedInv, StateInv
    <3> QED
      BY <1>2, <2>1, <2>3, <3>1, <3>2 DEF Schedulable, FulfillmentStates
  <2>5. CASE g # f \/ new # "Pending"
    <3>1. InFlight(g)
      BY <1>2, <1>5, <2>5 DEF InFlight, FulfillmentStates
    <3>2. ful[e] \in {"Confirmed", "Failed"}
      BY <1>5, <2>1, <2>2, <2>3, <3>1 DEF PlacedInv, OrderInv
    <3> QED
      BY <1>2, <3>2, <2>1 DEF Schedulable
  <2> QED
    BY <2>4, <2>5
<1>6. \A g \in Fulfillments : OrderInv(g)'
  <2>1. \A g \in Fulfillments : Awaits(g)' = Awaits(g)
    BY DEF Awaits, IsDormant
  <2> QED
    BY <1>5, <2>1 DEF OrderInv
<1>7. ExistInv'
  <2>1. \A v \in Accounts : timelock'[v] = "Locked" => vault'[v] # "absent"
    BY DEF PlacedInv, ExistInv
  <2>2. ASSUME NEW g \in Fulfillments
        PROVE  /\ Succeeded(g)' /\ Type[g] = "Initialize" => vault'[Source[g]] # "absent"
               /\ InFlight(g)' => \A v \in Touched(g) : vault'[v] # "absent"
    <3>1. CASE g = f /\ new = "Pending"
      BY <3>1 DEF PlacedInv, ExistInv, Succeeded
    <3>2. CASE g # f \/ new # "Pending"
      <4>1. InFlight(g)' => InFlight(g)
        BY <1>2, <3>2 DEF InFlight, FulfillmentStates
      <4> QED
        BY <4>1, AccountsStay DEF PlacedInv
    <3> QED
      BY <3>1, <3>2
  <2>3. \A g \in Fulfillments : Touched(g)' = Touched(g)
    BY DEF Touched
  <2> QED
    BY <2>1, <2>2, <2>3 DEF ExistInv
<1> QED
  BY <1>1, <1>4, <1>6, <1>7 DEF PlacedInv

LEMMA PlacedSchedule ==
    ASSUME SeqInv, PlacedInv, NEW f \in Fulfillments, Schedule(f)
    PROVE  PlacedInv'
<1> USE DEF recordVars, chainVars
<1>1. /\ ful[f] = "Unknown" /\ ful' = [ful EXCEPT ![f] = "Pending"]
      /\ UNCHANGED <<intentId, presorted, outcome, timelock, vault>>
      /\ CanSubmit(f)
  BY DEF Schedule, Polled
<1>2. \A g \in Awaits(f) : Before(g, f) => ~Schedulable(g)
  BY <1>1 DEF CanSubmit, EarlierInto, EarlierFrom, Awaits, Spending, Closing
<1>3. ASSUME NEW v \in Touched(f) PROVE vault[v] # "absent"
  <2>1. v \in Accounts /\ v \notin External
    BY AccountSets DEF Touched
  <2>2. timelock[v] = "Locked"
    <3>1. CASE Type[f] \in {"Transfer", "Withdraw", "CloseDormant"}
      <4>1. LooksUp(f) = <<Source[f], Destination[f]>> /\ v \in {Source[f], Destination[f]}
        BY <3>1 DEF LooksUp, Touched
      <4>2. Missing(f) = {}
        BY <1>1 DEF CanSubmit
      <4>3. 1 \in DOMAIN LooksUp(f) /\ 2 \in DOMAIN LooksUp(f)
            /\ LooksUp(f)[1] = Source[f] /\ LooksUp(f)[2] = Destination[f]
        BY <4>1
      <4>4. OnBlockchain(Source[f])
        <5>1. \A k \in 1 .. 1 - 1 : OnBlockchain(LooksUp(f)[k])
          OBVIOUS
        <5> QED
          BY <4>2, <4>3, <5>1 DEF Missing
      <4>5. OnBlockchain(Destination[f])
        <5>1. \A k \in 1 .. 2 - 1 : OnBlockchain(LooksUp(f)[k])
          BY <4>3, <4>4
        <5> QED
          BY <4>2, <4>3, <5>1 DEF Missing
      <4> QED
        BY <2>1, <4>1, <4>4, <4>5 DEF OnBlockchain
    <3>2. CASE Type[f] = "Advance"
      <4>1. LooksUp(f) = <<Destination[f]>> /\ v = Destination[f]
        BY <3>2 DEF LooksUp, Touched
      <4>2. 1 \in DOMAIN LooksUp(f) /\ LooksUp(f)[1] = Destination[f]
        BY <4>1
      <4>3. \A k \in 1 .. 1 - 1 : OnBlockchain(LooksUp(f)[k])
        OBVIOUS
      <4>4. OnBlockchain(Destination[f])
        BY <1>1, <4>2, <4>3 DEF CanSubmit, Missing
      <4> QED
        BY <2>1, <4>1, <4>4 DEF OnBlockchain
    <3>3. CASE Type[f] = "Temporary"
      <4>1. v = Source[f]
        BY <3>3 DEF Touched
      <4>2. commitment[ActionOf[f]] = "Open"
        BY <1>1, <3>3 DEF CanSubmit
      <4>3. LooksUp(f) = <<Source[f]>>
        BY <3>3, <4>2 DEF LooksUp
      <4>4. 1 \in DOMAIN LooksUp(f) /\ LooksUp(f)[1] = Source[f]
        BY <4>3
      <4>5. \A k \in 1 .. 1 - 1 : OnBlockchain(LooksUp(f)[k])
        OBVIOUS
      <4>6. OnBlockchain(Source[f])
        BY <1>1, <4>4, <4>5 DEF CanSubmit, Missing
      <4> QED
        BY <2>1, <4>1, <4>6 DEF OnBlockchain
    <3> QED
      BY <3>1, <3>2, <3>3 DEF Touched
  <2> QED
    BY <2>1, <2>2 DEF PlacedInv, ExistInv
<1> QED
  BY <1>1, <1>2, <1>3, MovePlaced DEF SeqInv, TypeOK, FulfillmentStates, Schedulable

LEMMA PlacedRevoke ==
    ASSUME SeqInv, PlacedInv, NEW f \in Fulfillments, Revoke(f)
    PROVE  PlacedInv'
<1>1. /\ ful[f] = "Unknown" /\ IsDormant(f) /\ ful' = [ful EXCEPT ![f] = "Revoked"]
      /\ UNCHANGED <<intentId, presorted, outcome, timelock, vault>>
  BY DEF Revoke, IsRevoked, recordVars, sideVars, chainVars
<1> QED
  BY <1>1, MovePlaced DEF SeqInv, TypeOK, FulfillmentStates, Schedulable

LEMMA PlacedSettle ==
    ASSUME SeqInv, PlacedInv, NEW f \in Fulfillments, Settle(f)
    PROVE  PlacedInv'
<1>1. PICK new \in {"Confirmed", "Failed"} : ful' = [ful EXCEPT ![f] = new]
  BY DEF Settle
<1>2. /\ ful[f] = "Pending" /\ outcome[f] # "none"
      /\ UNCHANGED <<intentId, presorted, outcome, timelock, vault>>
  BY DEF Settle, SeqInv, FulfillmentInv, recordVars, sideVars, chainVars
<1> QED
  BY <1>1, <1>2, MovePlaced DEF SeqInv, TypeOK, FulfillmentStates, Schedulable

\* A transaction executes, or a timelock record is saved: accounts only come.
LEMMA PlacedChain ==
    ASSUME PlacedInv, UNCHANGED <<intentId, presorted, ful>>,
           \A f \in Fulfillments : \/ outcome'[f] = outcome[f]
                                   \/ /\ InFlight(f) /\ outcome'[f] # "none"
                                      /\ Succeeded(f)' /\ Type[f] = "Initialize" =>
                                            vault'[Source[f]] # "absent",
           \A v \in Accounts : vault[v] # "absent" => vault'[v] # "absent",
           \A v \in Accounts : timelock'[v] = "Locked" => timelock[v] = "Locked" \/ vault[v] # "absent"
    PROVE  PlacedInv'
<1>1. \A i \in Intents : intentId'[i] <= Cardinality({j \in Intents : Submitted(j)}')
  BY DEF PlacedInv, Submitted
<1>2. ASSUME NEW f \in Fulfillments PROVE StateInv(f)' /\ OrderInv(f)'
  <2>1. Awaits(f)' = Awaits(f) /\ \A g \in Awaits(f) : g \in Fulfillments /\ ~IsDormant(g)
    BY DEF Awaits, IsDormant
  <2>2. \A g \in Awaits(f) : Before(g, f)' <=> Before(g, f)
    BY <2>1, PositionKept
  <2>3. OrderInv(f)'
    BY <2>1, <2>2 DEF PlacedInv, OrderInv, InFlight, Placed, IsDormant
  <2>4. StateInv(f)'
    BY DEF PlacedInv, StateInv, InFlight, IsDormant
  <2> QED
    BY <2>3, <2>4
<1>3. ExistInv'
  <2>1. \A v \in Accounts : timelock'[v] = "Locked" => vault'[v] # "absent"
    BY DEF PlacedInv, ExistInv
  <2>2. ASSUME NEW f \in Fulfillments
        PROVE  /\ Succeeded(f)' /\ Type[f] = "Initialize" => vault'[Source[f]] # "absent"
               /\ InFlight(f)' => \A v \in Touched(f) : vault'[v] # "absent"
    <3>1. CASE outcome'[f] = outcome[f]
      BY <3>1, AccountsStay DEF PlacedInv, InFlight
    <3>2. CASE outcome'[f] # outcome[f]
      <4>1. Touched(f) \subseteq Accounts
        BY DEF Touched
      <4> QED
        BY <3>2, <4>1 DEF PlacedInv, ExistInv, InFlight
    <3> QED
      BY <3>1, <3>2
  <2>3. \A f \in Fulfillments : Touched(f)' = Touched(f)
    BY DEF Touched
  <2> QED
    BY <2>1, <2>2, <2>3 DEF ExistInv
<1> QED
  BY <1>1, <1>2, <1>3 DEF PlacedInv

LEMMA PlacedExecute ==
    ASSUME SeqInv, PlacedInv, NEW f \in Fulfillments, Execute(f) \/ Fault(f)
    PROVE  PlacedInv'
<1>1. /\ ful[f] = "Pending" /\ outcome[f] = "none"
      /\ UNCHANGED <<intentId, presorted, ful, timelock>>
  BY DEF Execute, Fault, recordVars, sideVars
<1>2. PICK o \in {"done", "short", "failed"} :
        /\ outcome' = [outcome EXCEPT ![f] = o]
        /\ o # "failed" /\ Type[f] = "Initialize" => vault' = [vault EXCEPT ![Source[f]] = "open"]
        /\ \/ vault' = vault
           \/ vault' = [vault EXCEPT ![Source[f]] = "open"]
           \/ vault' = [vault EXCEPT ![Source[f]] = "closed"]
  <2>1. CASE Fault(f) \/ (Execute(f) /\ ~Executable(f))
    BY <2>1 DEF Execute, Fault
  <2>2. CASE Execute(f) /\ Executable(f)
    <3>1. Type[f] \in FulfillmentTypes
      BY Records
    <3>2. \E o \in {"done", "short"} : outcome' = [outcome EXCEPT ![f] = o]
      BY <2>2 DEF Execute
    <3>3. /\ Type[f] = "Initialize" => vault' = [vault EXCEPT ![Source[f]] = "open"]
          /\ \/ vault' = vault
             \/ vault' = [vault EXCEPT ![Source[f]] = "open"]
             \/ vault' = [vault EXCEPT ![Source[f]] = "closed"]
      BY <2>2, <3>1 DEF Execute, FulfillmentTypes
    <3> QED
      BY <3>2, <3>3
  <2> QED
    BY <2>1, <2>2
<1>3. vault \in [Accounts -> {"absent", "open", "closed"}]
      /\ outcome \in [Fulfillments -> {"none", "done", "short", "failed"}]
  BY DEF SeqInv, TypeOK
<1>4. \A v \in Accounts : vault[v] # "absent" => vault'[v] # "absent"
  BY <1>2, <1>3
<1>5. \A g \in Fulfillments : IF g = f THEN outcome'[g] = o ELSE outcome'[g] = outcome[g]
  BY <1>2, <1>3
<1>6. Succeeded(f)' /\ Type[f] = "Initialize" => vault'[Source[f]] # "absent"
  <2>1. Type[f] = "Initialize" => Source[f] \in Accounts
    BY OpenedAndClosed
  <2> QED
    BY <1>2, <1>3, <1>5, <2>1 DEF Succeeded
<1>7. \A g \in Fulfillments : \/ outcome'[g] = outcome[g]
                              \/ /\ InFlight(g) /\ outcome'[g] # "none"
                                 /\ Succeeded(g)' /\ Type[g] = "Initialize" =>
                                        vault'[Source[g]] # "absent"
  BY <1>1, <1>5, <1>6 DEF InFlight
<1>8. \A v \in Accounts : timelock'[v] = "Locked" => timelock[v] = "Locked" \/ vault[v] # "absent"
  BY <1>1
<1> QED
  BY <1>1, <1>4, <1>7, <1>8, PlacedChain

LEMMA PlacedObserve ==
    ASSUME SeqInv, PlacedInv,
           (\E f \in Fulfillments : OnSuccess(f)) \/ (\E v \in Accounts : ObserveVault(v))
    PROVE  PlacedInv'
<1>1. UNCHANGED <<intentId, presorted, ful, outcome, vault>>
  BY DEF OnSuccess, ObserveVault, recordVars, chainVars
<1>2. timelock \in [Accounts -> {"Unknown", "Locked", "Closed"}]
  BY DEF SeqInv, TypeOK
<1>3. ASSUME NEW v \in Accounts, timelock'[v] = "Locked"
      PROVE  timelock[v] = "Locked" \/ vault[v] # "absent"
  <2>1. ASSUME NEW f \in Fulfillments, OnSuccess(f), timelock[v] # "Locked" PROVE vault[v] # "absent"
    <3>1. Type[f] = "Initialize" /\ v = Source[f]
      BY <1>2, <1>3, <2>1 DEF OnSuccess
    <3>2. Succeeded(f)
      BY <2>1 DEF OnSuccess, SeqInv, FulfillmentInv
    <3> QED
      BY <3>1, <3>2 DEF PlacedInv, ExistInv
  <2>2. ASSUME NEW w \in Accounts, ObserveVault(w), timelock[v] # "Locked" PROVE vault[v] # "absent"
    BY <1>2, <1>3, <2>2 DEF ObserveVault
  <2> QED
    BY <2>1, <2>2
<1> QED
  BY <1>1, <1>3, PlacedChain

\* An intent that is submitted goes behind all others.
LEMMA PlacedSubmit ==
    ASSUME SeqInv, PlacedInv, NEW i \in Intents, SubmitIntent(i)
    PROVE  PlacedInv'
<1> DEFINE before == {j \in Intents : Submitted(j)}
<1> DEFINE count == Cardinality(before)
<1>1. /\ ~Submitted(i) /\ intentId' = [intentId EXCEPT ![i] = count + 1]
      /\ ful' = [f \in Fulfillments |-> IF f \in FulfillmentsOf[i] THEN "Unknown" ELSE ful[f]]
      /\ UNCHANGED <<presorted, outcome, timelock, vault>>
  BY DEF SubmitIntent, sideVars, chainVars
<1>2. intentId \in [Intents -> 0 .. Cardinality(Intents)] /\ Cardinality(Intents) \in Nat
  BY SomeDecide, FS_CardinalityType DEF SeqInv, TypeOK
<1>3. IsFiniteSet(before) /\ count \in Nat
  BY SomeDecide, FS_Subset, FS_CardinalityType
<1>4. \A j \in Intents : intentId[j] \in Nat /\ intentId[j] <= count
  BY <1>2 DEF PlacedInv
<1>5. {j \in Intents : Submitted(j)}' = before \cup {i} /\ i \notin before
  <2> HIDE DEF count
  <2>1. \A j \in Intents : intentId'[j] = IF j = i THEN count + 1 ELSE intentId[j]
    BY <1>1, <1>2
  <2> QED
    BY <1>1, <1>3, <2>1 DEF Submitted
<1>6. Cardinality(before \cup {i}) = count + 1
  BY <1>3, <1>5, FS_AddElement
<1> HIDE DEF before, count
<1>7. \A j \in Intents : intentId'[j] = IF j = i THEN count + 1 ELSE intentId[j]
  BY <1>1, <1>2
<1>8. \A j \in Intents : intentId'[j] <= Cardinality({k \in Intents : Submitted(k)}')
  <2> DEFINE after == {k \in Intents : Submitted(k)}'
  <2>1. Cardinality(after) = count + 1
    BY <1>5, <1>6
  <2> HIDE DEF after
  <2>2. \A j \in Intents : intentId'[j] <= Cardinality(after)
    BY <1>3, <1>4, <1>7, <2>1
  <2> QED
    BY <2>2 DEF after
<1>9. ASSUME NEW f \in Fulfillments
      PROVE  \/ IntentOf[ActionOf[f]] = i /\ ful[f] = "None" /\ ful'[f] = "Unknown"
             \/ IntentOf[ActionOf[f]] # i /\ ful'[f] = ful[f]
  <2>1. CASE IntentOf[ActionOf[f]] = i
    BY <1>1, <2>1 DEF FulfillmentsOf, SeqInv, FulfillmentInv
  <2>2. CASE IntentOf[ActionOf[f]] # i
    BY <1>1, <2>2 DEF FulfillmentsOf
  <2> QED
    BY <2>1, <2>2
<1>10. \A f \in Fulfillments : StateInv(f)'
  BY <1>1, <1>9 DEF PlacedInv, StateInv, InFlight, IsDormant
<1>11. ASSUME NEW f \in Fulfillments, InFlight(f)', Placed(f)', NEW g \in Awaits(f),
              ful'[g] # "None", Before(g, f)'
       PROVE  ful'[g] \in {"Confirmed", "Failed"}
  <2>1. g \in Fulfillments /\ ~IsDormant(g) /\ Placed(f)
    BY <1>1, <1>11 DEF Awaits, Placed, IsDormant
  <2>2. InFlight(f) /\ IntentOf[ActionOf[f]] \in Intents \ {i}
    BY <1>9, <1>11, Records DEF InFlight
  <2>3. IntentOf[ActionOf[g]] \in Intents
    BY <2>1, Records
  <2>4. intentId'[IntentOf[ActionOf[g]]] <= intentId'[IntentOf[ActionOf[f]]]
    <3>1. /\ intentId'[IntentOf[ActionOf[g]]] \in Nat
          /\ intentId'[IntentOf[ActionOf[f]]] \in Nat
      BY <1>3, <1>4, <1>7, <2>2, <2>3
    <3>2. IsDormant(f)' => f \in presorted'
      BY <1>11 DEF Placed
    <3>3. ~IsDormant(g)'
      BY <2>1 DEF IsDormant
    <3> QED
      BY <1>11, <3>1, <3>2, <3>3 DEF Before
  <2>5. IntentOf[ActionOf[g]] # i
    BY <1>3, <1>4, <1>7, <2>2, <2>4
  <2>6. Before(g, f)
    BY <1>1, <1>7, <1>11, <2>1, <2>2, <2>3, <2>5, PositionKept
  <2>7. ful'[g] = ful[g]
    BY <1>9, <2>1, <2>5
  <2> QED
    BY <1>11, <2>1, <2>2, <2>6, <2>7 DEF PlacedInv, OrderInv
<1>12. \A f \in Fulfillments : OrderInv(f)'
  <2>1. \A f \in Fulfillments : Awaits(f)' = Awaits(f)
    BY DEF Awaits, IsDormant
  <2> QED
    BY <1>11, <2>1 DEF OrderInv
<1>13. ExistInv'
  <2>1. \A f \in Fulfillments : Touched(f)' = Touched(f) /\ (InFlight(f)' => InFlight(f))
    BY <1>9 DEF Touched, InFlight
  <2>2. ExistInv
    BY DEF PlacedInv
  <2>3. \A f \in Fulfillments :
            /\ Succeeded(f)' /\ Type[f] = "Initialize" => vault'[Source[f]] # "absent"
            /\ InFlight(f)' => \A v \in Touched(f) : vault'[v] # "absent"
    BY <1>1, <2>1, <2>2, AccountsStay
  <2> QED
    BY <1>1, <2>1, <2>2, <2>3 DEF ExistInv
<1> QED
  BY <1>8, <1>10, <1>12, <1>13 DEF PlacedInv

\* Every step of the sequencer.
LEMMA PlacedStep ==
    ASSUME SeqInv, PlacedInv, SequencerStep
    PROVE  PlacedInv'
<1>1. Observed \subseteq Accounts
  BY AccountSets
<1>2. ASSUME NEW f \in Fulfillments,
             \/ Postpone(f) \/ Notice(f) \/ ReleaseAdvance(f) \/ RevokeAction(f)
             \/ UpdateAction(f) \/ UpdateIntent(f) \/ Interrupt(f) \/ Refuse(f)
      PROVE  UNCHANGED <<intentId, presorted, ful, outcome, timelock, vault>>
  BY <1>2 DEF Postpone, Notice, ReleaseAdvance, RevokeAction, UpdateAction, UpdateIntent, Interrupt,
        Refuse, recordVars, sideVars, chainVars
<1>3. ASSUME NEW a \in Actions, CommitmentOpens(a)
      PROVE  UNCHANGED <<intentId, presorted, ful, outcome, timelock, vault>>
  BY <1>3 DEF CommitmentOpens, recordVars, chainVars
<1> QED
  BY <1>1, <1>2, <1>3, PlacedFrame, PlacedSchedule, PlacedRevoke, PlacedSettle, PlacedExecute,
     PlacedObserve
  DEF SequencerStep, Progress

LEMMA PlacedInvariance == Spec => []PlacedInv
<1>1. UNCHANGED sequencerVars => UNCHANGED <<intentId, presorted, ful, outcome, timelock, vault>>
  BY DEF sequencerVars, recordVars, sideVars, chainVars
<1>2. SeqInv /\ PlacedInv /\ [Next]_sequencerVars => PlacedInv'
  BY <1>1, PlacedStep, PlacedSubmit, PlacedFrame DEF Next
<1> QED
  BY <1>2, PlacedInit, SequencerInvariance, PTL DEF Spec

LEMMA InvInOrder == PlacedInv => ExecutesInOrder
<1> SUFFICES ASSUME PlacedInv, NEW f \in Fulfillments, NEW g \in Awaits(f),
                    outcome[f] # "none", Placed(f), ful[g] # "None", Before(g, f)
             PROVE  outcome[g] # "none"
  BY DEF ExecutesInOrder
<1>1. g \in Fulfillments
  BY DEF Awaits
<1>2. StateInv(f) /\ OrderInv(f) /\ StateInv(g)
  BY <1>1 DEF PlacedInv
<1>3. InFlight(f)
  BY <1>2 DEF StateInv
<1>4. ful[g] \in {"Confirmed", "Failed"}
  BY <1>2, <1>3 DEF OrderInv
<1> QED
  BY <1>2, <1>4 DEF StateInv

LEMMA InvExist == PlacedInv => AccountsExist
  BY DEF PlacedInv, ExistInv, AccountsExist, InFlight

(***************************************************************************)
(* What the invariant says.                                                *)
(***************************************************************************)

LEMMA InvSettled == SeqInv => ConfirmedIsSettled
  BY DEF SeqInv, ConfirmedIsSettled, FulfillmentInv, Settled, Closing, Paying

LEMMA InvCurrent == SeqInv => IntentsAreCurrent
<1> SUFFICES ASSUME SeqInv, NEW i \in Intents, Submitted(i),
                    \A f \in FulfillmentsOf[i] : ful[f] = "Pending" => outcome[f] = "none"
             PROVE  Current(i)
  BY DEF IntentsAreCurrent, Current
<1>1. ~Waiting(i)
  BY DEF Waiting
<1> QED
  BY <1>1 DEF SeqInv, IntentInv

(***************************************************************************)
(* The theorems.                                                           *)
(***************************************************************************)

\* Whatever interrupts the worker and however many it has in hand, it marks a
\* fulfillment confirmed after its transaction executed, and after the action, the
\* payment, the timelock account and the commitment were saved (handlePending).
THEOREM ConfirmedSettled == Spec => []ConfirmedIsSettled
  BY SequencerInvariance, InvSettled, PTL

\* No update is lost between workers that each save an action and then read the
\* others: an intent that waits for no fulfillment has the state its actions say
\* (IntentHandler.OnActionUpdated of each type).
THEOREM IntentsCurrent == Spec => []IntentsAreCurrent
  BY SequencerInvariance, InvCurrent, PTL

\* Whatever is submitted while the scheduler decides, and whatever is interrupted: a
\* transaction executes only after everything ahead of it into its source, and one
\* that closes an account after everything ahead of it out of the account
\* (ScheduledBefore, CanSubmitToBlockchain of each handler).
THEOREM InOrder == Spec => []ExecutesInOrder
  BY PlacedInvariance, InvInOrder, PTL

\* A transaction is not submitted before the accounts it moves funds between are on
\* the blockchain, whoever tells the server of them (CanSubmitToBlockchain of each
\* handler, OnSuccess of InitializeLockedTimelockAccount, Geyser).
THEOREM AccountsThere == Spec => []AccountsExist
  BY PlacedInvariance, InvExist, PTL

(***************************************************************************)
(* The plan: what the actions that count do to the accounts, one after the *)
(* other, in the order of the scheduler.                                   *)
(***************************************************************************)

Total(S) == SumFunctionOnSet(Quantity, S)
DormantAction(a) == ActionType[a] = "CloseDormantAccount"

\* The order of the actions: one that closes a dormant account is the last of its
\* intent.
Ahead(a, b) ==
    \/ intentId[IntentOf[a]] < intentId[IntentOf[b]]
    \/ /\ intentId[IntentOf[a]] = intentId[IntentOf[b]]
       /\ ~DormantAction(a)
       /\ DormantAction(b) \/ ActionId[a] < ActionId[b]
NotAfter(a, b) == ~Ahead(b, a)

\* What is in an account after an action, and when all of them are done.
After(v, a) == Holdings[v] + Total({b \in Counted : Ahead(b, a)} \cap ActionsTo[v])
                           - Total({b \in Counted : NotAfter(b, a)} \cap ActionsFrom[v])
AtEnd(v) == Holdings[v] + Total(Counted \cap ActionsTo[v]) - Total(Counted \cap ActionsFrom[v])

Saved(f) == Submitted(IntentOf[ActionOf[f]])
Counts(f) == ActionOf[f] \in Counted
Uses(f, v) == v = Source[f] \/ v = Destination[f]

FundsPlan == \A v \in Accounts : \A a \in Counted \cap ActionsFrom[v] : After(v, a) >= 0
ClosePlan == \A f \in Fulfillments : Counts(f) /\ Type[f] \in Closing => AtEnd(Source[f]) = 0
UsePlan == \A f, g \in Fulfillments :
    Counts(f) /\ Counts(g) /\ f # g /\ Type[g] \in Closing /\ Uses(f, Source[g]) =>
        Ahead(ActionOf[f], ActionOf[g])
OpenPlan == \A f \in Fulfillments : Saved(f) /\ Type[f] = "Initialize" =>
    /\ Source[f] \notin Opened
    /\ \A g \in Fulfillments :
        Saved(g) /\ Type[g] = "Initialize" /\ Source[g] = Source[f] => g = f
KnownPlan == \A f \in Fulfillments : Saved(f) /\ Type[f] = "CloseEmpty" /\ Source[f] \notin Opened =>
    \E g \in Fulfillments : /\ Saved(g) /\ Type[g] = "Initialize" /\ Source[g] = Source[f]
                            /\ Ahead(ActionOf[g], ActionOf[f])
DormantPlan == \A f \in Fulfillments : IsDormant(f) /\ Counts(f) =>
    /\ f \in presorted
    /\ \A g \in Fulfillments \ {f} : Counts(g) /\ Type[g] \in Closing => ~Uses(f, Source[g])
PlanInv == FundsPlan /\ ClosePlan /\ UsePlan /\ OpenPlan /\ KnownPlan /\ DormantPlan

\* The records of an intent are there when it is submitted; only what closes a
\* dormant account is revoked, and not when it counts.
StatesInv ==
    /\ \A a \in Actions : /\ actionState[a] = "None" <=> ~Submitted(IntentOf[a])
                          /\ actionState[a] = "Revoked" => DormantAction(a)
    /\ \A f \in Fulfillments : /\ ful[f] = "None" <=> ~Saved(f)
                               /\ ful[f] = "Revoked" => actionState[ActionOf[f]] = "Revoked"
                               /\ InFlight(f) => Counts(f)

(***************************************************************************)
(* The books.                                                              *)
(***************************************************************************)

Into(v) == {f \in Fulfillments :
    Destination[f] = v /\ Type[f] \notin {"Temporary", "Initialize", "CloseEmpty"}}
OutOf(v) == {f \in Fulfillments :
    Source[f] = v /\ Type[f] \notin {"Advance", "Initialize", "CloseEmpty"}}
DoneTo(v) == {ActionOf[f] : f \in {g \in Into(v) : outcome[g] = "done"}}
DoneFrom(v) == {ActionOf[f] : f \in {g \in OutOf(v) : outcome[g] = "done"}}

Clean == \A f \in Fulfillments : outcome[f] \in {"none", "done"}

BalanceInv(v) ==
    /\ balance[v] = Holdings[v] + Total(DoneTo(v)) - Total(DoneFrom(v))
    /\ DoneFrom(v) # {} => \E m \in DoneFrom(v) : \A a \in DoneFrom(v) : NotAfter(a, m)

\* What pays for a transaction that is under way: it does not count on a dormant
\* account that was not closed yet.
Sources(v, a) == {b \in Counted : Ahead(b, a) /\ (DormantAction(b) => b \in DoneTo(v))} \cap ActionsTo[v]
Sure(v, a) == Total({b \in Counted : NotAfter(b, a)} \cap ActionsFrom[v])
                  <= Holdings[v] + Total(Sources(v, a))
SureInv(v) == \A f \in OutOf(v) : InFlight(f) => Sure(v, ActionOf[f])

VaultsInv == \A v \in Accounts :
    /\ v \in Opened => vault[v] # "absent"
    /\ vault[v] # "absent" /\ v \notin Opened =>
        \E f \in Fulfillments : Type[f] = "Initialize" /\ Source[f] = v /\ Succeeded(f)
    /\ vault[v] = "closed" =>
        \E f \in Fulfillments : Type[f] \in Closing /\ Source[f] = v /\ Succeeded(f)
BooksInv ==
    /\ VaultsInv
    /\ Clean => \A v \in Accounts : BalanceInv(v) /\ SureInv(v)
    /\ NoTransactionFails

(***************************************************************************)
(* Sums.  Total is a fold over a set: what it adds up to is shown by       *)
(* looking at a smallest set it is wrong about.                            *)
(***************************************************************************)

\* Of some finite sets one has no other below it.
LEMMA SmallestSet ==
    ASSUME NEW S, IsFiniteSet(S), NEW B \in SUBSET (SUBSET S), B # {}
    PROVE  \E T \in B : \A U \in B : U \subseteq T => U = T
<1>1. IsWellFoundedOn(StrictSubsetOrdering(S), SUBSET S)
  BY FS_StrictSubsetOrderingWellFounded, FS_FiniteSubsetsOfFinite
<1>2. PICK T \in B : \A U \in B : <<U, T>> \notin StrictSubsetOrdering(S)
  BY <1>1, WFMin
<1>3. \A U \in B : U \in SUBSET S /\ T \in SUBSET S
  OBVIOUS
<1>4. \A U \in B : U \subseteq T => U = T
  BY <1>2, <1>3 DEF StrictSubsetOrdering
<1> QED
  BY <1>4

\* The element the fold takes first.
Pick(s) == CHOOSE x \in s : TRUE

\* g sums up the subsets of S.
IsSum(S, g) == g = [s \in SUBSET S |-> IF s = {} THEN 0
                                       ELSE Quantity[Pick(s)] + g[s \ {Pick(s)}]]

\* The sum over S is what a function that sums up its subsets says of it.
LEMMA TotalDef == \A S : Total(S) = (CHOOSE g : IsSum(S, g))[S]
BY DEF Total, SumFunctionOnSet, FoldFunctionOnSet, MapThenFoldSet, IsSum, Pick

LEMMA PickIn == \A S : S # {} => Pick(S) \in S
BY DEF Pick

\* What a sum is at a set.
LEMMA SumAt ==
    ASSUME NEW S, NEW g, IsSum(S, g), NEW s \in SUBSET S
    PROVE  /\ s = {} => g[s] = 0
           /\ s # {} => g[s] = Quantity[Pick(s)] + g[s \ {Pick(s)}]
<1>1. g = [t \in SUBSET S |-> IF t = {} THEN 0 ELSE Quantity[Pick(t)] + g[t \ {Pick(t)}]]
  BY DEF IsSum
<1>2. g[s] = IF s = {} THEN 0 ELSE Quantity[Pick(s)] + g[s \ {Pick(s)}]
  BY <1>1
<1> QED
  BY <1>2

\* Two functions that sum up sets agree on those they both know.
LEMMA SumUnique ==
    ASSUME NEW S, NEW T, IsFiniteSet(T), T \subseteq S,
           NEW g, NEW h, IsSum(S, g), IsSum(T, h)
    PROVE  \A s \in SUBSET T : g[s] = h[s]
<1> DEFINE B == {s \in SUBSET T : g[s] # h[s]}
<1> SUFFICES ASSUME B # {} PROVE FALSE
  OBVIOUS
<1>sub. B \in SUBSET (SUBSET T)
  OBVIOUS
<1>1. PICK s \in B : \A u \in B : u \subseteq s => u = s
  <2> HIDE DEF B
  <2> QED
    BY <1>sub, SmallestSet
<1>2. s \in SUBSET T /\ s \in SUBSET S /\ g[s] # h[s]
  OBVIOUS
<1>3. CASE s = {}
  BY <1>2, <1>3, SumAt
<1>4. CASE s # {}
  <2> DEFINE u == s \ {Pick(s)}
  <2>1. Pick(s) \in s
    BY <1>4, PickIn
  <2>2. u \in SUBSET T /\ u \subseteq s /\ u # s
    BY <1>2, <2>1
  <2>3. g[u] = h[u]
    BY <1>1, <2>2
  <2>4. g[s] = Quantity[Pick(s)] + g[u] /\ h[s] = Quantity[Pick(s)] + h[u]
    BY <1>2, <1>4, SumAt
  <2> QED
    BY <1>2, <2>3, <2>4
<1> QED
  BY <1>3, <1>4

\* A function that sums up the subsets of T does so for what is below.
LEMMA SumBelow ==
    ASSUME NEW S, NEW T, T \subseteq S, NEW g, IsSum(S, g)
    PROVE  IsSum(T, [s \in SUBSET T |-> g[s]])
<1> DEFINE h == [s \in SUBSET T |-> g[s]]
<1>1. ASSUME NEW s \in SUBSET T
      PROVE  h[s] = IF s = {} THEN 0 ELSE Quantity[Pick(s)] + h[s \ {Pick(s)}]
  <2>1. h[s] = g[s] /\ h[s \ {Pick(s)}] = g[s \ {Pick(s)}] /\ s \in SUBSET S
    OBVIOUS
  <2> HIDE DEF h
  <2> QED
    BY <2>1, SumAt
<1>2. h = [s \in SUBSET T |-> h[s]]
  OBVIOUS
<1> HIDE DEF h
<1>3. h = [s \in SUBSET T |-> IF s = {} THEN 0 ELSE Quantity[Pick(s)] + h[s \ {Pick(s)}]]
  BY <1>1, <1>2
<1> QED
  BY <1>3 DEF IsSum, h

\* There is a function that sums up the subsets of a finite set.
LEMMA SumExists ==
    ASSUME NEW S, IsFiniteSet(S)
    PROVE  \E g : IsSum(S, g)
<1> DEFINE B == {T \in SUBSET S : ~ \E g : IsSum(T, g)}
<1> SUFFICES ASSUME B # {} PROVE FALSE
  OBVIOUS
<1>sub. B \in SUBSET (SUBSET S)
  OBVIOUS
<1>1. PICK T \in B : \A U \in B : U \subseteq T => U = T
  <2> HIDE DEF B
  <2> QED
    BY <1>sub, SmallestSet
<1>2. T \in SUBSET S /\ ~ \E g : IsSum(T, g)
  OBVIOUS
<1>3. \A U \in SUBSET T : U # T => \E g : IsSum(U, g)
  BY <1>1, <1>2
<1> HIDE DEF B
<1>fin. \A U \in SUBSET T : IsFiniteSet(U)
  BY <1>2, FS_Subset
<1>total. \A U \in SUBSET T : U # T => IsSum(U, CHOOSE g : IsSum(U, g))
  BY <1>3
\* Below T, the sum of a set is its first element and the sum of the rest.
<1>4. ASSUME NEW u \in SUBSET T, u # T
      PROVE  Total(u) = IF u = {} THEN 0 ELSE Quantity[Pick(u)] + Total(u \ {Pick(u)})
  <2> DEFINE g == CHOOSE g : IsSum(u, g)
             v == u \ {Pick(u)}
             h == CHOOSE h : IsSum(v, h)
  <2>1. IsSum(u, g) /\ Total(u) = g[u]
    BY <1>4, <1>total, TotalDef
  <2>2. CASE u = {}
    BY <2>1, <2>2, SumAt
  <2>3. CASE u # {}
    <3>1. v \in SUBSET T /\ v \subseteq u /\ v # T
      BY <1>4
    <3>2. IsSum(v, h) /\ Total(v) = h[v]
      BY <3>1, <1>total, TotalDef
    <3>3. IsFiniteSet(v)
      BY <3>1, <1>fin
    <3> HIDE DEF g, h
    <3>4. g[u] = Quantity[Pick(u)] + g[v]
      BY <2>1, <2>3, SumAt
    <3>5. g[v] = h[v]
      <4> HIDE DEF v
      <4>1. \A s \in SUBSET v : g[s] = h[s]
        BY ONLY <2>1, <3>1, <3>2, <3>3, SumUnique
      <4> QED
        BY ONLY <4>1
    <3> QED
      BY <2>1, <2>3, <3>2, <3>4, <3>5
  <2> QED
    BY <2>2, <2>3
<1> DEFINE f == [s \in SUBSET T |-> IF s = {} THEN 0 ELSE Quantity[Pick(s)] + Total(s \ {Pick(s)})]
<1>5. ASSUME NEW s \in SUBSET T
      PROVE  f[s] = IF s = {} THEN 0 ELSE Quantity[Pick(s)] + f[s \ {Pick(s)}]
  <2>1. CASE s = {}
    BY <2>1
  <2>2. CASE s # {}
    <3> DEFINE u == s \ {Pick(s)}
    <3>1. u \in SUBSET T /\ u # T
      BY <2>2, PickIn
    <3>2. f[u] = IF u = {} THEN 0 ELSE Quantity[Pick(u)] + Total(u \ {Pick(u)})
      BY <3>1
    <3>3. f[u] = Total(u)
      BY <3>1, <3>2, <1>4
    <3>4. f[s] = Quantity[Pick(s)] + Total(u)
      BY <2>2
    <3> QED
      BY <2>2, <3>3, <3>4
  <2> QED
    BY <2>1, <2>2
<1>6. f = [s \in SUBSET T |-> f[s]]
  OBVIOUS
<1> HIDE DEF f
<1>7. f = [s \in SUBSET T |-> IF s = {} THEN 0 ELSE Quantity[Pick(s)] + f[s \ {Pick(s)}]]
  BY <1>5, <1>6
<1> QED
  BY <1>2, <1>7 DEF IsSum

\* The sum of a finite set is its first element and the sum of the rest.
LEMMA TotalAt ==
    ASSUME NEW S, IsFiniteSet(S)
    PROVE  /\ S = {} => Total(S) = 0
           /\ S # {} => Total(S) = Quantity[Pick(S)] + Total(S \ {Pick(S)})
<1> DEFINE g == CHOOSE g : IsSum(S, g)
           v == S \ {Pick(S)}
           h == CHOOSE h : IsSum(v, h)
<1>1. IsSum(S, g) /\ Total(S) = g[S]
  BY SumExists, TotalDef
<1>2. IsFiniteSet(v)
  BY FS_Subset
<1>3. IsSum(v, h) /\ Total(v) = h[v]
  BY <1>2, SumExists, TotalDef
<1> HIDE DEF g, h
<1>4. g[v] = h[v]
  BY <1>1, <1>2, <1>3, SumUnique
<1> QED
  BY <1>1, <1>3, <1>4, SumAt

\* Sums of quantities are naturals.
LEMMA TotalType ==
    ASSUME NEW S \in SUBSET Actions, IsFiniteSet(S)
    PROVE  Total(S) \in Nat
<1> DEFINE B == {T \in SUBSET S : Total(T) \notin Nat}
<1> SUFFICES ASSUME B # {} PROVE FALSE
  OBVIOUS
<1>sub. B \in SUBSET (SUBSET S)
  OBVIOUS
<1>1. PICK T \in B : \A U \in B : U \subseteq T => U = T
  <2> HIDE DEF B
  <2> QED
    BY <1>sub, SmallestSet
<1>2. T \in SUBSET S /\ Total(T) \notin Nat
  OBVIOUS
<1>3. IsFiniteSet(T)
  BY <1>2, FS_Subset
<1>4. CASE T = {}
  <2>1. Total(T) = 0
    BY <1>3, <1>4, TotalAt
  <2> QED
    BY <1>2, <2>1
<1>5. CASE T # {}
  <2> DEFINE U == T \ {Pick(T)}
  <2>1. Pick(T) \in T
    BY <1>5, PickIn
  <2>2. U \in SUBSET S /\ U \subseteq T /\ U # T
    BY <1>2, <2>1
  <2>3. Total(U) \in Nat
    BY <1>1, <2>2
  <2>4. Quantity[Pick(T)] \in Nat
    BY <1>2, <2>1, Records
  <2> QED
    BY <1>2, <1>3, <1>5, <2>3, <2>4, TotalAt
<1> QED
  BY <1>4, <1>5

\* Any element can be taken out of a sum.
LEMMA TotalRemove ==
    ASSUME NEW S \in SUBSET Actions, IsFiniteSet(S), NEW x \in S
    PROVE  Total(S) = Quantity[x] + Total(S \ {x})
<1> DEFINE B == {T \in SUBSET S : \E y \in T : Total(T) # Quantity[y] + Total(T \ {y})}
<1> SUFFICES ASSUME B # {} PROVE FALSE
  <2>1. S \notin B
    OBVIOUS
  <2> QED
    BY <2>1
<1>sub. B \in SUBSET (SUBSET S)
  OBVIOUS
<1>1. PICK T \in B : \A U \in B : U \subseteq T => U = T
  <2> HIDE DEF B
  <2> QED
    BY <1>sub, SmallestSet
<1>2. T \in SUBSET S
  OBVIOUS
<1>3. PICK y \in T : Total(T) # Quantity[y] + Total(T \ {y})
  OBVIOUS
<1> DEFINE p == Pick(T)
<1>4. p \in T
  BY <1>3, PickIn
<1>below. ASSUME NEW U \in SUBSET T, U # T, NEW z \in U
          PROVE  Total(U) = Quantity[z] + Total(U \ {z})
  BY <1>1, <1>2, <1>below
<1> HIDE DEF p, B
<1>fin. \A U \in SUBSET T : IsFiniteSet(U) /\ U \in SUBSET Actions
  BY <1>2, FS_Subset
<1>type. \A U \in SUBSET T : Total(U) \in Nat
  BY <1>fin, TotalType
<1>amount. Quantity[p] \in Nat /\ Quantity[y] \in Nat
  BY <1>2, <1>3, <1>4, Records
<1>5. Total(T) = Quantity[p] + Total(T \ {p})
  BY <1>3, <1>fin, TotalAt DEF p
<1>6. p # y
  BY <1>3, <1>5
<1>7. Total(T \ {p}) = Quantity[y] + Total((T \ {p}) \ {y})
  BY <1>3, <1>4, <1>6, <1>below
<1>8. Total(T \ {y}) = Quantity[p] + Total((T \ {y}) \ {p})
  BY <1>3, <1>4, <1>6, <1>below
<1>9. (T \ {p}) \ {y} = (T \ {y}) \ {p}
  OBVIOUS
<1> DEFINE rest == Total((T \ {y}) \ {p})
<1>10. rest \in Nat
  BY <1>type
<1>11. Total(T) = Quantity[p] + (Quantity[y] + rest)
  BY <1>5, <1>7, <1>9
<1>12. Total(T \ {y}) = Quantity[p] + rest
  BY <1>8
<1> HIDE DEF rest
<1>13. Total(T) = Quantity[y] + Total(T \ {y})
  BY ONLY <1>10, <1>11, <1>12, <1>amount
<1> QED
  BY <1>3, <1>13

\* A part of a set sums up to less.
LEMMA TotalPart ==
    ASSUME NEW S \in SUBSET Actions, IsFiniteSet(S), NEW T \in SUBSET S
    PROVE  Total(T) <= Total(S)
<1> DEFINE B == {U \in SUBSET S : T \subseteq U /\ ~(Total(T) <= Total(U))}
<1> SUFFICES ASSUME B # {} PROVE FALSE
  <2>1. S \notin B
    OBVIOUS
  <2> QED
    BY <2>1
<1>sub. B \in SUBSET (SUBSET S)
  OBVIOUS
<1>1. PICK U \in B : \A V \in B : V \subseteq U => V = U
  <2> HIDE DEF B
  <2> QED
    BY <1>sub, SmallestSet
<1>2. U \in SUBSET S /\ T \subseteq U /\ ~(Total(T) <= Total(U))
  OBVIOUS
<1>fin. \A V \in SUBSET U : IsFiniteSet(V) /\ V \in SUBSET Actions
  BY <1>2, FS_Subset
<1>type. \A V \in SUBSET U : Total(V) \in Nat
  BY <1>fin, TotalType
<1>3. T # U
  BY <1>2, <1>type
<1>4. PICK x \in U : x \notin T
  BY <1>2, <1>3
<1> DEFINE V == U \ {x}
<1>5. V \in SUBSET S /\ T \subseteq V /\ V \subseteq U /\ V # U
  BY <1>2, <1>4
<1>6. Total(T) <= Total(V)
  BY <1>1, <1>5
<1>7. Total(U) = Quantity[x] + Total(V)
  BY <1>4, <1>fin, TotalRemove
<1>8. Quantity[x] \in Nat
  BY <1>2, <1>4, Records
<1>9. Total(T) \in Nat /\ Total(U) \in Nat /\ Total(V) \in Nat
  BY <1>2, <1>5, <1>type
<1> QED
  BY <1>2, <1>6, <1>7, <1>8, <1>9


\* A new element adds to a sum.
LEMMA TotalAdd ==
    ASSUME NEW S \in SUBSET Actions, NEW x \in Actions \ S
    PROVE  Total(S \cup {x}) = Total(S) + Quantity[x]
<1>1. S \cup {x} \in SUBSET Actions /\ x \in S \cup {x} /\ (S \cup {x}) \ {x} = S
  OBVIOUS
<1>2. IsFiniteSet(S) /\ IsFiniteSet(S \cup {x})
  BY <1>1, Records, FS_Subset
<1>3. Total(S \cup {x}) = Quantity[x] + Total(S)
  BY <1>1, <1>2, TotalRemove
<1>4. Total(S) \in Nat /\ Quantity[x] \in Nat
  BY <1>2, TotalType, Records
<1> QED
  BY ONLY <1>3, <1>4

\* The sums of the proofs below are all over actions.
LEMMA Totals ==
    \A S \in SUBSET Actions :
        /\ Total(S) \in Nat
        /\ \A T \in SUBSET S : Total(T) <= Total(S)
<1>1. \A S \in SUBSET Actions : IsFiniteSet(S)
  BY Records, FS_Subset
<1> QED
  BY <1>1, TotalType, TotalPart

(***************************************************************************)
(* The records, and their order.                                           *)
(***************************************************************************)

\* The fields of a fulfillment and of its action.
LEMMA Fields ==
    ASSUME NEW f \in Fulfillments
    PROVE  /\ Type[f] \in FulfillmentTypes /\ Source[f] \in Holders /\ Destination[f] \in Holders
           /\ ActionOf[f] \in Actions /\ IntentOf[ActionOf[f]] \in Intents
           /\ ActionId[ActionOf[f]] \in Nat /\ Quantity[ActionOf[f]] \in Nat
           /\ Type[f] \in Closing \cup {"Initialize"} => Source[f] \in Accounts
BY Records, OpenedAndClosed DEF Holders, Closing

\* The action says which of its fulfillments closes a dormant account.
LEMMA DormantOne == \A f \in Fulfillments : IsDormant(f) <=> DormantAction(ActionOf[f])
BY FulfillmentsOfAction, Records DEF IsDormant, DormantAction, FulfillmentTypes

\* An action pays into an account once, and out of it.
LEMMA OnePays ==
    ASSUME NEW v, NEW f \in Fulfillments, NEW g \in Fulfillments, ActionOf[f] = ActionOf[g],
           \/ f \in Into(v) /\ g \in Into(v)
           \/ f \in OutOf(v) /\ g \in OutOf(v)
    PROVE  f = g
<1>1. Type[f] \in FulfillmentTypes /\ Type[g] \in FulfillmentTypes
  BY Fields
<1>2. ActionType[ActionOf[f]] = ActionType[ActionOf[g]]
  OBVIOUS
<1>3. Type[f] = Type[g]
  BY <1>1, <1>2, FulfillmentsOfAction DEF FulfillmentTypes, Into, OutOf
<1> QED
  BY <1>3, OneOfEachType

\* The actions of an account are those of its payments.
LEMMA Payments ==
    ASSUME NEW v \in Holders
    PROVE  /\ ActionsTo[v] = {ActionOf[f] : f \in Into(v)} /\ ActionsTo[v] \subseteq Actions
           /\ ActionsFrom[v] = {ActionOf[f] : f \in OutOf(v)} /\ ActionsFrom[v] \subseteq Actions
           /\ DoneTo(v) \subseteq ActionsTo[v] /\ DoneFrom(v) \subseteq ActionsFrom[v]
<1>1. ActionsTo[v] = {ActionOf[f] : f \in Into(v)}
  BY DEF ActionsTo, Into
<1>2. ActionsFrom[v] = {ActionOf[f] : f \in OutOf(v)}
  BY DEF ActionsFrom, OutOf
<1>3. Into(v) \subseteq Fulfillments /\ OutOf(v) \subseteq Fulfillments
  BY DEF Into, OutOf
<1>4. \A f \in Fulfillments : ActionOf[f] \in Actions
  BY Fields
<1>5. DoneTo(v) \subseteq ActionsTo[v] /\ DoneFrom(v) \subseteq ActionsFrom[v]
  BY <1>1, <1>2 DEF DoneTo, DoneFrom
<1> QED
  BY <1>1, <1>2, <1>3, <1>4, <1>5

\* The actions are in one order after the other.
LEMMA Order ==
    ASSUME TypeOK, NEW a \in Actions, NEW b \in Actions, NEW c \in Actions
    PROVE  /\ NotAfter(a, a)
           /\ NotAfter(a, b) \/ NotAfter(b, a)
           /\ NotAfter(a, b) /\ NotAfter(b, c) => NotAfter(a, c)
           /\ Ahead(a, b) => NotAfter(a, b)
<1>1. \A d \in Actions : intentId[IntentOf[d]] \in Int /\ ActionId[d] \in Int
  BY Records DEF TypeOK
<1> QED
  BY <1>1 DEF Ahead, NotAfter

\* The scheduler goes by the order of the actions.
LEMMA AheadBefore ==
    ASSUME NEW f \in Fulfillments, NEW g \in Fulfillments, Placed(f), Placed(g),
           Ahead(ActionOf[g], ActionOf[f])
    PROVE  Before(g, f)
BY DormantOne DEF Ahead, Before, Placed, IsDormant

\* What is ahead of a transaction that is under way, and the scheduler compares it
\* with, is executed.
LEMMA AwaitedDone ==
    ASSUME PlacedInv, StatesInv, DormantPlan, NEW f \in Fulfillments, InFlight(f),
           NEW g \in Awaits(f), Counts(g), Ahead(ActionOf[g], ActionOf[f])
    PROVE  outcome[g] # "none"
<1>1. g \in Fulfillments /\ ~IsDormant(g)
  BY DEF Awaits
<1>2. Placed(f) /\ Placed(g)
  BY <1>1 DEF Placed, DormantPlan, StatesInv
<1>3. Before(g, f)
  BY <1>1, <1>2, AheadBefore
<1>4. ful[g] # "None"
  <2>1. actionState[ActionOf[g]] # "None" /\ ActionOf[g] \in Actions
    BY DEF Counts, Counted
  <2> QED
    BY <1>1, <2>1 DEF StatesInv, Saved
<1> QED
  BY <1>1, <1>2, <1>3, <1>4 DEF PlacedInv, OrderInv, StateInv

(***************************************************************************)
(* A transaction that is next to execute, when none has failed so far.     *)
(***************************************************************************)

NextOne(f) == ful[f] = "Pending" /\ outcome[f] = "none"

\* An account it uses was not closed: what closes it waits for all that use it.
LEMMA StillOpen ==
    ASSUME TypeOK, PlacedInv, StatesInv, PlanInv, VaultsInv,
           NEW f \in Fulfillments, NextOne(f), NEW v \in Accounts, vault[v] # "absent",
           v = Source[f] \/ (v = Destination[f] /\ Type[f] \notin {"Initialize", "CloseEmpty"})
    PROVE  vault[v] = "open"
<1> SUFFICES ASSUME vault[v] = "closed" PROVE FALSE
  BY DEF TypeOK
<1>1. PICK g \in Fulfillments : Type[g] \in Closing /\ Source[g] = v /\ Succeeded(g)
  BY DEF VaultsInv
<1>2. InFlight(g) /\ Counts(g)
  BY <1>1 DEF PlacedInv, StateInv, StatesInv, Succeeded
<1>3. InFlight(f) /\ Counts(f)
  BY DEF NextOne, StatesInv, InFlight
<1>4. f # g /\ Uses(f, Source[g])
  BY <1>1 DEF NextOne, Succeeded, Uses
<1>5. Ahead(ActionOf[f], ActionOf[g])
  BY <1>1, <1>2, <1>3, <1>4 DEF PlanInv, UsePlan
<1>6. ~IsDormant(f)
  BY <1>1, <1>2, <1>3, <1>4 DEF PlanInv, DormantPlan
<1>7. f \in Awaits(g)
  BY <1>1, <1>6 DEF Awaits, Closing, Spending
<1>8. outcome[f] # "none"
  BY <1>2, <1>3, <1>5, <1>7, AwaitedDone DEF PlanInv
<1> QED
  BY <1>8 DEF NextOne

\* All that is paid into the source of a transaction ahead of it has arrived, but
\* for dormant accounts.
LEMMA SourcesArrived ==
    ASSUME PlacedInv, StatesInv, PlanInv, Clean,
           NEW v \in Accounts, NEW f \in OutOf(v), InFlight(f)
    PROVE  Sources(v, ActionOf[f]) \subseteq DoneTo(v)
<1> SUFFICES ASSUME NEW b \in Sources(v, ActionOf[f]), ~DormantAction(b)
             PROVE  b \in DoneTo(v)
  BY DEF Sources
<1>1. v \in Holders /\ f \in Fulfillments
  BY DEF Holders, OutOf
<1>2. PICK g \in Into(v) : b = ActionOf[g]
  BY <1>1, Payments DEF Sources
<1>3. g \in Fulfillments /\ ~IsDormant(g) /\ Counts(g) /\ Ahead(ActionOf[g], ActionOf[f])
  BY <1>2, DormantOne DEF Into, Sources, Counts
<1>4. Type[f] \in Spending
  BY Fields DEF OutOf, Spending, FulfillmentTypes
<1>5. g \in Awaits(f)
  BY <1>3, <1>4 DEF Awaits, Into, OutOf
<1>6. outcome[g] = "done"
  BY <1>1, <1>3, <1>5, AwaitedDone DEF PlanInv, Clean
<1> QED
  BY <1>2, <1>6 DEF DoneTo

\* What was paid out of an account was under way.
LEMMA DoneCounts ==
    ASSUME PlacedInv, StatesInv, NEW v \in Holders
    PROVE  DoneTo(v) \subseteq Counted \cap ActionsTo[v] /\ DoneFrom(v) \subseteq Counted \cap ActionsFrom[v]
<1>1. \A f \in Fulfillments : outcome[f] = "done" => ActionOf[f] \in Counted
  BY DEF PlacedInv, StateInv, StatesInv, Counts
<1> QED
  BY <1>1, Payments DEF DoneTo, DoneFrom, Into, OutOf

\* The funds of a payment are there.
LEMMA FundsThere ==
    ASSUME TypeOK, PlacedInv, StatesInv, PlanInv, Clean,
           NEW v \in Accounts, BalanceInv(v), SureInv(v), NEW f \in OutOf(v), NextOne(f)
    PROVE  balance[v] >= Quantity[ActionOf[f]]
<1> DEFINE a == ActionOf[f]
           done == DoneFrom(v)
<1>1. v \in Holders /\ f \in Fulfillments /\ a \in Actions
  BY Fields DEF Holders, OutOf
<1>2. InFlight(f) /\ a \in Counted /\ a \in ActionsFrom[v]
  <2>1. InFlight(f)
    BY DEF NextOne, InFlight
  <2> QED
    BY <1>1, <2>1, Payments DEF StatesInv, Counts
<1>3. done \subseteq Counted \cap ActionsFrom[v] /\ DoneTo(v) \subseteq Actions /\ done \subseteq Actions
  BY <1>1, DoneCounts, Payments
<1>4. a \notin done
  <2> SUFFICES ASSUME a \in done PROVE FALSE
    OBVIOUS
  <2>1. PICK g \in OutOf(v) : ActionOf[g] = a /\ outcome[g] = "done"
    BY DEF DoneFrom
  <2>2. g \in Fulfillments
    BY DEF OutOf
  <2>3. g = f
    BY <1>1, <2>1, <2>2, OnePays
  <2> QED
    BY <2>1, <2>3 DEF NextOne
\* The last of the payments out of the account that were made, and this one.
<1>5. PICK h \in OutOf(v) : InFlight(h) /\ \A b \in done \cup {a} : NotAfter(b, ActionOf[h])
  <2>1. CASE done = {}
    BY <1>1, <1>2, <2>1, Order
  <2>2. CASE done # {}
    <3>1. PICK m \in done : \A b \in done : NotAfter(b, m)
      BY <2>2 DEF BalanceInv
    <3>2. PICK g \in OutOf(v) : ActionOf[g] = m /\ outcome[g] = "done"
      BY DEF DoneFrom
    <3>3. InFlight(g)
      BY <3>2 DEF OutOf, PlacedInv, StateInv
    <3>4. CASE NotAfter(a, m)
      BY <3>1, <3>2, <3>3, <3>4
    <3>5. CASE ~NotAfter(a, m)
      <4>1. NotAfter(m, a) /\ NotAfter(a, a)
        BY <1>1, <1>3, <3>5, Order
      <4>2. \A b \in done : NotAfter(b, a)
        BY <1>1, <1>3, <3>1, <4>1, Order
      <4> QED
        BY <1>2, <4>1, <4>2
    <3> QED
      BY <3>4, <3>5
  <2> QED
    BY <2>1, <2>2
<1> DEFINE out == {b \in Counted : NotAfter(b, ActionOf[h])} \cap ActionsFrom[v]
           in == Sources(v, ActionOf[h])
<1>6. Total(out) <= Holdings[v] + Total(in)
  BY <1>5 DEF SureInv, Sure
<1>7. in \subseteq DoneTo(v) /\ done \cup {a} \subseteq out /\ out \subseteq Actions
  BY <1>1, <1>2, <1>3, <1>5, SourcesArrived, Payments
<1> HIDE DEF out, in
<1>8. Total(in) <= Total(DoneTo(v)) /\ Total(done \cup {a}) <= Total(out)
  BY <1>3, <1>7, Totals
<1>9. Total(done \cup {a}) = Total(done) + Quantity[a]
  BY <1>1, <1>3, <1>4, TotalAdd
<1>10. balance[v] = Holdings[v] + Total(DoneTo(v)) - Total(done)
  BY DEF BalanceInv
<1>11. /\ Total(in) \in Nat /\ Total(DoneTo(v)) \in Nat /\ Total(done) \in Nat
       /\ Total(out) \in Nat /\ Quantity[a] \in Nat /\ Holdings[v] \in Nat
  BY <1>1, <1>3, <1>7, Totals, Fields, AccountSets DEF Holders
<1> HIDE DEF done, a
<1>12. balance[v] >= Quantity[a]
  BY ONLY <1>6, <1>8, <1>9, <1>10, <1>11
<1> QED
  BY <1>12 DEF a

\* All that uses the account a transaction closes was executed before it.
LEMMA AllDone ==
    ASSUME TypeOK, PlacedInv, StatesInv, PlanInv, Clean,
           NEW f \in Fulfillments, NextOne(f), Type[f] \in Closing
    PROVE  LET v == Source[f]
           IN  /\ DoneTo(v) = Counted \cap ActionsTo[v]
               /\ DoneFrom(v) = (Counted \cap ActionsFrom[v]) \ {ActionOf[f]}
<1> DEFINE v == Source[f]
<1>1. v \in Accounts /\ v \in Holders
  BY Fields DEF Holders
<1>2. InFlight(f) /\ Counts(f)
  BY DEF NextOne, InFlight, StatesInv
<1>3. ASSUME NEW g \in Fulfillments, Counts(g), g # f,
             Source[g] = v \/ (Destination[g] = v /\ Type[g] \notin {"Initialize", "CloseEmpty"})
      PROVE  outcome[g] = "done"
  <2>1. Uses(g, v)
    BY <1>3 DEF Uses
  <2>2. Ahead(ActionOf[g], ActionOf[f])
    BY <1>2, <1>3, <2>1 DEF PlanInv, UsePlan
  <2>3. ~IsDormant(g)
    BY <1>2, <1>3, <2>1 DEF PlanInv, DormantPlan
  <2>4. g \in Awaits(f)
    BY <1>3, <2>3 DEF Awaits, Closing, Spending
  <2>5. outcome[g] # "none"
    BY <1>2, <1>3, <2>2, <2>4, AwaitedDone DEF PlanInv
  <2> QED
    BY <2>5 DEF Clean
<1>4. DoneTo(v) \subseteq Counted \cap ActionsTo[v] /\ DoneFrom(v) \subseteq Counted \cap ActionsFrom[v]
  BY <1>1, DoneCounts
<1>5. ASSUME NEW b \in Counted \cap ActionsTo[v] PROVE b \in DoneTo(v)
  <2>1. PICK g \in Into(v) : ActionOf[g] = b
    BY <1>1, Payments
  <2>2. g \in Fulfillments /\ Counts(g) /\ Destination[g] = v /\ Type[g] \notin {"Initialize", "CloseEmpty"}
    BY <2>1 DEF Into, Counts
  <2>3. g # f
    BY <2>2, ThroughTreasury DEF Closing
  <2>4. outcome[g] = "done"
    BY <1>3, <2>2, <2>3
  <2> QED
    BY <2>1, <2>4 DEF DoneTo
<1>6. ASSUME NEW b \in (Counted \cap ActionsFrom[v]) \ {ActionOf[f]} PROVE b \in DoneFrom(v)
  <2>1. PICK g \in OutOf(v) : ActionOf[g] = b
    BY <1>1, Payments
  <2>2. g \in Fulfillments /\ Source[g] = v
    BY <2>1 DEF OutOf
  <2>3. Counts(g) /\ g # f
    BY <2>1 DEF Counts
  <2>4. outcome[g] = "done"
    BY <1>3, <2>2, <2>3
  <2> QED
    BY <2>1, <2>4 DEF DoneFrom
<1>7. ActionOf[f] \notin DoneFrom(v)
  <2> SUFFICES ASSUME ActionOf[f] \in DoneFrom(v) PROVE FALSE
    OBVIOUS
  <2>1. PICK g \in OutOf(v) : ActionOf[g] = ActionOf[f] /\ outcome[g] = "done"
    BY DEF DoneFrom
  <2>2. g \in Fulfillments /\ g # f
    BY <2>1 DEF OutOf, NextOne
  <2>3. Uses(g, v) /\ Counts(g)
    BY <1>2, <2>1 DEF OutOf, Uses, Counts
  <2>4. Ahead(ActionOf[g], ActionOf[f])
    BY <1>2, <2>2, <2>3 DEF PlanInv, UsePlan
  <2> QED
    BY <2>1, <2>4, Fields, Order DEF NotAfter
<1> QED
  BY <1>4, <1>5, <1>6, <1>7

\* What closes an account finds in it what it is meant to move.
LEMMA ClosingExact ==
    ASSUME TypeOK, PlacedInv, StatesInv, PlanInv, Clean,
           NEW f \in Fulfillments, NextOne(f), Type[f] \in Closing, BalanceInv(Source[f])
    PROVE  balance[Source[f]] = IF Type[f] = "CloseEmpty" THEN 0 ELSE Quantity[ActionOf[f]]
<1> DEFINE v == Source[f]
           a == ActionOf[f]
           to == Counted \cap ActionsTo[v]
           from == Counted \cap ActionsFrom[v]
<1>1. v \in Holders /\ v \in Accounts /\ a \in Actions /\ Quantity[a] \in Nat /\ Holdings[v] \in Nat
  BY Fields, AccountSets DEF Holders
<1>2. a \in Counted
  BY DEF NextOne, InFlight, StatesInv, Counts
<1>3. Holdings[v] + Total(to) - Total(from) = 0
  BY <1>2 DEF PlanInv, ClosePlan, AtEnd, Counts
<1>4. DoneTo(v) = to /\ DoneFrom(v) = from \ {a}
  BY AllDone
<1>5. balance[v] = Holdings[v] + Total(to) - Total(from \ {a})
  BY <1>4 DEF BalanceInv
<1>6. to \subseteq Actions /\ from \subseteq Actions
  BY <1>1, Payments
<1>7. CASE Type[f] = "CloseEmpty"
  <2>1. a \notin ActionsFrom[v]
    <3> SUFFICES ASSUME a \in ActionsFrom[v] PROVE FALSE
      OBVIOUS
    <3>1. PICK g \in OutOf(v) : ActionOf[g] = a
      BY <1>1, Payments
    <3>2. g \in Fulfillments /\ Type[g] # "CloseEmpty" /\ Type[g] \in FulfillmentTypes
      BY <3>1, Fields DEF OutOf
    <3>3. ActionType[a] = "CloseEmptyAccount"
      BY <1>7, FulfillmentsOfAction
    <3> QED
      BY <3>1, <3>2, <3>3, FulfillmentsOfAction DEF FulfillmentTypes
  <2>2. from \ {a} = from
    BY <2>1
  <2> HIDE DEF from, to, a, v
  <2>3. balance[v] = 0
    BY <1>3, <1>5, <2>2
  <2> QED
    BY <1>7, <2>3 DEF v
<1>8. CASE Type[f] # "CloseEmpty"
  <2>1. f \in OutOf(v)
    BY <1>8 DEF OutOf, Closing
  <2>2. a \in from
    BY <1>1, <1>2, <2>1, Payments
  <2>3. Total((from \ {a}) \cup {a}) = Total(from \ {a}) + Quantity[a] /\ (from \ {a}) \cup {a} = from
    BY <1>6, <2>2, TotalAdd
  <2>4. Total(from \ {a}) \in Nat /\ Total(to) \in Nat /\ Total(from) \in Nat
    BY <1>6, Totals
  <2> HIDE DEF from, to, a, v
  <2>5. Total(from) = Total(from \ {a}) + Quantity[a]
    BY <2>3
  <2>6. balance[v] = Quantity[a]
    BY ONLY <1>1, <1>3, <1>5, <2>4, <2>5
  <2> QED
    BY <1>8, <2>6 DEF v, a
<1> QED
  BY <1>7, <1>8

\* What is open for a transaction that is under way.
LEMMA OpenFor ==
    ASSUME TypeOK, PlacedInv, StatesInv, PlanInv, VaultsInv,
           NEW f \in Fulfillments, NextOne(f), NEW v \in Holders, v \in Accounts => v \in Touched(f),
           v = Source[f] \/ (v = Destination[f] /\ Type[f] \notin {"Initialize", "CloseEmpty"})
    PROVE  IsOpen(v)
<1>1. CASE v \in External
  BY <1>1 DEF IsOpen
<1>2. CASE v \in Accounts
  <2>1. vault[v] # "absent"
    BY <1>2 DEF PlacedInv, ExistInv, NextOne, InFlight
  <2>2. vault[v] = "open"
    BY <1>2, <2>1, StillOpen
  <2> QED
    BY <2>2 DEF IsOpen
<1> QED
  BY <1>1, <1>2 DEF Holders

\* An account that is opened is not there yet.
LEMMA OpensAbsent ==
    ASSUME TypeOK, PlacedInv, StatesInv, PlanInv, VaultsInv,
           NEW f \in Fulfillments, NextOne(f), Type[f] = "Initialize"
    PROVE  vault[Source[f]] = "absent"
<1> SUFFICES ASSUME vault[Source[f]] # "absent" PROVE FALSE
  OBVIOUS
<1>1. Source[f] \in Accounts /\ Saved(f)
  BY Fields DEF NextOne, StatesInv
<1>2. Source[f] \notin Opened
  BY <1>1 DEF PlanInv, OpenPlan
<1>3. PICK g \in Fulfillments : Type[g] = "Initialize" /\ Source[g] = Source[f] /\ Succeeded(g)
  BY <1>1, <1>2 DEF VaultsInv
<1>4. Saved(g)
  BY <1>3 DEF PlacedInv, StateInv, StatesInv, InFlight, Succeeded
<1>5. g = f
  BY <1>1, <1>3, <1>4 DEF PlanInv, OpenPlan
<1> QED
  BY <1>3, <1>5 DEF NextOne, Succeeded

\* An account that is closed when it is empty was opened before.
LEMMA ClosesOpen ==
    ASSUME TypeOK, PlacedInv, StatesInv, PlanInv, VaultsInv, Clean,
           NEW f \in Fulfillments, NextOne(f), Type[f] = "CloseEmpty"
    PROVE  vault[Source[f]] = "open"
<1> DEFINE v == Source[f]
<1>1. v \in Accounts /\ Saved(f) /\ InFlight(f)
  BY OpenedAndClosed DEF NextOne, StatesInv, InFlight
<1>2. vault[v] # "absent"
  <2>1. CASE v \in Opened
    BY <1>1, <2>1 DEF VaultsInv
  <2>2. CASE v \notin Opened
    <3>1. PICK g \in Fulfillments : /\ Saved(g) /\ Type[g] = "Initialize" /\ Source[g] = v
                                    /\ Ahead(ActionOf[g], ActionOf[f])
      BY <1>1, <2>2 DEF PlanInv, KnownPlan
    <3>2. g \in Awaits(f)
      BY <3>1 DEF Awaits, Closing, IsDormant
    <3>3. Counts(g)
      <4>1. ~DormantAction(ActionOf[g]) /\ ActionOf[g] \in Actions
        BY <3>1, Fields, DormantOne DEF IsDormant
      <4>2. actionState[ActionOf[g]] \notin {"None", "Revoked"}
        BY <3>1, <4>1 DEF StatesInv, Saved
      <4> QED
        BY <4>1, <4>2 DEF Counts, Counted, DormantAction
    <3>4. outcome[g] = "done"
      BY <1>1, <3>1, <3>2, <3>3, AwaitedDone DEF PlanInv, Clean
    <3> QED
      BY <3>1, <3>4 DEF PlacedInv, ExistInv, Succeeded
  <2> QED
    BY <2>1, <2>2
<1> QED
  BY <1>1, <1>2, StillOpen

\* What is submitted to the blockchain is executed, and moves what it is meant to.
LEMMA Executes ==
    ASSUME TypeOK, PlacedInv, StatesInv, PlanInv, VaultsInv, Clean,
           \A v \in Accounts : BalanceInv(v) /\ SureInv(v),
           NEW f \in Fulfillments, NextOne(f)
    PROVE  /\ Executable(f)
           /\ Moved(f) = IF Type[f] \in {"Initialize", "CloseEmpty"} THEN 0
                         ELSE Quantity[ActionOf[f]]
<1>1. /\ Type[f] \in FulfillmentTypes /\ Source[f] \in Holders /\ Destination[f] \in Holders
      /\ Type[f] \in Closing => Source[f] \in Accounts
  BY Fields
<1>2. CASE Type[f] = "Initialize"
  BY <1>2, OpensAbsent DEF Executable, Moved
<1>3. CASE Type[f] = "CloseEmpty"
  <2>1. vault[Source[f]] = "open" /\ balance[Source[f]] = 0
    BY <1>1, <1>3, ClosesOpen, ClosingExact DEF Closing
  <2> QED
    BY <1>3, <2>1 DEF Executable, Moved, IsOpen
<1>4. CASE Type[f] \in {"Withdraw", "CloseDormant"}
  <2>1. \A v \in Accounts : v \in {Source[f], Destination[f]} => v \in Touched(f)
    BY <1>4 DEF Touched
  <2>2. IsOpen(Source[f]) /\ IsOpen(Destination[f])
    BY <1>1, <1>4, <2>1, OpenFor
  <2>3. balance[Source[f]] = Quantity[ActionOf[f]]
    BY <1>1, <1>4, ClosingExact DEF Closing
  <2> QED
    BY <1>4, <2>2, <2>3 DEF Executable, Moved
<1>5. CASE Type[f] \in {"Transfer", "Advance", "Temporary"}
  <2>1. IsOpen(Source[f])
    <3>1. CASE Type[f] = "Advance"
      BY <3>1, ThroughTreasury DEF IsOpen
    <3>2. CASE Type[f] # "Advance"
      <4>1. Source[f] \in Accounts => Source[f] \in Touched(f)
        BY <1>5, <3>2 DEF Touched
      <4> QED
        BY <1>1, <4>1, OpenFor
    <3> QED
      BY <3>1, <3>2
  <2>2. IsOpen(Destination[f])
    <3>1. CASE Type[f] = "Temporary"
      BY <3>1, ThroughTreasury DEF IsOpen
    <3>2. CASE Type[f] # "Temporary"
      <4>1. Destination[f] \in Accounts => Destination[f] \in Touched(f)
        BY <1>5, <3>2 DEF Touched
      <4> QED
        BY <1>1, <1>5, <4>1, OpenFor
    <3> QED
      BY <3>1, <3>2
  <2>3. Source[f] \in Accounts => balance[Source[f]] >= Quantity[ActionOf[f]]
    <3> SUFFICES ASSUME Source[f] \in Accounts PROVE balance[Source[f]] >= Quantity[ActionOf[f]]
      OBVIOUS
    <3>1. Type[f] # "Advance"
      BY ThroughTreasury, AccountSets
    <3>2. f \in OutOf(Source[f])
      BY <1>5, <3>1 DEF OutOf
    <3> QED
      BY <3>2, FundsThere
  <2> QED
    BY <1>5, <2>1, <2>2, <2>3 DEF Executable, Moved
<1> QED
  BY <1>1, <1>2, <1>3, <1>4, <1>5 DEF FulfillmentTypes

\* The payment of a transaction that was executed is one more in the books.
LEMMA DoneMore ==
    ASSUME NEW v \in Holders, NEW f \in Fulfillments, outcome[f] = "none",
           outcome \in [Fulfillments -> {"none", "done", "short", "failed"}],
           outcome' = [outcome EXCEPT ![f] = "done"]
    PROVE  /\ ActionOf[f] \notin DoneTo(v) \/ f \notin Into(v)
           /\ ActionOf[f] \notin DoneFrom(v) \/ f \notin OutOf(v)
           /\ DoneTo(v)' = IF f \in Into(v) THEN DoneTo(v) \cup {ActionOf[f]} ELSE DoneTo(v)
           /\ DoneFrom(v)' = IF f \in OutOf(v) THEN DoneFrom(v) \cup {ActionOf[f]} ELSE DoneFrom(v)
<1>1. Into(v)' = Into(v) /\ OutOf(v)' = OutOf(v)
  BY DEF Into, OutOf
<1>2. \A g \in Fulfillments : outcome'[g] = "done" <=> g = f \/ outcome[g] = "done"
  OBVIOUS
<1>3. Into(v) \subseteq Fulfillments /\ OutOf(v) \subseteq Fulfillments
  BY DEF Into, OutOf
<1>4. ActionOf[f] \notin DoneTo(v) \/ f \notin Into(v)
  <2> SUFFICES ASSUME ActionOf[f] \in DoneTo(v), f \in Into(v) PROVE FALSE
    OBVIOUS
  <2>1. PICK g \in Into(v) : ActionOf[g] = ActionOf[f] /\ outcome[g] = "done"
    BY DEF DoneTo
  <2> QED
    BY <1>3, <2>1, OnePays
<1>5. ActionOf[f] \notin DoneFrom(v) \/ f \notin OutOf(v)
  <2> SUFFICES ASSUME ActionOf[f] \in DoneFrom(v), f \in OutOf(v) PROVE FALSE
    OBVIOUS
  <2>1. PICK g \in OutOf(v) : ActionOf[g] = ActionOf[f] /\ outcome[g] = "done"
    BY DEF DoneFrom
  <2> QED
    BY <1>3, <2>1, OnePays
<1>6. DoneTo(v)' = IF f \in Into(v) THEN DoneTo(v) \cup {ActionOf[f]} ELSE DoneTo(v)
  BY <1>1, <1>2, <1>3 DEF DoneTo
<1>7. DoneFrom(v)' = IF f \in OutOf(v) THEN DoneFrom(v) \cup {ActionOf[f]} ELSE DoneFrom(v)
  BY <1>1, <1>2, <1>3 DEF DoneFrom
<1> QED
  BY <1>4, <1>5, <1>6, <1>7

(***************************************************************************)
(* The steps keep the books.                                               *)
(***************************************************************************)

LEMMA BalanceStep ==
    ASSUME TypeOK, NEW v \in Accounts, BalanceInv(v), NEW f \in Fulfillments, outcome[f] = "none",
           Moved(f) = IF Type[f] \in {"Initialize", "CloseEmpty"} THEN 0 ELSE Quantity[ActionOf[f]],
           outcome' = [outcome EXCEPT ![f] = "done"], intentId' = intentId,
           balance' = [w \in Holders |-> balance[w] + (IF w = Destination[f] THEN Moved(f) ELSE 0)
                                                    - (IF w = Source[f] THEN Moved(f) ELSE 0)]
    PROVE  BalanceInv(v)'
<1> DEFINE a == ActionOf[f]
<1>1. v \in Holders /\ a \in Actions /\ Quantity[a] \in Nat /\ Holdings[v] \in Nat
  BY Fields, AccountSets DEF Holders
<1>2. /\ DoneTo(v) \subseteq Actions /\ DoneFrom(v) \subseteq Actions
      /\ Total(DoneTo(v)) \in Nat /\ Total(DoneFrom(v)) \in Nat
  BY <1>1, Payments, Totals
<1>3. /\ a \notin DoneTo(v) \/ f \notin Into(v)
      /\ a \notin DoneFrom(v) \/ f \notin OutOf(v)
      /\ DoneTo(v)' = IF f \in Into(v) THEN DoneTo(v) \cup {a} ELSE DoneTo(v)
      /\ DoneFrom(v)' = IF f \in OutOf(v) THEN DoneFrom(v) \cup {a} ELSE DoneFrom(v)
  BY <1>1, DoneMore DEF TypeOK
<1>4. Total(DoneTo(v)') = Total(DoneTo(v)) + (IF v = Destination[f] THEN Moved(f) ELSE 0)
  <2>1. CASE f \in Into(v)
    <3>1. v = Destination[f] /\ Moved(f) = Quantity[a]
      BY <2>1 DEF Into
    <3>2. Total(DoneTo(v) \cup {a}) = Total(DoneTo(v)) + Quantity[a]
      BY <1>1, <1>2, <1>3, <2>1, TotalAdd
    <3> QED
      BY <1>3, <2>1, <3>1, <3>2
  <2>2. CASE f \notin Into(v)
    <3>1. v # Destination[f] \/ Moved(f) = 0
      BY <2>2, ThroughTreasury, AccountSets DEF Into
    <3> QED
      BY <1>2, <1>3, <2>2, <3>1
  <2> QED
    BY <2>1, <2>2
<1>5. Total(DoneFrom(v)') = Total(DoneFrom(v)) + (IF v = Source[f] THEN Moved(f) ELSE 0)
  <2>1. CASE f \in OutOf(v)
    <3>1. v = Source[f] /\ Moved(f) = Quantity[a]
      BY <2>1 DEF OutOf
    <3>2. Total(DoneFrom(v) \cup {a}) = Total(DoneFrom(v)) + Quantity[a]
      BY <1>1, <1>2, <1>3, <2>1, TotalAdd
    <3> QED
      BY <1>3, <2>1, <3>1, <3>2
  <2>2. CASE f \notin OutOf(v)
    <3>1. v # Source[f] \/ Moved(f) = 0
      BY <2>2, ThroughTreasury, AccountSets DEF OutOf
    <3> QED
      BY <1>2, <1>3, <2>2, <3>1
  <2> QED
    BY <2>1, <2>2
<1>6. balance'[v] = Holdings[v] + Total(DoneTo(v)') - Total(DoneFrom(v)')
  <2> DEFINE received == IF v = Destination[f] THEN Moved(f) ELSE 0
             sent == IF v = Source[f] THEN Moved(f) ELSE 0
  <2>1. received \in Nat /\ sent \in Nat
    BY <1>1
  <2>2. balance'[v] = balance[v] + received - sent
    BY <1>1
  <2>3. balance[v] = Holdings[v] + Total(DoneTo(v)) - Total(DoneFrom(v))
    BY DEF BalanceInv
  <2>4. Total(DoneTo(v)') = Total(DoneTo(v)) + received /\ Total(DoneFrom(v)') = Total(DoneFrom(v)) + sent
    BY <1>4, <1>5
  <2> HIDE DEF received, sent
  <2> QED
    BY ONLY <1>1, <1>2, <2>1, <2>2, <2>3, <2>4
<1>7. \A b, c \in Actions : NotAfter(b, c)' <=> NotAfter(b, c)
  BY DEF NotAfter, Ahead
<1>8. ASSUME DoneFrom(v)' # {}
      PROVE  \E m \in DoneFrom(v)' : \A b \in DoneFrom(v)' : NotAfter(b, m)
  <2>1. CASE f \notin OutOf(v)
    BY <1>3, <1>8, <2>1 DEF BalanceInv
  <2>2. CASE f \in OutOf(v) /\ DoneFrom(v) = {}
    <3>1. DoneFrom(v)' = {a} /\ NotAfter(a, a)
      BY <1>1, <1>3, <2>2, Order
    <3> QED
      BY <3>1
  <2>3. CASE f \in OutOf(v) /\ DoneFrom(v) # {}
    <3>1. PICK m \in DoneFrom(v) : \A b \in DoneFrom(v) : NotAfter(b, m)
      BY <2>3 DEF BalanceInv
    <3>2. DoneFrom(v)' = DoneFrom(v) \cup {a}
      BY <1>3, <2>3
    <3>3. CASE NotAfter(a, m)
      BY <3>1, <3>2, <3>3
    <3>4. CASE ~NotAfter(a, m)
      <4>1. NotAfter(m, a) /\ NotAfter(a, a)
        BY <1>1, <1>2, <3>4, Order
      <4>2. \A b \in DoneFrom(v) : NotAfter(b, a)
        BY <1>1, <1>2, <3>1, <4>1, Order
      <4> QED
        BY <3>2, <4>1, <4>2
    <3> QED
      BY <3>3, <3>4
  <2> QED
    BY <2>1, <2>2, <2>3
<1>9. DoneFrom(v)' \subseteq Actions
  BY <1>1, <1>2, <1>3
<1>10. DoneFrom(v)' # {} => \E m \in DoneFrom(v)' : \A b \in DoneFrom(v)' : NotAfter(b, m)'
  <2> HIDE DEF a
  <2> QED
    BY <1>7, <1>8, <1>9
<1> QED
  BY <1>6, <1>10 DEF BalanceInv

\* What pays for a transaction under way stays there.
LEMMA SureKept ==
    ASSUME NEW v \in Accounts, NEW a \in Actions, Sure(v, a), Counted' = Counted,
           intentId' = intentId, DoneTo(v) \subseteq DoneTo(v)'
    PROVE  Sure(v, a)'
<1> DEFINE out == {b \in Counted : NotAfter(b, a)} \cap ActionsFrom[v]
<1>1. v \in Holders
  BY DEF Holders
<1>2. Total(out) <= Holdings[v] + Total(Sources(v, a))
  BY DEF Sure
<1>3. out' = out
  BY DEF NotAfter, Ahead
<1>4. Sources(v, a) \subseteq Sources(v, a)'
  BY DEF Sources, Ahead, DormantAction
<1>5. Sources(v, a)' \subseteq Actions /\ out \subseteq Actions
  BY <1>1, Payments DEF Sources
<1>6. Total(Sources(v, a)) <= Total(Sources(v, a)')
  BY <1>4, <1>5, Totals
<1>7. /\ Total(Sources(v, a)) \in Nat /\ Total(Sources(v, a)') \in Nat /\ Total(out) \in Nat
      /\ Holdings[v] \in Nat
  BY <1>1, <1>4, <1>5, Totals, AccountSets DEF Holders
<1>8. Total(out) <= Holdings[v] + Total(Sources(v, a)')
  <2> HIDE DEF out
  <2> QED
    BY ONLY <1>2, <1>6, <1>7
<1> QED
  BY <1>3, <1>8 DEF Sure, Total

\* What is executed opens and closes the accounts that it says.
LEMMA VaultsExecute ==
    ASSUME TypeOK, VaultsInv, NEW f \in Fulfillments, Execute(f)
    PROVE  VaultsInv'
<1>1. outcome[f] = "none" /\ \A g \in Fulfillments \ {f} : outcome'[g] = outcome[g]
  BY DEF Execute, TypeOK
<1>2. \A g \in Fulfillments : Succeeded(g) => Succeeded(g)'
  BY <1>1 DEF Succeeded
<1>3. CASE ~Executable(f)
  <2>1. vault' = vault
    BY <1>3 DEF Execute
  <2> QED
    BY <1>2, <2>1 DEF VaultsInv
<1>4. CASE Executable(f)
  <2>1. Succeeded(f)'
    BY <1>4 DEF Execute, Succeeded, TypeOK
  <2>2. vault' = CASE Type[f] = "Initialize" -> [vault EXCEPT ![Source[f]] = "open"]
                   [] Type[f] \in Closing -> [vault EXCEPT ![Source[f]] = "closed"]
                   [] OTHER -> vault
    BY <1>4 DEF Execute, Closing
  <2> SUFFICES ASSUME NEW v \in Accounts
               PROVE  /\ v \in Opened => vault'[v] # "absent"
                      /\ vault'[v] # "absent" /\ v \notin Opened =>
                            \E g \in Fulfillments : Type[g] = "Initialize" /\ Source[g] = v /\ Succeeded(g)'
                      /\ vault'[v] = "closed" =>
                            \E g \in Fulfillments : Type[g] \in Closing /\ Source[g] = v /\ Succeeded(g)'
    BY DEF VaultsInv
  <2>3. CASE vault'[v] = vault[v]
    BY <1>2, <2>3 DEF VaultsInv
  <2>4. CASE vault'[v] # vault[v]
    <3>1. v = Source[f]
      BY <2>2, <2>4 DEF TypeOK
    <3>2. CASE Type[f] = "Initialize"
      <4>1. vault'[v] = "open"
        BY <2>2, <3>1, <3>2 DEF TypeOK, Closing
      <4>2. \E g \in Fulfillments : Type[g] = "Initialize" /\ Source[g] = v /\ Succeeded(g)'
        BY <2>1, <3>1, <3>2
      <4> QED
        BY <4>1, <4>2
    <3>3. CASE Type[f] # "Initialize" /\ Type[f] \in Closing
      <4>1. vault'[v] = "closed"
        BY <2>2, <3>1, <3>3 DEF TypeOK
      <4>2. vault[v] # "absent"
        BY <1>4, <3>1, <3>3, AccountSets DEF Executable, IsOpen, Closing
      <4>3. v \notin Opened =>
              \E g \in Fulfillments : Type[g] = "Initialize" /\ Source[g] = v /\ Succeeded(g)'
        BY <1>2, <4>2 DEF VaultsInv
      <4> QED
        BY <2>1, <3>1, <3>3, <4>1, <4>3
    <3>4. CASE Type[f] # "Initialize" /\ Type[f] \notin Closing
      BY <2>2, <2>4, <3>4
    <3> QED
      BY <3>2, <3>3, <3>4
  <2> QED
    BY <2>3, <2>4
<1> QED
  BY <1>3, <1>4

\* After a failure nothing is promised.
LEMMA FailedStays ==
    ASSUME TypeOK, BooksInv, ~Clean, VaultsInv',
           NEW f \in Fulfillments, outcome[f] = "none",
           \A g \in Fulfillments \ {f} : outcome'[g] = outcome[g]
    PROVE  BooksInv'
<1>1. PICK g \in Fulfillments : outcome[g] \notin {"none", "done"}
  BY DEF Clean
<1>2. PICK h \in Faulty : outcome[h] = "failed"
  BY <1>1 DEF BooksInv, NoTransactionFails
<1>3. h \in Fulfillments /\ h # f /\ g # f
  BY <1>1, <1>2, SequencerBounds
<1>4. outcome'[h] = "failed" /\ outcome'[g] \notin {"none", "done"}
  BY <1>1, <1>2, <1>3
<1>5. ~Clean' /\ NoTransactionFails'
  BY <1>2, <1>4 DEF Clean, NoTransactionFails
<1> QED
  BY <1>5 DEF BooksInv

LEMMA BooksExecute ==
    ASSUME TypeOK, PlacedInv, StatesInv, PlanInv, BooksInv, NEW f \in Fulfillments, Execute(f)
    PROVE  BooksInv'
<1>1. NextOne(f)
  BY DEF Execute, NextOne
<1>2. VaultsInv /\ VaultsInv'
  BY VaultsExecute DEF BooksInv
<1>3. CASE ~Clean
  <2>1. outcome[f] = "none" /\ \A g \in Fulfillments \ {f} : outcome'[g] = outcome[g]
    BY DEF Execute, TypeOK
  <2> QED
    BY <1>2, <1>3, <2>1, FailedStays
<1>4. CASE Clean
  <2>1. \A v \in Accounts : BalanceInv(v) /\ SureInv(v)
    BY <1>4 DEF BooksInv
  <2>2. /\ Executable(f)
        /\ Moved(f) = IF Type[f] \in {"Initialize", "CloseEmpty"} THEN 0 ELSE Quantity[ActionOf[f]]
    BY <1>1, <1>2, <1>4, <2>1, Executes
  <2>3. Quantity[ActionOf[f]] \in Nat
    BY Fields
  <2>4. Moved(f) >= Quantity[ActionOf[f]] \/ Type[f] \in {"Initialize", "CloseEmpty"}
    BY <2>2, <2>3
  <2>5. outcome' = [outcome EXCEPT ![f] = "done"]
    BY <2>2, <2>4 DEF Execute
  <2>6. balance' = [w \in Holders |-> balance[w] + (IF w = Destination[f] THEN Moved(f) ELSE 0)
                                                 - (IF w = Source[f] THEN Moved(f) ELSE 0)]
    BY <2>2 DEF Execute
  <2>7. UNCHANGED <<intentId, actionState, ful>>
    BY DEF Execute, recordVars
  <2>8. Counted' = Counted /\ \A g \in Fulfillments : InFlight(g)' <=> InFlight(g)
    BY <2>7 DEF Counted, InFlight
  <2>9. ASSUME NEW v \in Accounts PROVE BalanceInv(v)' /\ SureInv(v)'
    <3>1. v \in Holders
      BY DEF Holders
    <3>2. DoneTo(v) \subseteq DoneTo(v)'
      BY <1>1, <2>5, <3>1, DoneMore DEF NextOne, TypeOK
    <3>3. SureInv(v)'
      <4>1. OutOf(v)' = OutOf(v) /\ \A g \in OutOf(v) : g \in Fulfillments /\ ActionOf[g] \in Actions
        BY Fields DEF OutOf
      <4>2. ASSUME NEW g \in OutOf(v), InFlight(g)' PROVE Sure(v, ActionOf[g])'
        <5>1. Sure(v, ActionOf[g])
          BY <2>1, <2>8, <4>1, <4>2 DEF SureInv
        <5> QED
          BY <2>7, <2>8, <3>2, <4>1, <5>1, SureKept
      <4> QED
        BY <4>1, <4>2 DEF SureInv
    <3>4. BalanceInv(v)'
      BY <1>1, <2>1, <2>2, <2>5, <2>6, <2>7, BalanceStep DEF NextOne
    <3> QED
      BY <3>3, <3>4
  <2>10. Clean'
    BY <1>4, <2>5 DEF Clean, TypeOK
  <2>11. NoTransactionFails'
    BY <2>10 DEF Clean, NoTransactionFails
  <2> QED
    BY <1>2, <2>9, <2>11 DEF BooksInv
<1> QED
  BY <1>3, <1>4

LEMMA BooksFault ==
    ASSUME TypeOK, BooksInv, NEW f \in Fulfillments, Fault(f)
    PROVE  BooksInv'
<1>1. /\ outcome[f] = "none" /\ f \in Faulty /\ outcome'[f] = "failed" /\ UNCHANGED vault
      /\ \A g \in Fulfillments \ {f} : outcome'[g] = outcome[g]
  BY DEF Fault, TypeOK
<1>2. \A g \in Fulfillments : Succeeded(g) => Succeeded(g)'
  BY <1>1 DEF Succeeded
<1>3. VaultsInv'
  BY <1>1, <1>2 DEF BooksInv, VaultsInv
<1>4. ~Clean' /\ NoTransactionFails'
  BY <1>1 DEF Clean, NoTransactionFails
<1> QED
  BY <1>3, <1>4 DEF BooksInv

\* The steps that leave the blockchain alone: what goes on its way has the funds.
LEMMA BooksFrame ==
    ASSUME BooksInv, UNCHANGED <<outcome, vault, balance, intentId>>, Counted' = Counted,
           \A v \in Accounts : \A f \in OutOf(v) :
               Clean /\ InFlight(f)' /\ ~InFlight(f) => Sure(v, ActionOf[f])
    PROVE  BooksInv'
<1>1. VaultsInv' /\ NoTransactionFails' /\ (Clean' <=> Clean)
  BY DEF BooksInv, VaultsInv, Succeeded, Clean, NoTransactionFails
<1>2. ASSUME Clean, NEW v \in Accounts PROVE BalanceInv(v)' /\ SureInv(v)'
  <2>1. DoneTo(v)' = DoneTo(v) /\ DoneFrom(v)' = DoneFrom(v)
    BY DEF DoneTo, DoneFrom, Into, OutOf
  <2>2. BalanceInv(v) /\ SureInv(v)
    BY <1>2 DEF BooksInv
  <2>3. OutOf(v)' = OutOf(v) /\ \A f \in OutOf(v) : ActionOf[f] \in Actions
    BY Fields DEF OutOf
  <2>4. ASSUME NEW f \in OutOf(v), InFlight(f)' PROVE Sure(v, ActionOf[f])'
    <3>1. Sure(v, ActionOf[f])
      BY <1>2, <2>2, <2>4 DEF SureInv
    <3> QED
      BY <2>1, <2>3, <3>1, SureKept
  <2>5. SureInv(v)'
    BY <2>3, <2>4 DEF SureInv
  <2>6. BalanceInv(v)'
    BY <2>1, <2>2 DEF BalanceInv, NotAfter, Ahead
  <2> QED
    BY <2>5, <2>6
<1> QED
  BY <1>1, <1>2 DEF BooksInv

\* The scheduler lets a payment through when all that it counts on has arrived.
LEMMA ScheduledSure ==
    ASSUME TypeOK, PlacedInv, StatesInv, PlanInv, Clean,
           NEW v \in Accounts, NEW f \in OutOf(v), Polled(f), CanSubmit(f)
    PROVE  Sure(v, ActionOf[f])
<1> DEFINE a == ActionOf[f]
           in == {b \in Counted : Ahead(b, a)} \cap ActionsTo[v]
           out == {b \in Counted : NotAfter(b, a)} \cap ActionsFrom[v]
<1>1. f \in Fulfillments /\ Source[f] = v /\ v \in Holders /\ a \in Actions
  BY Fields DEF OutOf, Holders
<1>2. Counts(f) /\ a \in ActionsFrom[v]
  BY <1>1, Payments DEF Polled, Counts, Counted
<1>3. After(v, a) >= 0
  BY <1>2 DEF PlanInv, FundsPlan, Counts
<1>4. Type[f] \in {"Transfer", "Withdraw", "Temporary", "CloseDormant"}
  BY <1>1, Fields DEF OutOf, FulfillmentTypes
<1>5. ~EarlierInto(v, f)
  BY <1>1, <1>4 DEF CanSubmit
<1>6. ASSUME NEW b \in in, DormantAction(b) PROVE b \in DoneTo(v)
  <2>1. PICK d \in Into(v) : ActionOf[d] = b
    BY <1>1, Payments
  <2>2. d \in Fulfillments /\ IsDormant(d) /\ Counts(d) /\ Destination[d] = v
    BY <1>6, <2>1, DormantOne DEF Into, Counts
  <2>3. Placed(d) /\ Placed(f)
    BY <1>1, <1>2, <2>2 DEF PlanInv, DormantPlan, Placed
  <2>4. Before(d, f)
    BY <1>1, <2>1, <2>2, <2>3, AheadBefore
  <2>5. ~Schedulable(d)
    BY <1>5, <2>2, <2>4 DEF EarlierInto, IsDormant
  <2>6. ful[d] \notin {"None", "Revoked"}
    <3>1. actionState[ActionOf[d]] \notin {"None", "Revoked"} /\ ActionOf[d] \in Actions
      BY <2>2 DEF Counts, Counted
    <3> QED
      BY <2>2, <3>1 DEF StatesInv, Saved
  <2>7. ful[d] \in FulfillmentStates
    BY <2>2 DEF TypeOK
  <2>8. outcome[d] = "done"
    BY <2>2, <2>5, <2>6, <2>7 DEF Schedulable, FulfillmentStates, PlacedInv, StateInv, Clean
  <2> QED
    BY <2>1, <2>8 DEF DoneTo
<1>7. in = Sources(v, a)
  BY <1>6 DEF Sources
<1>8. Total(in) \in Nat /\ Total(out) \in Nat /\ Holdings[v] \in Nat
  BY <1>1, Payments, Totals, AccountSets DEF Holders
<1>9. Holdings[v] + Total(in) - Total(out) >= 0
  BY <1>3 DEF After
<1>10. Total(out) <= Holdings[v] + Total(in)
  <2> HIDE DEF in, out
  <2> QED
    BY ONLY <1>8, <1>9
<1> QED
  BY <1>7, <1>10 DEF Sure

(***************************************************************************)
(* Submission.                                                             *)
(***************************************************************************)

\* The actions of an intent that count as soon as it is submitted.
New(i) == {a \in ActionsOf[i] : ActionType[a] # "CloseDormantAccount"}

\* They come after all that count before.
LEMMA SubmitOrder ==
    ASSUME SeqInv, PlacedInv, StatesInv, NEW i \in Intents, SubmitIntent(i)
    PROVE  /\ Counted' = Counted \cup New(i) /\ New(i) \subseteq Actions
           /\ \A a \in Counted : IntentOf[a] # i /\ Submitted(IntentOf[a])
           /\ \A a, b \in Counted : Ahead(a, b)' <=> Ahead(a, b)
           /\ \A a \in Counted, b \in New(i) : Ahead(a, b)' /\ ~Ahead(b, a)'
           /\ \A a, b \in New(i) : Ahead(a, b)' <=> ActionId[a] < ActionId[b]
<1> DEFINE before == {j \in Intents : Submitted(j)}
           count == Cardinality(before)
<1>1. ~Submitted(i) /\ intentId' = [intentId EXCEPT ![i] = count + 1]
  BY DEF SubmitIntent
<1>2. intentId \in [Intents -> 0 .. Cardinality(Intents)] /\ Cardinality(Intents) \in Nat
  BY SomeDecide, FS_CardinalityType DEF SeqInv, TypeOK
<1>3. count \in Nat
  BY SomeDecide, FS_Subset, FS_CardinalityType
<1>4. \A j \in Intents : intentId[j] \in Nat /\ intentId[j] <= count
  BY <1>2 DEF PlacedInv
<1> HIDE DEF before, count
<1>5. \A j \in Intents : intentId'[j] = IF j = i THEN count + 1 ELSE intentId[j]
  BY <1>1, <1>2
<1>6. \A a \in Actions : IntentOf[a] \in Intents /\ ActionId[a] \in Nat
  BY Records
<1>7. \A a \in New(i) : a \in Actions /\ IntentOf[a] = i /\ ~DormantAction(a)
  BY DEF New, ActionsOf, DormantAction
<1>8. \A a \in Counted : a \in Actions /\ IntentOf[a] # i /\ Submitted(IntentOf[a])
  BY <1>1 DEF Counted, StatesInv
<1>9. Counted' = Counted \cup New(i)
  <2>1. \A a \in Actions : actionState'[a] = IF IntentOf[a] # i THEN actionState[a]
                                             ELSE IF DormantAction(a) THEN "Unknown" ELSE "Pending"
    BY DEF SubmitIntent, DormantAction
  <2>2. ASSUME NEW a \in Actions PROVE a \in Counted' <=> a \in Counted \/ a \in New(i)
    <3>1. CASE IntentOf[a] # i
      BY <1>7, <2>1, <3>1 DEF Counted
    <3>2. CASE IntentOf[a] = i
      BY <1>8, <2>1, <3>2 DEF Counted, New, ActionsOf, DormantAction
    <3> QED
      BY <3>1, <3>2
  <2> QED
    BY <1>7, <1>8, <2>2 DEF Counted
<1>10. \A a, b \in Counted : Ahead(a, b)' <=> Ahead(a, b)
  BY <1>5, <1>6, <1>8 DEF Ahead, DormantAction
<1>11. \A a \in Counted, b \in New(i) : intentId'[IntentOf[a]] < intentId'[IntentOf[b]]
  BY <1>3, <1>4, <1>5, <1>6, <1>7, <1>8
<1>12. \A a \in Counted, b \in New(i) : intentId'[IntentOf[a]] \in Int /\ intentId'[IntentOf[b]] \in Int
  BY <1>3, <1>4, <1>5, <1>6, <1>7, <1>8
<1>13. \A a \in Counted, b \in New(i) : Ahead(a, b)' /\ ~Ahead(b, a)'
  BY <1>11, <1>12 DEF Ahead
<1>14. \A a, b \in New(i) : Ahead(a, b)' <=> ActionId[a] < ActionId[b]
  BY <1>3, <1>5, <1>7 DEF Ahead, DormantAction
<1> QED
  BY <1>7, <1>8, <1>9, <1>10, <1>13, <1>14

\* A new intent uses no dormant account that is being closed, and does not close
\* the account that gets what was in one.
SparesDormant(i) == \A f \in FulfillmentsOf[i], d \in Fulfillments :
    ~IsDormant(f) /\ IsDormant(d) /\ Counts(d) =>
        ~Uses(f, Source[d]) /\ (Closes(f) => ~Uses(d, Source[f]))

LEMMA StatesSubmit ==
    ASSUME SeqInv, PlacedInv, StatesInv, NEW i \in Intents, SubmitIntent(i)
    PROVE  StatesInv'
<1>1. /\ ~Submitted(i)
      /\ intentId' = [intentId EXCEPT ![i] = Cardinality({j \in Intents : Submitted(j)}) + 1]
      /\ ful' = [f \in Fulfillments |-> IF f \in FulfillmentsOf[i] THEN "Unknown" ELSE ful[f]]
  BY DEF SubmitIntent
<1>2. \A j \in Intents : Submitted(j)' <=> (j = i \/ Submitted(j))
  <2> DEFINE count == Cardinality({j \in Intents : Submitted(j)})
  <2>1. count \in Nat
    BY SomeDecide, FS_Subset, FS_CardinalityType
  <2>2. intentId \in [Intents -> 0 .. Cardinality(Intents)]
    BY DEF SeqInv, TypeOK
  <2> HIDE DEF count
  <2>3. \A j \in Intents : intentId'[j] = IF j = i THEN count + 1 ELSE intentId[j]
    BY <1>1, <2>2 DEF count
  <2> QED
    BY <2>1, <2>3 DEF Submitted
<1>3. \A a \in Actions : actionState'[a] = IF IntentOf[a] # i THEN actionState[a]
                                           ELSE IF DormantAction(a) THEN "Unknown" ELSE "Pending"
  BY DEF SubmitIntent, DormantAction
<1>4. \A a \in Actions : /\ actionState'[a] = "None" <=> ~Submitted(IntentOf[a])'
                         /\ actionState'[a] = "Revoked" => DormantAction(a)'
  BY <1>2, <1>3, Records DEF StatesInv, DormantAction
<1>5. ASSUME NEW f \in Fulfillments
      PROVE  /\ ful'[f] = "None" <=> ~Saved(f)'
             /\ ful'[f] = "Revoked" => actionState'[ActionOf[f]] = "Revoked"
             /\ InFlight(f)' => Counts(f)'
  <2>1. IntentOf[ActionOf[f]] \in Intents /\ ActionOf[f] \in Actions
    BY Fields
  <2>2. CASE IntentOf[ActionOf[f]] = i
    <3>1. ful'[f] = "Unknown"
      BY <1>1, <2>2 DEF FulfillmentsOf
    <3> QED
      BY <1>2, <2>1, <2>2, <3>1 DEF Saved, InFlight
  <2>3. CASE IntentOf[ActionOf[f]] # i
    <3>1. ful'[f] = ful[f] /\ actionState'[ActionOf[f]] = actionState[ActionOf[f]]
      BY <1>1, <1>3, <2>1, <2>3 DEF FulfillmentsOf
    <3>2. Saved(f)' <=> Saved(f)
      BY <1>2, <2>1, <2>3 DEF Saved
    <3>3. Counts(f) => Counts(f)'
      BY SubmitOrder DEF Counts
    <3> QED
      BY <3>1, <3>2, <3>3 DEF StatesInv, InFlight
  <2> QED
    BY <2>2, <2>3
<1> QED
  BY <1>4, <1>5 DEF StatesInv

\* A fulfillment counts before, or is one of the new intent.
LEMMA SubmitCounts ==
    ASSUME SeqInv, PlacedInv, StatesInv, NEW i \in Intents, SubmitIntent(i), NEW f \in Fulfillments
    PROVE  /\ Counts(f)' => Counts(f) \/ (ActionOf[f] \in New(i) /\ f \in FulfillmentsOf[i] /\ ~IsDormant(f))
           /\ Counts(f) => Submitted(IntentOf[ActionOf[f]]) /\ f \notin FulfillmentsOf[i]
           /\ Saved(f)' <=> Saved(f) \/ f \in FulfillmentsOf[i]
           /\ f \in FulfillmentsOf[i] /\ ~IsDormant(f) => ActionOf[f] \in New(i)
<1>1. ActionOf[f] \in Actions /\ IntentOf[ActionOf[f]] \in Intents
  BY Fields
<1>2. f \in FulfillmentsOf[i] <=> IntentOf[ActionOf[f]] = i
  BY DEF FulfillmentsOf
<1>3. ActionOf[f] \in New(i) <=> IntentOf[ActionOf[f]] = i /\ ~IsDormant(f)
  BY <1>1, DormantOne DEF New, ActionsOf, DormantAction
<1>4. Counts(f)' => Counts(f) \/ ActionOf[f] \in New(i)
  BY SubmitOrder DEF Counts
<1>5. Counts(f) => Submitted(IntentOf[ActionOf[f]]) /\ IntentOf[ActionOf[f]] # i
  BY SubmitOrder DEF Counts
<1>6. Saved(f)' <=> Saved(f) \/ f \in FulfillmentsOf[i]
  <2>1. ful'[f] = IF f \in FulfillmentsOf[i] THEN "Unknown" ELSE ful[f]
    BY DEF SubmitIntent
  <2>2. (ful[f] = "None" <=> ~Saved(f)) /\ (ful'[f] = "None" <=> ~Saved(f)')
    BY StatesSubmit DEF StatesInv
  <2> QED
    BY <2>1, <2>2
<1> QED
  BY <1>2, <1>3, <1>4, <1>5, <1>6

LEMMA FundsSubmit ==
    ASSUME SeqInv, PlacedInv, StatesInv, PlanInv, NEW i \in Intents, SubmitIntent(i)
    PROVE  FundsPlan'
<1> SUFFICES ASSUME NEW v \in Accounts, NEW a \in Counted' \cap ActionsFrom[v]
             PROVE  After(v, a)' >= 0
  BY DEF FundsPlan
<1>order. /\ Counted' = Counted \cup New(i) /\ New(i) \subseteq Actions
          /\ \A b, c \in Counted : Ahead(b, c)' <=> Ahead(b, c)
          /\ \A b \in Counted, c \in New(i) : Ahead(b, c)' /\ ~Ahead(c, b)'
          /\ \A b, c \in New(i) : Ahead(b, c)' <=> ActionId[b] < ActionId[c]
  BY SubmitOrder
<1> DEFINE in == {b \in Counted' : Ahead(b, a)'} \cap ActionsTo[v]
           out == {b \in Counted' : ~Ahead(a, b)'} \cap ActionsFrom[v]
<1>1. After(v, a)' = Holdings[v] + Total(in) - Total(out)
  BY DEF After, NotAfter, Total
<1>2. CASE a \in Counted
  <2>1. {b \in Counted' : Ahead(b, a)'} = {b \in Counted : Ahead(b, a)}
    BY <1>order, <1>2
  <2>2. {b \in Counted' : ~Ahead(a, b)'} = {b \in Counted : ~Ahead(a, b)}
    BY <1>order, <1>2
  <2>3. After(v, a) = Holdings[v] + Total(in) - Total(out)
    BY <2>1, <2>2 DEF After, NotAfter
  <2>4. After(v, a) >= 0
    BY <1>2 DEF PlanInv, FundsPlan
  <2> QED
    BY <1>1, <2>3, <2>4
<1>3. CASE a \notin Counted
  <2>1. a \in New(i)
    BY <1>order, <1>3
  <2> DEFINE received == {b \in New(i) : ActionId[b] < ActionId[a]}
             sent == {b \in New(i) : ActionId[b] <= ActionId[a]}
  <2>2. {b \in Counted' : Ahead(b, a)'} = Counted \cup received
    BY <1>order, <2>1
  <2>3. {b \in Counted' : ~Ahead(a, b)'} = Counted \cup sent
    <3>1. \A b \in New(i) : ActionId[a] \in Int /\ ActionId[b] \in Int
      BY <1>order, <2>1, Records
    <3>2. \A b \in New(i) : ~Ahead(a, b)' <=> ActionId[b] <= ActionId[a]
      BY <1>order, <2>1, <3>1
    <3> QED
      BY <1>order, <2>1, <3>2
  <2>4. CachedBalance(v, received, sent) >= 0
    BY <2>1 DEF SubmitIntent, Funded, New
  <2>5. CachedBalance(v, received, sent) = Holdings[v] + Total(in) - Total(out)
    <3>1. in = (Counted \cup received) \cap ActionsTo[v] /\ out = (Counted \cup sent) \cap ActionsFrom[v]
      BY <2>2, <2>3
    <3> HIDE DEF in, out, received, sent
    <3> QED
      BY <3>1 DEF CachedBalance, Total
  <2> QED
    BY <1>1, <2>4, <2>5
<1> QED
  BY <1>2, <1>3

LEMMA CloseSubmit ==
    ASSUME SeqInv, PlacedInv, StatesInv, PlanInv, NEW i \in Intents, SubmitIntent(i), SparesDormant(i)
    PROVE  ClosePlan'
<1> SUFFICES ASSUME NEW f \in Fulfillments, Counts(f)', Type[f] \in Closing
             PROVE  AtEnd(Source[f])' = 0
  BY DEF ClosePlan
<1> DEFINE v == Source[f]
<1>order. Counted' = Counted \cup New(i)
  BY SubmitOrder
<1>v. v \in Holders
  BY Fields
<1>1. AtEnd(v)' = Holdings[v] + Total((Counted \cup New(i)) \cap ActionsTo[v])
                              - Total((Counted \cup New(i)) \cap ActionsFrom[v])
  BY <1>order DEF AtEnd, Total
<1>2. CASE Counts(f)
  <2>1. ASSUME NEW g \in FulfillmentsOf[i], ~IsDormant(g), Uses(g, v) PROVE FALSE
    <3>1. g \in Fulfillments /\ g # f /\ Submitted(IntentOf[ActionOf[f]])
      BY <1>2, <2>1, SubmitCounts DEF FulfillmentsOf
    <3>2. CASE IsDormant(f)
      BY <1>2, <2>1, <3>2 DEF SparesDormant
    <3>3. CASE ~IsDormant(f)
      <4>1. Closes(f) /\ v \in {Source[g], Destination[g]}
        BY <2>1, <3>3 DEF Closing, Closes, IsDormant, Uses
      <4>2. KeepsClosed(i)
        BY DEF SubmitIntent
      <4> QED
        BY <2>1, <3>1, <4>1, <4>2 DEF KeepsClosed
    <3> QED
      BY <3>2, <3>3
  <2>2. ASSUME NEW g \in Fulfillments, ActionOf[g] \in New(i)
        PROVE  g \in FulfillmentsOf[i] /\ ~IsDormant(g)
    BY <2>2, DormantOne DEF New, ActionsOf, FulfillmentsOf, DormantAction
  <2>3. New(i) \cap ActionsTo[v] = {} /\ New(i) \cap ActionsFrom[v] = {}
    BY <1>v, <2>1, <2>2, Payments DEF Into, OutOf, Uses
  <2>4. /\ (Counted \cup New(i)) \cap ActionsTo[v] = Counted \cap ActionsTo[v]
        /\ (Counted \cup New(i)) \cap ActionsFrom[v] = Counted \cap ActionsFrom[v]
    BY <2>3
  <2>5. AtEnd(v) = 0
    BY <1>2 DEF PlanInv, ClosePlan
  <2> QED
    BY <1>1, <2>4, <2>5 DEF AtEnd
<1>3. CASE ~Counts(f)
  <2>1. f \in FulfillmentsOf[i] /\ ~IsDormant(f)
    BY <1>3, SubmitCounts
  <2>2. Closes(f)
    BY <2>1 DEF Closing, Closes, IsDormant
  <2>3. Funded(i)
    BY DEF SubmitIntent
  <2>4. CachedBalance(v, New(i), New(i)) = 0
    BY <2>1, <2>2, <2>3 DEF Funded, New
  <2> QED
    BY <1>1, <2>4 DEF CachedBalance, Total
<1> QED
  BY <1>2, <1>3

LEMMA UseSubmit ==
    ASSUME SeqInv, PlacedInv, StatesInv, PlanInv, NEW i \in Intents, SubmitIntent(i), SparesDormant(i)
    PROVE  UsePlan'
<1> SUFFICES ASSUME NEW f \in Fulfillments, NEW g \in Fulfillments, Counts(f)', Counts(g)', f # g,
                    Type[g] \in Closing, Uses(f, Source[g])
             PROVE  Ahead(ActionOf[f], ActionOf[g])'
  BY DEF UsePlan, Uses
<1>1. CASE Counts(f) /\ Counts(g)
  BY <1>1, SubmitOrder DEF PlanInv, UsePlan, Counts
<1>2. CASE Counts(f) /\ ~Counts(g)
  BY <1>2, SubmitOrder, SubmitCounts DEF Counts
<1>3. CASE ~Counts(f)
  <2>1. ActionOf[f] \in New(i) /\ f \in FulfillmentsOf[i] /\ ~IsDormant(f)
    BY <1>3, SubmitCounts
  <2>2. ~IsDormant(g)
    <3> SUFFICES ASSUME IsDormant(g) PROVE FALSE
      OBVIOUS
    <3>1. Counts(g)
      BY SubmitCounts
    <3> QED
      BY <2>1, <3>1 DEF SparesDormant
  <2>3. Closes(g) /\ Source[g] \in {Source[f], Destination[f]}
    BY <2>2 DEF Closing, Closes, IsDormant, Uses
  <2>4. /\ ~Submitted(IntentOf[ActionOf[g]])
        /\ IntentOf[ActionOf[g]] = i => ActionId[ActionOf[f]] < ActionId[ActionOf[g]]
    <3>1. KeepsClosed(i)
      BY DEF SubmitIntent
    <3> QED
      BY <2>1, <2>3, <3>1 DEF KeepsClosed
  <2>5. ActionOf[g] \in New(i) /\ IntentOf[ActionOf[g]] = i
    BY <2>4, SubmitCounts DEF FulfillmentsOf
  <2> QED
    BY <2>1, <2>4, <2>5, SubmitOrder
<1> QED
  BY <1>1, <1>2, <1>3

LEMMA OpenSubmit ==
    ASSUME SeqInv, PlacedInv, StatesInv, PlanInv, NEW i \in Intents, SubmitIntent(i), SparesDormant(i)
    PROVE  OpenPlan' /\ KnownPlan' /\ DormantPlan'
<1>1. ASSUME NEW f \in Fulfillments, Saved(f)', Type[f] = "Initialize"
      PROVE  /\ Source[f] \notin Opened
             /\ \A g \in Fulfillments : Saved(g)' /\ Type[g] = "Initialize" /\ Source[g] = Source[f] => g = f
  <2>1. OpensNew(i)
    BY DEF SubmitIntent
  <2>2. \A g \in Fulfillments : Saved(g)' => Saved(g) \/ g \in FulfillmentsOf[i]
    BY SubmitCounts
  <2>3. \A g \in FulfillmentsOf[i] : IntentOf[ActionOf[g]] = i
    BY DEF FulfillmentsOf
  <2> QED
    BY <1>1, <2>1, <2>2, <2>3 DEF OpensNew, PlanInv, OpenPlan, Saved
<1>2. ASSUME NEW f \in Fulfillments, Saved(f)', Type[f] = "CloseEmpty", Source[f] \notin Opened
      PROVE  \E g \in Fulfillments : /\ Saved(g)' /\ Type[g] = "Initialize" /\ Source[g] = Source[f]
                                     /\ Ahead(ActionOf[g], ActionOf[f])'
  <2>1. \A g \in Fulfillments : Saved(g) => Saved(g)'
    BY SubmitCounts
  <2>2. \A g \in Fulfillments : Saved(g) /\ ~IsDormant(g) => ActionOf[g] \in Counted
    BY DormantOne, Fields DEF StatesInv, Saved, Counted, DormantAction
  <2>3. CASE Saved(f)
    <3>1. PICK g \in Fulfillments : /\ Saved(g) /\ Type[g] = "Initialize" /\ Source[g] = Source[f]
                                    /\ Ahead(ActionOf[g], ActionOf[f])
      BY <1>2, <2>3 DEF PlanInv, KnownPlan
    <3>2. ActionOf[g] \in Counted /\ ActionOf[f] \in Counted
      BY <1>2, <2>2, <2>3, <3>1 DEF IsDormant
    <3> QED
      BY <2>1, <3>1, <3>2, SubmitOrder
  <2>4. CASE ~Saved(f)
    <3>1. f \in FulfillmentsOf[i] /\ ~IsDormant(f) /\ ActionOf[f] \in New(i)
      BY <1>2, <2>4, SubmitCounts DEF IsDormant
    <3>2. Source[f] \in Accounts \ Opened
      BY <1>2, OpenedAndClosed
    <3>3. Known(i)
      BY DEF SubmitIntent
    <3>4. PICK g \in Fulfillments :
              /\ Type[g] = "Initialize" /\ Source[g] = Source[f]
              /\ \/ Submitted(IntentOf[ActionOf[g]])
                 \/ /\ IntentOf[ActionOf[g]] = i
                    /\ g = f \/ ActionId[ActionOf[g]] < ActionId[ActionOf[f]]
      BY <3>1, <3>2, <3>3 DEF Known
    <3>5. CASE Submitted(IntentOf[ActionOf[g]])
      <4>1. ActionOf[g] \in Counted
        BY <2>2, <3>4, <3>5 DEF Saved, IsDormant
      <4> QED
        BY <2>1, <3>1, <3>4, <3>5, <4>1, SubmitOrder DEF Saved
    <3>6. CASE IntentOf[ActionOf[g]] = i /\ ActionId[ActionOf[g]] < ActionId[ActionOf[f]]
      <4>1. g \in FulfillmentsOf[i] /\ ~IsDormant(g)
        BY <3>4, <3>6 DEF FulfillmentsOf, IsDormant
      <4>2. ActionOf[g] \in New(i) /\ Saved(g)'
        BY <4>1, SubmitCounts
      <4>3. Ahead(ActionOf[g], ActionOf[f])'
        BY <3>1, <3>6, <4>2, SubmitOrder
      <4> QED
        BY <3>4, <4>2, <4>3
    <3> QED
      BY <1>2, <3>4, <3>5, <3>6
  <2> QED
    BY <2>3, <2>4
<1>3. ASSUME NEW f \in Fulfillments, IsDormant(f), Counts(f)'
      PROVE  /\ f \in presorted'
             /\ \A g \in Fulfillments \ {f} : Counts(g)' /\ Type[g] \in Closing => ~Uses(f, Source[g])
  <2>1. Counts(f)
    BY <1>3, SubmitCounts
  <2>2. f \in presorted'
    BY <1>3, <2>1 DEF SubmitIntent, PlanInv, DormantPlan
  <2>3. ASSUME NEW g \in Fulfillments \ {f}, Counts(g)', Type[g] \in Closing PROVE ~Uses(f, Source[g])
    <3>1. CASE Counts(g)
      BY <1>3, <2>1, <2>3, <3>1 DEF PlanInv, DormantPlan
    <3>2. CASE ~Counts(g)
      <4>1. g \in FulfillmentsOf[i] /\ ~IsDormant(g)
        BY <2>3, <3>2, SubmitCounts
      <4>2. Closes(g)
        BY <2>3, <4>1 DEF Closing, Closes, IsDormant
      <4> QED
        BY <1>3, <2>1, <4>1, <4>2 DEF SparesDormant
    <3> QED
      BY <3>1, <3>2
  <2> QED
    BY <2>2, <2>3
<1>4. OpenPlan'
  BY <1>1 DEF OpenPlan
<1>5. KnownPlan'
  BY <1>2 DEF KnownPlan
<1>6. DormantPlan'
  BY <1>3 DEF DormantPlan, IsDormant, Uses
<1> QED
  BY <1>4, <1>5, <1>6

LEMMA PlanKept ==
    ASSUME PlanInv, intentId' = intentId, Counted' = Counted, presorted \subseteq presorted'
    PROVE  PlanInv'
<1>1. \A a, b : (Ahead(a, b)' <=> Ahead(a, b)) /\ (NotAfter(a, b)' <=> NotAfter(a, b))
  BY DEF Ahead, NotAfter, DormantAction
<1>2. \A v, a : After(v, a)' = After(v, a)
  BY <1>1 DEF After, Total
<1>3. \A v : AtEnd(v)' = AtEnd(v)
  BY DEF AtEnd, Total
<1>4. FundsPlan' /\ ClosePlan'
  BY <1>2, <1>3 DEF PlanInv, FundsPlan, ClosePlan, Counts
<1>5. UsePlan'
  BY <1>1 DEF PlanInv, UsePlan, Counts, Uses
<1>6. OpenPlan' /\ KnownPlan'
  BY <1>1 DEF PlanInv, OpenPlan, KnownPlan, Saved, Submitted
<1>7. DormantPlan'
  BY DEF PlanInv, DormantPlan, IsDormant, Counts, Uses
<1> QED
  BY <1>4, <1>5, <1>6, <1>7 DEF PlanInv

LEMMA StatesSchedule ==
    ASSUME TypeOK, StatesInv, NEW f \in Fulfillments, Schedule(f)
    PROVE  StatesInv' /\ Counted' = Counted
<1>1. /\ ful[f] = "Unknown" /\ Counts(f) /\ UNCHANGED <<intentId, actionState>>
      /\ ful' = [ful EXCEPT ![f] = "Pending"]
  BY Fields DEF Schedule, Polled, Counts, Counted, recordVars
<1>2. Counted' = Counted
  BY <1>1 DEF Counted
<1>3. ful'[f] = "Pending" /\ \A g \in Fulfillments \ {f} : ful'[g] = ful[g]
  BY <1>1 DEF TypeOK
<1> QED
  BY <1>1, <1>2, <1>3 DEF StatesInv, Saved, Submitted, InFlight, Counts, DormantAction

LEMMA StatesRevokeAction ==
    ASSUME TypeOK, StatesInv, NEW f \in Fulfillments, RevokeAction(f)
    PROVE  StatesInv' /\ Counted' = Counted
<1> DEFINE a == ActionOf[f]
<1>1. /\ actionState[a] = "Unknown" /\ UNCHANGED <<intentId, ful>> /\ a \in Actions
      /\ actionState' = [actionState EXCEPT ![a] = "Revoked"]
  BY Fields DEF RevokeAction
<1>2. DormantAction(a)
  BY DormantOne DEF RevokeAction, IsRevoked
<1> HIDE DEF a
<1>3. actionState'[a] = "Revoked" /\ \A b \in Actions \ {a} : actionState'[b] = actionState[b]
  BY <1>1 DEF TypeOK
<1>4. Counted' = Counted
  BY <1>1, <1>2, <1>3 DEF Counted, DormantAction
<1>5. \A b \in Actions : /\ actionState'[b] = "None" <=> ~Submitted(IntentOf[b])'
                         /\ actionState'[b] = "Revoked" => DormantAction(b)'
  BY <1>1, <1>2, <1>3 DEF StatesInv, Submitted, DormantAction
<1>6. ASSUME NEW g \in Fulfillments
      PROVE  /\ ful'[g] = "None" <=> ~Saved(g)'
             /\ ful'[g] = "Revoked" => actionState'[ActionOf[g]] = "Revoked"
             /\ InFlight(g)' => Counts(g)'
  BY <1>1, <1>3, <1>4, Fields DEF StatesInv, Saved, Submitted, InFlight, Counts
<1> QED
  BY <1>4, <1>5, <1>6 DEF StatesInv

LEMMA StatesRevoke ==
    ASSUME TypeOK, StatesInv, NEW f \in Fulfillments, Revoke(f)
    PROVE  StatesInv' /\ Counted' = Counted /\ \A g \in Fulfillments : InFlight(g)' => InFlight(g)
<1>1. /\ ful[f] = "Unknown" /\ actionState[ActionOf[f]] = "Revoked" /\ UNCHANGED <<intentId, actionState>>
      /\ ful' = [ful EXCEPT ![f] = "Revoked"]
  BY DEF Revoke, recordVars
<1>2. Counted' = Counted
  BY <1>1 DEF Counted
<1>3. ful'[f] = "Revoked" /\ \A g \in Fulfillments \ {f} : ful'[g] = ful[g]
  BY <1>1 DEF TypeOK
<1> QED
  BY <1>1, <1>2, <1>3 DEF StatesInv, Saved, Submitted, InFlight, Counts, DormantAction

LEMMA StatesSettle ==
    ASSUME TypeOK, StatesInv, NEW f \in Fulfillments, ful[f] = "Pending", Settle(f)
    PROVE  StatesInv' /\ Counted' = Counted /\ \A g \in Fulfillments : InFlight(g)' => InFlight(g)
<1>1. /\ UNCHANGED <<intentId, actionState>>
      /\ ful' = [ful EXCEPT ![f] = IF Succeeded(f) THEN "Confirmed" ELSE "Failed"]
  BY DEF Settle, recordVars
<1>2. Counted' = Counted
  BY <1>1 DEF Counted
<1>3. ful'[f] \in {"Confirmed", "Failed"} /\ \A g \in Fulfillments \ {f} : ful'[g] = ful[g]
  BY <1>1 DEF TypeOK
<1> QED
  BY <1>1, <1>2, <1>3 DEF StatesInv, Saved, Submitted, InFlight, Counts, DormantAction

LEMMA StatesUpdateAction ==
    ASSUME TypeOK, StatesInv, NEW f \in Fulfillments, ful[f] = "Pending", UpdateAction(f)
    PROVE  StatesInv' /\ Counted' = Counted
<1> DEFINE a == ActionOf[f]
           new == IF ~Succeeded(f) THEN "Failed"
                  ELSE IF Type[f] = "Advance" THEN actionState[a] ELSE "Confirmed"
<1>1. a \in Actions /\ a \in Counted
  BY Fields DEF StatesInv, InFlight, Counts
<1>2. UNCHANGED <<intentId, ful>> /\ actionState' = [actionState EXCEPT ![a] = new]
  BY DEF UpdateAction
<1>3. new \in {"Failed", "Confirmed", actionState[a]}
  OBVIOUS
<1> HIDE DEF a, new
<1>4. actionState'[a] = new /\ \A b \in Actions \ {a} : actionState'[b] = actionState[b]
  BY <1>1, <1>2 DEF TypeOK
<1>5. actionState[a] \notin {"None", "Revoked"} /\ new \notin {"None", "Revoked"}
  BY <1>1, <1>3 DEF Counted
<1>6. a \in Counted'
  BY <1>1, <1>3, <1>4, <1>5 DEF Counted
<1>7. \A b \in Actions \ {a} : b \in Counted' <=> b \in Counted
  BY <1>4 DEF Counted
<1>8. Counted' = Counted
  BY <1>1, <1>6, <1>7 DEF Counted
<1>9. \A b \in Actions : /\ actionState'[b] = "None" <=> ~Submitted(IntentOf[b])'
                         /\ actionState'[b] = "Revoked" => DormantAction(b)'
  BY <1>2, <1>4, <1>5 DEF StatesInv, Submitted, DormantAction
<1>10. ASSUME NEW g \in Fulfillments
       PROVE  /\ ful'[g] = "None" <=> ~Saved(g)'
              /\ ful'[g] = "Revoked" => actionState'[ActionOf[g]] = "Revoked"
              /\ InFlight(g)' => Counts(g)'
  BY <1>2, <1>4, <1>5, <1>8, Fields DEF StatesInv, Saved, Submitted, InFlight, Counts
<1> QED
  BY <1>8, <1>9, <1>10 DEF StatesInv

LEMMA StatesFrame ==
    ASSUME StatesInv, UNCHANGED <<intentId, actionState, ful>>
    PROVE  StatesInv' /\ Counted' = Counted
<1>1. Counted' = Counted
  BY DEF Counted
<1> QED
  BY <1>1 DEF StatesInv, Saved, Submitted, InFlight, Counts, DormantAction

LedgerInv == StatesInv /\ PlanInv /\ BooksInv

\* The steps that leave the plan and the blockchain alone.
LEMMA LedgerFrame ==
    ASSUME LedgerInv, UNCHANGED <<intentId, actionState, ful, outcome, vault, balance>>,
           presorted \subseteq presorted'
    PROVE  LedgerInv' /\ Counted' = Counted
<1>1. StatesInv' /\ Counted' = Counted
  BY StatesFrame DEF LedgerInv
<1>2. \A f : InFlight(f)' => InFlight(f)
  BY DEF InFlight
<1>3. PlanInv' /\ BooksInv'
  BY <1>1, <1>2, PlanKept, BooksFrame DEF LedgerInv
<1> QED
  BY <1>1, <1>3 DEF LedgerInv

\* Every step of the sequencer: none schedules the closing of a dormant account.
LEMMA LedgerStep ==
    ASSUME SeqInv, PlacedInv, LedgerInv, SequencerStep
    PROVE  LedgerInv' /\ Counted' = Counted
<1> USE DEF LedgerInv
<1>1. TypeOK /\ Observed \subseteq Accounts
  BY AccountSets DEF SeqInv
\* The steps after which nothing more is under way.
<1>2. ASSUME StatesInv', Counted' = Counted, UNCHANGED <<intentId, presorted, outcome, vault, balance>>,
             \A f \in Fulfillments : InFlight(f)' => InFlight(f)
      PROVE  LedgerInv' /\ Counted' = Counted
  <2>1. \A v : \A f \in OutOf(v) : f \in Fulfillments
    BY DEF OutOf
  <2>2. PlanInv' /\ BooksInv'
    BY <1>2, <2>1, PlanKept, BooksFrame
  <2> QED
    BY <1>2, <2>2
<1>3. ASSUME UNCHANGED <<intentId, actionState, presorted, ful, outcome, vault, balance>>
      PROVE  LedgerInv' /\ Counted' = Counted
  <2> HIDE DEF LedgerInv
  <2> QED
    BY <1>3, LedgerFrame
<1>4. ASSUME NEW f \in Fulfillments, Schedule(f) PROVE LedgerInv' /\ Counted' = Counted
  <2>1. UNCHANGED <<intentId, presorted, outcome, vault, balance>> /\ Polled(f) /\ CanSubmit(f)
    BY <1>4 DEF Schedule, recordVars, chainVars
  <2>2. StatesInv' /\ Counted' = Counted
    BY <1>1, <1>4, StatesSchedule
  <2>3. \A g \in Fulfillments \ {f} : InFlight(g)' => InFlight(g)
    BY <1>1, <1>4 DEF Schedule, InFlight, TypeOK
  <2>4. ASSUME NEW v \in Accounts, NEW g \in OutOf(v), Clean, InFlight(g)', ~InFlight(g)
        PROVE  Sure(v, ActionOf[g])
    <3>1. g = f
      BY <2>3, <2>4 DEF OutOf
    <3> QED
      BY <1>1, <2>1, <2>4, <3>1, ScheduledSure
  <2>5. PlanInv' /\ BooksInv'
    BY <2>1, <2>2, <2>4, PlanKept, BooksFrame
  <2> QED
    BY <2>2, <2>5
<1>5. ASSUME NEW f \in Fulfillments, RevokeAction(f) PROVE LedgerInv' /\ Counted' = Counted
  <2>1. UNCHANGED <<intentId, presorted, outcome, vault, balance>>
        /\ \A g \in Fulfillments : InFlight(g)' => InFlight(g)
    BY <1>5 DEF RevokeAction, chainVars, InFlight
  <2> QED
    BY <1>1, <1>2, <1>5, <2>1, StatesRevokeAction
<1>6. ASSUME NEW f \in Fulfillments, Revoke(f) PROVE LedgerInv' /\ Counted' = Counted
  <2>1. UNCHANGED <<intentId, presorted, outcome, vault, balance>>
    BY <1>6 DEF Revoke, recordVars, chainVars
  <2> QED
    BY <1>1, <1>2, <1>6, <2>1, StatesRevoke
<1>7. ASSUME NEW f \in Fulfillments, ful[f] = "Pending", Settle(f) PROVE LedgerInv' /\ Counted' = Counted
  <2>1. UNCHANGED <<intentId, presorted, outcome, vault, balance>>
    BY <1>7 DEF Settle, recordVars, chainVars
  <2> QED
    BY <1>1, <1>2, <1>7, <2>1, StatesSettle
<1>8. ASSUME NEW f \in Fulfillments, ful[f] = "Pending", UpdateAction(f) PROVE LedgerInv' /\ Counted' = Counted
  <2>1. UNCHANGED <<intentId, presorted, outcome, vault, balance>>
        /\ \A g \in Fulfillments : InFlight(g)' => InFlight(g)
    BY <1>8 DEF UpdateAction, chainVars, InFlight
  <2> QED
    BY <1>1, <1>2, <1>8, <2>1, StatesUpdateAction
<1>9. ASSUME NEW f \in Fulfillments, Execute(f) PROVE LedgerInv' /\ Counted' = Counted
  <2>1. UNCHANGED <<intentId, actionState, presorted, ful>>
    BY <1>9 DEF Execute, recordVars
  <2> QED
    BY <1>1, <1>9, <2>1, StatesFrame, PlanKept, BooksExecute
<1>10. ASSUME NEW f \in Fulfillments, Fault(f) PROVE LedgerInv' /\ Counted' = Counted
  <2>1. UNCHANGED <<intentId, actionState, presorted, ful>>
    BY <1>10 DEF Fault, recordVars
  <2> QED
    BY <1>1, <1>10, <2>1, StatesFrame, PlanKept, BooksFault
<1>11. ASSUME NEW f \in Fulfillments,
             \/ Postpone(f) \/ Notice(f) \/ ReleaseAdvance(f) \/ UpdateIntent(f) \/ OnSuccess(f)
             \/ Interrupt(f) \/ Refuse(f)
      PROVE  UNCHANGED <<intentId, actionState, presorted, ful, outcome, vault, balance>>
  BY <1>11 DEF Postpone, Notice, ReleaseAdvance, UpdateIntent, OnSuccess, Interrupt, Refuse,
        recordVars, sideVars, chainVars
<1>12. ASSUME NEW a \in Actions, CommitmentOpens(a)
       PROVE  UNCHANGED <<intentId, actionState, presorted, ful, outcome, vault, balance>>
  BY <1>12 DEF CommitmentOpens, recordVars, chainVars
<1>13. ASSUME NEW v \in Accounts, ObserveVault(v)
       PROVE  UNCHANGED <<intentId, actionState, presorted, ful, outcome, vault, balance>>
  BY <1>13 DEF ObserveVault, recordVars, chainVars
<1> HIDE DEF LedgerInv
<1> QED
  BY <1>1, <1>3, <1>4, <1>5, <1>6, <1>7, <1>8, <1>9, <1>10, <1>11, <1>12, <1>13
  DEF SequencerStep, Progress

\* A submission moves nothing, and what is new is behind all that counts.
LEMMA BooksSubmit ==
    ASSUME SeqInv, PlacedInv, StatesInv, BooksInv, NEW i \in Intents, SubmitIntent(i)
    PROVE  BooksInv'
<1>1. UNCHANGED <<outcome, vault, balance>>
  BY DEF SubmitIntent, chainVars
<1>order. /\ Counted' = Counted \cup New(i) /\ New(i) \subseteq Actions
          /\ \A b, c \in Counted : Ahead(b, c)' <=> Ahead(b, c)
          /\ \A b \in Counted, c \in New(i) : Ahead(b, c)' /\ ~Ahead(c, b)'
  BY SubmitOrder
<1>2. VaultsInv' /\ NoTransactionFails' /\ (Clean' <=> Clean)
  BY <1>1 DEF BooksInv, VaultsInv, Succeeded, Clean, NoTransactionFails
<1>3. \A f \in Fulfillments : InFlight(f)' => InFlight(f)
  BY DEF SubmitIntent, InFlight
<1>4. ASSUME NEW f \in Fulfillments, outcome[f] = "done" PROVE Counts(f)
  <2>1. InFlight(f)
    BY <1>4 DEF PlacedInv, StateInv
  <2> QED
    BY <2>1 DEF StatesInv
<1>5. ASSUME Clean, NEW v \in Accounts PROVE BalanceInv(v)' /\ SureInv(v)'
  <2>1. DoneTo(v)' = DoneTo(v) /\ DoneFrom(v)' = DoneFrom(v) /\ OutOf(v)' = OutOf(v)
    BY <1>1 DEF DoneTo, DoneFrom, Into, OutOf
  <2>2. BalanceInv(v) /\ SureInv(v)
    BY <1>5 DEF BooksInv
  <2>3. DoneTo(v) \subseteq Counted /\ DoneFrom(v) \subseteq Counted
    BY <1>4 DEF DoneTo, DoneFrom, Into, OutOf, Counts
  <2>4. BalanceInv(v)'
    BY <1>1, <1>order, <2>1, <2>2, <2>3 DEF BalanceInv, NotAfter, Total
  <2>5. ASSUME NEW f \in OutOf(v), InFlight(f)' PROVE Sure(v, ActionOf[f])'
    <3>1. f \in Fulfillments /\ InFlight(f) /\ Sure(v, ActionOf[f])
      BY <1>3, <2>2, <2>5 DEF OutOf, SureInv
    <3>2. ActionOf[f] \in Counted
      BY <3>1 DEF StatesInv, Counts
    <3>3. {b \in Counted' : NotAfter(b, ActionOf[f])'} = {b \in Counted : NotAfter(b, ActionOf[f])}
      BY <1>order, <3>2 DEF NotAfter
    <3>4. Sources(v, ActionOf[f])' = Sources(v, ActionOf[f])
      BY <1>order, <2>1, <3>2 DEF Sources, DormantAction
    <3> QED
      BY <3>1, <3>3, <3>4 DEF Sure, Total
  <2>6. SureInv(v)'
    BY <2>1, <2>5 DEF SureInv
  <2> QED
    BY <2>4, <2>6
<1> QED
  BY <1>2, <1>5 DEF BooksInv

LEMMA LedgerSubmit ==
    ASSUME SeqInv, PlacedInv, LedgerInv, NEW i \in Intents, SubmitIntent(i), SparesDormant(i)
    PROVE  LedgerInv'
<1>1. StatesInv /\ PlanInv /\ BooksInv
  BY DEF LedgerInv
<1>2. StatesInv' /\ BooksInv'
  BY <1>1, StatesSubmit, BooksSubmit
<1>3. PlanInv'
  BY <1>1, FundsSubmit, CloseSubmit, UseSubmit, OpenSubmit DEF PlanInv
<1> QED
  BY <1>2, <1>3 DEF LedgerInv

LEMMA LedgerInit == Init => LedgerInv
<1> SUFFICES ASSUME Init PROVE LedgerInv
  OBVIOUS
<1>1. Counted = {} /\ \A f \in Fulfillments : ~Counts(f) /\ ~InFlight(f) /\ ~Saved(f)
  BY Fields DEF Init, Counted, Counts, InFlight, Saved, Submitted
<1>2. StatesInv
  BY <1>1, Fields, Records DEF Init, StatesInv, Submitted
<1>3. PlanInv
  BY <1>1 DEF PlanInv, FundsPlan, ClosePlan, UsePlan, OpenPlan, KnownPlan, DormantPlan
<1>4. VaultsInv /\ NoTransactionFails
  BY DEF Init, VaultsInv, NoTransactionFails
<1>5. ASSUME NEW v \in Accounts PROVE BalanceInv(v) /\ SureInv(v)
  <2>1. DoneTo(v) = {} /\ DoneFrom(v) = {}
    BY DEF Init, DoneTo, DoneFrom, Into, OutOf
  <2>2. Total({}) = 0 /\ Holdings[v] \in Nat /\ balance[v] = Holdings[v]
    BY FS_EmptySet, TotalAt, AccountSets DEF Init
  <2>3. BalanceInv(v)
    BY <2>1, <2>2 DEF BalanceInv
  <2>4. SureInv(v)
    BY <1>1 DEF SureInv, OutOf
  <2> QED
    BY <2>3, <2>4
<1>6. BooksInv
  BY <1>4, <1>5 DEF BooksInv
<1> QED
  BY <1>2, <1>3, <1>6 DEF LedgerInv

\* The sequencer alone does not schedule what closes a dormant account.
NoDormantCounts == \A f \in Fulfillments : IsDormant(f) => ~Counts(f)

LEMMA LedgerInvariance == Spec => [](LedgerInv /\ NoDormantCounts)
<1> DEFINE Inv == LedgerInv /\ NoDormantCounts
<1>1. Init => Inv
  <2> SUFFICES ASSUME Init PROVE NoDormantCounts
    BY LedgerInit
  <2> QED
    BY Fields DEF Init, NoDormantCounts, Counts, Counted
<1>2. ASSUME SeqInv, PlacedInv, Inv, [Next]_sequencerVars PROVE Inv'
  <2>1. CASE SequencerStep
    <3>1. LedgerInv' /\ Counted' = Counted
      BY <1>2, <2>1, LedgerStep
    <3> QED
      BY <1>2, <3>1 DEF NoDormantCounts, Counts, IsDormant
  <2>2. ASSUME NEW i \in Intents, SubmitIntent(i) PROVE Inv'
    <3>1. SparesDormant(i)
      BY <1>2 DEF SparesDormant, NoDormantCounts
    <3>2. LedgerInv'
      BY <1>2, <2>2, <3>1, LedgerSubmit
    <3>3. \A f \in Fulfillments : Counts(f)' => Counts(f) \/ ~IsDormant(f)
      BY <1>2, <2>2, SubmitCounts DEF LedgerInv
    <3> QED
      BY <1>2, <3>2, <3>3 DEF NoDormantCounts, IsDormant
  <2>3. CASE UNCHANGED sequencerVars
    <3>1. UNCHANGED <<intentId, actionState, presorted, ful, outcome, vault, balance>>
      BY <2>3 DEF sequencerVars, recordVars, chainVars
    <3>2. LedgerInv' /\ Counted' = Counted
      BY <1>2, <3>1, LedgerFrame
    <3> QED
      BY <1>2, <3>2 DEF NoDormantCounts, Counts, IsDormant
  <2> QED
    BY <1>2, <2>1, <2>2, <2>3 DEF Next
<1> HIDE DEF Inv
<1>3. Spec => []Inv
  BY <1>1, <1>2, SequencerInvariance, PlacedInvariance, PTL DEF Spec
<1> QED
  BY <1>3, PTL DEF Inv

\* No transaction that the scheduler lets through fails or moves less than it is
\* meant to, whatever is submitted and interrupted: each account has what its
\* payments take, in the order of the plan LocalSimulation checked, and nothing is
\* left to do on an account that is closed (CanSubmitToBlockchain of each handler,
\* LocalSimulation).
THEOREM NothingFails == Spec => []NoTransactionFails
  BY LedgerInvariance, PTL DEF LedgerInv, BooksInv

=============================================================================
