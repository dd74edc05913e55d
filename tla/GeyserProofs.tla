------------------------------ MODULE GeyserProofs ------------------------------
(***************************************************************************)
(* Proofs about Geyser: what is counted, credited and synced, for any      *)
(* transactions, workers, faults and restarts.                             *)
(***************************************************************************)
EXTENDS Geyser, TLAPS, FiniteSetTheorems

(***************************************************************************)
(* The inductive invariant.                                                *)
(***************************************************************************)

MessageSteps == {"message", "badge", "push"}
DepositSteps == {"deposit", "intent", "chat", "credit"}

\* A process handles a transaction of the kind its step is about, and a backup
\* one of its own kind.
HandlingInv ==
    /\ \A p \in Processes :
        /\ at[p].step \in MessageSteps => at[p].tx \in Messages
        /\ at[p].step \in DepositSteps => at[p].tx \in Deposits
    /\ at["deposits"].step \notin MessageSteps
    /\ at["messages"].step \notin DepositSteps

\* A message that is not stored was not counted.  One process at most counts and
\* pushes it, the one that stored it.
CountInv ==
    /\ \A m \in Messages \ chat : badge[m] = 0 /\ pushed[m] = 0
    /\ \A p \in Processes :
        LET m == at[p].tx
        IN  /\ at[p].step \in {"badge", "push"} => m \in chat /\ pushed[m] = 0
            /\ at[p].step = "badge" => badge[m] = 0
            /\ at[p].step = "push" => badge[m] = 1
    /\ \A p, q \in Processes :
        at[p].step \in {"badge", "push"} /\ at[q].step \in {"badge", "push"}
            /\ at[p].tx = at[q].tx => p = q

\* A deposit is saved as an intent, then as a message, then as a balance.
CreditInv ==
    \A p \in Processes :
        /\ at[p].step \in {"chat", "credit"} => at[p].tx \in intents
        /\ at[p].step = "credit" => at[p].tx \in chat

\* What is skipped was credited; what is due was on the chain; and a pass that
\* met no error has each deposit that is due behind it or ahead of it.
SyncInv ==
    /\ cached \cap Deposits \subseteq credited
    /\ due \subseteq OnChain
    /\ at["deposits"].step # "idle" =>
        /\ flag
        /\ ~failed["deposits"] =>
            \A d \in due :
                \/ d \in credited \/ Beyond(d)
                \/ \E n \in todo["deposits"] : chain[n] = d
                \/ at["deposits"].step \in DepositSteps /\ at["deposits"].tx = d
    /\ at["deposits"].step = "idle" => ~failed["deposits"]

IInv == GeyserTypeOK /\ HandlingInv /\ CountInv /\ CreditInv /\ SyncInv
            /\ CountedOnce /\ CreditIsShown /\ SyncedIsCredited

LEMMA InvInit == Init => IInv
<1> SUFFICES ASSUME Init PROVE IInv
  OBVIOUS
<1> USE GeyserSets, GeyserBounds
<1>1. \A p \in Processes : at[p] = [step |-> "idle", tx |-> None]
  BY DEF Init, Idle
<1>2. /\ {"messages", "deposits"} \subseteq Processes
      /\ at["messages"].step = "idle" /\ at["deposits"].step = "idle"
  BY <1>1 DEF Processes, Backups
<1>3. GeyserTypeOK
  <2>1. at["messages"].tx = None /\ at["deposits"].tx = None /\ None \notin Transactions
    BY <1>1, <1>2
  <2>2. chain \in Seq(Transactions) /\ final \in 0 .. Len(chain)
    BY DEF Init
  <2>3. at \in [Processes -> [step : Steps, tx : Transactions \cup {None}]]
    BY <1>1 DEF Init, Steps, Idle
  <2>4. todo \in [Backups -> SUBSET DOMAIN chain] /\ todo["messages"] = {} /\ todo["deposits"] = {}
    BY DEF Init, Backups
  <2> QED
    BY <2>1, <2>2, <2>3, <2>4 DEF Init, GeyserTypeOK, Transactions
<1>4. HandlingInv /\ CreditInv
  BY <1>1, <1>2 DEF HandlingInv, CreditInv, MessageSteps, DepositSteps
<1>5. CountInv
  BY <1>1 DEF Init, CountInv
<1>6. SyncInv
  BY <1>2 DEF Init, SyncInv, Backups
<1>7. CountedOnce /\ CreditIsShown /\ SyncedIsCredited
  BY DEF Init, CountedOnce, CreditIsShown, SyncedIsCredited
<1> QED
  BY <1>3, <1>4, <1>5, <1>6, <1>7 DEF IInv

(***************************************************************************)
(* The chain.                                                              *)
(***************************************************************************)

LEMMA ChainGrows ==
    ASSUME GeyserTypeOK, NEW t \in Transactions, chain' = Append(chain, t)
    PROVE  /\ chain' \in Seq(Transactions)
           /\ DOMAIN chain = 1 .. Len(chain) /\ DOMAIN chain' = 1 .. Len(chain) + 1
           /\ Len(chain) \in Nat /\ Len(chain') = Len(chain) + 1
           /\ \A n \in DOMAIN chain : n \in DOMAIN chain' /\ chain'[n] = chain[n]
           /\ OnChain \subseteq OnChain'
<1>1. chain \in Seq(Transactions)
  BY DEF GeyserTypeOK
<1>2. /\ chain' \in Seq(Transactions)
      /\ DOMAIN chain = 1 .. Len(chain) /\ DOMAIN chain' = 1 .. Len(chain) + 1
      /\ Len(chain) \in Nat /\ Len(chain') = Len(chain) + 1
      /\ \A n \in DOMAIN chain : n \in DOMAIN chain' /\ chain'[n] = chain[n]
  BY <1>1
<1>3. ASSUME NEW u \in OnChain PROVE u \in OnChain'
  <2>1. PICK n \in DOMAIN chain : chain[n] = u
    BY <1>3 DEF OnChain
  <2>2. n \in DOMAIN chain' /\ chain'[n] = u
    BY <1>2, <2>1
  <2> QED
    BY <2>2 DEF OnChain
<1> QED
  BY <1>2, <1>3

\* What is beyond the reach of a backup stays so.
LEMMA BeyondForEver ==
    ASSUME GeyserTypeOK, NEW t \in Transactions, chain' = Append(chain, t),
           NEW u, Beyond(u)
    PROVE  Beyond(u)'
<1> DEFINE kind == IF u \in Messages THEN Messages ELSE Deposits
           places == {n \in DOMAIN chain : chain[n] \in kind}
           after(n) == {k \in places : k > n}
<1>1. PICK n \in places : chain[n] = u /\ n \notin Newest(places)
  BY DEF Beyond
<1>2. ~(Cardinality(after(n)) < MaxFound)
  BY <1>1 DEF Newest
<1>3. /\ places \subseteq places'
      /\ chain'[n] = u
      /\ after(n) \subseteq {k \in places' : k > n}
  BY <1>1, ChainGrows
<1>4. IsFiniteSet({k \in places' : k > n})
  <2>1. {k \in places' : k > n} \subseteq 1 .. Len(chain) + 1
    BY ChainGrows
  <2>2. IsFiniteSet(1 .. Len(chain) + 1)
    BY ChainGrows, FS_Interval
  <2> QED
    BY <2>1, <2>2, FS_Subset
<1>5. /\ Cardinality({k \in places' : k > n}) >= Cardinality({k \in places : k > n})
      /\ Cardinality({k \in places' : k > n}) \in Nat
      /\ Cardinality({k \in places : k > n}) \in Nat
  BY <1>3, <1>4, FS_Subset, FS_CardinalityType
<1>6. ~(Cardinality({k \in places' : k > n}) < MaxFound)
  <2>1. ~(Cardinality({k \in places : k > n}) < MaxFound)
    BY <1>2
  <2> HIDE DEF places
  <2> QED
    BY <2>1, <1>5, GeyserBounds
<1>7. n \in places' /\ n \notin Newest(places')
  BY <1>1, <1>3, <1>6 DEF Newest
<1> QED
  BY <1>3, <1>7 DEF Beyond, Newest

\* A deposit on the chain is found by the backup, or beyond its reach.
LEMMA FoundOrBeyond ==
    ASSUME NEW d \in Deposits \cap OnChain
    PROVE  Beyond(d) \/ \E n \in PotentialDeposits : chain[n] = d
<1>1. PICK n \in DOMAIN chain : chain[n] = d
  BY DEF OnChain
<1>2. d \notin Messages
  BY GeyserSets
<1> QED
  BY <1>1, <1>2 DEF Beyond, PotentialDeposits

LEMMA BeyondKept ==
    ASSUME UNCHANGED chain, NEW u
    PROVE  Beyond(u)' <=> Beyond(u)
  BY DEF Beyond, Newest

(***************************************************************************)
(* What keeps each part of the invariant.                                  *)
(***************************************************************************)

\* Nothing begins to be counted.
LEMMA CountKept ==
    ASSUME IInv, UNCHANGED <<badge, pushed>>, chat \subseteq chat',
           \A p \in Processes : at'[p] = at[p] \/ at'[p].step \notin {"badge", "push"}
    PROVE  CountInv' /\ CountedOnce'
  BY DEF IInv, CountInv, CountedOnce

\* Nothing begins to be credited.
LEMMA CreditKept ==
    ASSUME IInv, UNCHANGED credited, intents \subseteq intents', chat \subseteq chat',
           \A p \in Processes : at'[p] = at[p] \/ at'[p].step \notin {"chat", "credit"}
    PROVE  CreditInv' /\ CreditIsShown'
  BY DEF IInv, CreditInv, CreditIsShown

\* The pass over the deposits goes on, and what it leaves is credited or failed.
LEMMA SyncKept ==
    ASSUME IInv, UNCHANGED <<chain, flag, due, todo>>,
           credited \subseteq credited', cached' \cap Deposits \subseteq credited',
           at'["deposits"].step = "idle" <=> at["deposits"].step = "idle",
           failed["deposits"] => failed'["deposits"],
           at["deposits"].step = "idle" => ~failed'["deposits"],
           \/ failed'["deposits"]
           \/ at["deposits"].step \notin DepositSteps
           \/ at["deposits"].tx \in credited'
           \/ at'["deposits"].step \in DepositSteps /\ at'["deposits"].tx = at["deposits"].tx
    PROVE  SyncInv' /\ SyncedIsCredited'
<1>1. OnChain' = OnChain
  BY DEF OnChain
<1>2. \A u : Beyond(u)' <=> Beyond(u)
  BY BeyondKept
<1>3. todo' = todo /\ chain' = chain /\ flag' = flag /\ due' = due
  OBVIOUS
<1>4. SyncedIsCredited'
  BY <1>2, <1>3 DEF IInv, SyncedIsCredited
<1>5. ASSUME at'["deposits"].step # "idle", ~failed'["deposits"], NEW d \in due
      PROVE  \/ d \in credited' \/ Beyond(d)'
             \/ \E n \in todo'["deposits"] : chain'[n] = d
             \/ at'["deposits"].step \in DepositSteps /\ at'["deposits"].tx = d
  <2>1. \/ d \in credited \/ Beyond(d)
        \/ \E n \in todo["deposits"] : chain[n] = d
        \/ at["deposits"].step \in DepositSteps /\ at["deposits"].tx = d
    BY <1>5 DEF IInv, SyncInv
  <2> QED
    BY <2>1, <1>2, <1>3, <1>5
<1> QED
  BY <1>1, <1>3, <1>4, <1>5 DEF IInv, SyncInv

(***************************************************************************)
(* The handler's return.                                                   *)
(***************************************************************************)

LEMMA GotoFacts ==
    ASSUME IInv, NEW p \in Processes, NEW step \in Steps, Goto(p, step)
    PROVE  /\ at' \in [Processes -> [step : Steps, tx : Transactions \cup {None}]]
           /\ at'[p].step = step /\ at'[p].tx = at[p].tx
           /\ \A q \in Processes : q # p => at'[q] = at[q]
           /\ at'["messages"].tx \notin Deposits /\ at'["deposits"].tx \notin Messages
<1> DEFINE new == [at[p] EXCEPT !.step = step]
<1>1. /\ at \in [Processes -> [step : Steps, tx : Transactions \cup {None}]]
      /\ at["messages"].tx \notin Deposits /\ at["deposits"].tx \notin Messages
      /\ "messages" \in Processes /\ "deposits" \in Processes
  BY DEF IInv, GeyserTypeOK, Processes, Backups
<1>2. at[p] \in [step : Steps, tx : Transactions \cup {None}]
  BY <1>1
<1>3. new \in [step : Steps, tx : Transactions \cup {None}] /\ new.step = step /\ new.tx = at[p].tx
  BY <1>2
<1>4. at' = [at EXCEPT ![p] = new]
  BY DEF Goto
<1> HIDE DEF new
<1>5. /\ at'[p] = new /\ \A q \in Processes : q # p => at'[q] = at[q]
      /\ at' \in [Processes -> [step : Steps, tx : Transactions \cup {None}]]
  BY <1>1, <1>3, <1>4
<1>6. \A q \in Processes : at'[q].tx = at[q].tx
  BY <1>3, <1>5
<1> QED
  BY <1>1, <1>3, <1>5, <1>6

LEMMA ReturnFacts ==
    ASSUME IInv, NEW p \in Processes, NEW ok \in BOOLEAN, Return(p, ok),
           at[p].step \in Handling
    PROVE  /\ at' \in [Processes -> [step : Steps, tx : Transactions \cup {None}]]
           /\ at'[p].step \in {"idle", "next"} /\ at'[p].tx = at[p].tx
           /\ \A q \in Processes : q # p => at'[q] = at[q]
           /\ at'["messages"].tx \notin Deposits /\ at'["deposits"].tx \notin Messages
           /\ at'["deposits"].step = "idle" <=> at["deposits"].step = "idle"
           /\ cached' = IF ok THEN cached \cup {at[p].tx} ELSE cached
           /\ at[p].tx \in Transactions
           /\ failed' \in [Backups -> BOOLEAN] /\ pointed' \in BOOLEAN
           /\ failed["deposits"] => failed'["deposits"]
           /\ p = "deposits" /\ ~ok => failed'["deposits"]
           /\ at["deposits"].step = "idle" => ~failed'["deposits"]
<1> USE GeyserSets
<1>1. \E step \in {"idle", "next"} : Goto(p, step) /\ (step = "idle" <=> p \in Workers)
  BY DEF Return
<1>2. PICK step \in {"idle", "next"} : Goto(p, step) /\ (step = "idle" <=> p \in Workers)
  BY <1>1
<1>3. step \in Steps
  BY DEF Steps
<1>4. "deposits" \in Processes /\ "deposits" \in Backups /\ "deposits" \notin Workers
  BY DEF Processes, Backups
<1>5. at[p].tx \in Transactions
  BY DEF IInv, HandlingInv, Handling, Steps, MessageSteps, DepositSteps, GeyserTypeOK, Transactions
<1>6. /\ failed' \in [Backups -> BOOLEAN] /\ pointed' \in BOOLEAN
      /\ failed["deposits"] => failed'["deposits"]
      /\ p = "deposits" /\ ~ok => failed'["deposits"]
  BY <1>4 DEF Return, IInv, GeyserTypeOK
<1>7. at["deposits"].step = "idle" => ~failed'["deposits"]
  BY <1>4 DEF Return, IInv, GeyserTypeOK, SyncInv, Handling
<1>8. at'["deposits"].step = "idle" <=> at["deposits"].step = "idle"
  BY <1>2, <1>3, <1>4, GotoFacts DEF Handling
<1> QED
  BY <1>2, <1>3, <1>5, <1>6, <1>7, <1>8, GotoFacts DEF Return

(***************************************************************************)
(* Every step keeps the invariant.                                         *)
(***************************************************************************)

\* The blockchain.
LEMMA InvArrive ==
    ASSUME IInv, NEW t \in Transactions, Arrive(t)
    PROVE  IInv'
<1> USE DEF Arrive
<1>1. GeyserTypeOK /\ chain' = Append(chain, t)
  BY DEF IInv
<1>2. UNCHANGED <<final, chatVars, depositVars, flagVars, cached, at, failed, backupVars, faultVars>>
  OBVIOUS
<1>3. GeyserTypeOK'
  <2>1. final' \in 0 .. Len(chain')
    BY <1>1, <1>2, ChainGrows DEF GeyserTypeOK
  <2>2. /\ todo' \in [Backups -> SUBSET DOMAIN chain']
        /\ \A n \in todo'["messages"] : chain'[n] \in Messages
        /\ \A n \in todo'["deposits"] : chain'[n] \in Deposits
    <3>1. todo' = todo
      BY <1>2 DEF backupVars
    <3>2. /\ todo \in [Backups -> SUBSET DOMAIN chain]
          /\ \A n \in todo["messages"] : n \in DOMAIN chain /\ chain[n] \in Messages
          /\ \A n \in todo["deposits"] : n \in DOMAIN chain /\ chain[n] \in Deposits
      BY <1>1 DEF GeyserTypeOK, Backups
    <3>3. \A n \in DOMAIN chain : n \in DOMAIN chain' /\ chain'[n] = chain[n]
      BY <1>1, ChainGrows
    <3> QED
      BY <3>1, <3>2, <3>3
  <2>3. chain' \in Seq(Transactions)
    BY <1>1, ChainGrows
  <2> QED
    BY <1>1, <1>2, <2>1, <2>2, <2>3
    DEF GeyserTypeOK, chatVars, depositVars, flagVars, backupVars, faultVars
<1>4. HandlingInv'
  BY <1>2 DEF IInv, HandlingInv
<1>5. CountInv' /\ CountedOnce' /\ CreditInv' /\ CreditIsShown'
  BY <1>2, CountKept, CreditKept DEF chatVars, depositVars
<1>6. SyncInv' /\ SyncedIsCredited'
  <2>1. /\ \A n \in DOMAIN chain : n \in DOMAIN chain' /\ chain'[n] = chain[n]
        /\ OnChain \subseteq OnChain'
    BY <1>1, ChainGrows
  <2>2. \A d : Beyond(d) => Beyond(d)'
    BY <1>1, BeyondForEver
  <2>3. /\ flag' = flag /\ due' = due /\ credited' = credited /\ todo' = todo
        /\ at' = at /\ failed' = failed /\ cached' = cached
    BY <1>2 DEF flagVars, depositVars, backupVars
  <2>4. SyncedIsCredited'
    BY <2>2, <2>3 DEF IInv, SyncedIsCredited
  <2>5. \A n \in todo["deposits"] : chain'[n] = chain[n]
    BY <1>1, <2>1 DEF GeyserTypeOK, Backups
  <2>6. ASSUME at'["deposits"].step # "idle", ~failed'["deposits"], NEW d \in due'
        PROVE  \/ d \in credited' \/ Beyond(d)'
               \/ \E n \in todo'["deposits"] : chain'[n] = d
               \/ at'["deposits"].step \in DepositSteps /\ at'["deposits"].tx = d
    <3>1. \/ d \in credited \/ Beyond(d)
          \/ \E n \in todo["deposits"] : chain[n] = d
          \/ at["deposits"].step \in DepositSteps /\ at["deposits"].tx = d
      BY <2>3, <2>6 DEF IInv, SyncInv
    <3> QED
      BY <3>1, <2>2, <2>3, <2>5
  <2>7. /\ cached' \cap Deposits \subseteq credited'
        /\ due' \subseteq OnChain'
        /\ at'["deposits"].step # "idle" => flag'
        /\ at'["deposits"].step = "idle" => ~failed'["deposits"]
    BY <2>1, <2>3 DEF IInv, SyncInv
  <2> QED
    BY <2>4, <2>6, <2>7 DEF SyncInv
<1> QED
  BY <1>3, <1>4, <1>5, <1>6 DEF IInv

LEMMA InvFinalizeAsk ==
    ASSUME IInv, Finalize \/ Ask
    PROVE  IInv'
<1> USE DEF chainVars, chatVars, depositVars, flagVars, backupVars, faultVars
<1>1. /\ UNCHANGED <<coming, chain, chat, badge, pushed, intents, credited, flag, due, cached, at,
                      failed, checkpoint, todo, pointed, faults, restarts, clean>>
      /\ final' \in 0 .. Len(chain) /\ asking' \in BOOLEAN
  <2>1. chain \in Seq(Transactions) /\ final \in 0 .. Len(chain) /\ asking \in BOOLEAN
    BY DEF IInv, GeyserTypeOK
  <2>2. Len(chain) \in Nat
    BY <2>1
  <2>3. CASE Finalize
    BY <2>1, <2>2, <2>3 DEF Finalize
  <2>4. CASE Ask
    BY <2>1, <2>2, <2>4 DEF Ask
  <2> QED
    BY <2>3, <2>4
<1>2. GeyserTypeOK'
  BY <1>1 DEF IInv, GeyserTypeOK
<1>3. HandlingInv'
  BY <1>1 DEF IInv, HandlingInv
<1>4. CountInv' /\ CountedOnce' /\ CreditInv' /\ CreditIsShown'
  BY <1>1, CountKept, CreditKept
<1>5. SyncInv' /\ SyncedIsCredited'
  <2>1. cached' \cap Deposits \subseteq credited'
    BY <1>1 DEF IInv, SyncInv
  <2>2. at["deposits"].step = "idle" => ~failed'["deposits"]
    BY <1>1 DEF IInv, SyncInv
  <2> QED
    BY <1>1, <2>1, <2>2, SyncKept
<1> QED
  BY <1>2, <1>3, <1>4, <1>5 DEF IInv

\* When the flag was not set, the backup for deposits is idle.
LEMMA InvSetFlag ==
    ASSUME IInv, SetFlag
    PROVE  IInv'
<1> USE DEF chainVars, chatVars, depositVars, flagVars, backupVars, faultVars
<1>1. /\ UNCHANGED <<coming, chain, final, chat, badge, pushed, intents, credited, cached, at,
                      failed, checkpoint, todo, pointed, faults, restarts, clean>>
      /\ flag' = TRUE /\ asking' = FALSE
      /\ due' = IF flag THEN due ELSE OnChain \cap Deposits
  BY DEF SetFlag
<1>2. GeyserTypeOK'
  BY <1>1 DEF IInv, GeyserTypeOK
<1>3. HandlingInv'
  BY <1>1 DEF IInv, HandlingInv
<1>4. CountInv' /\ CountedOnce' /\ CreditInv' /\ CreditIsShown'
  BY <1>1, CountKept, CreditKept
<1>5. SyncedIsCredited'
  BY <1>1 DEF SyncedIsCredited
<1>6. SyncInv'
  <2>1. OnChain' = OnChain
    BY <1>1 DEF OnChain
  <2>2. \A u : Beyond(u)' <=> Beyond(u)
    BY <1>1, BeyondKept
  <2>3. CASE flag
    <3>1. due' = due
      BY <1>1, <2>3
    <3> QED
      BY <1>1, <2>1, <2>2, <3>1 DEF IInv, SyncInv
  <2>4. CASE ~flag
    <3>1. at["deposits"].step = "idle" /\ ~failed["deposits"]
      BY <2>4 DEF IInv, SyncInv
    <3>2. due' \subseteq OnChain'
      BY <1>1, <2>1, <2>4
    <3> QED
      BY <1>1, <3>1, <3>2 DEF IInv, SyncInv
  <2> QED
    BY <2>3, <2>4
<1> QED
  BY <1>2, <1>3, <1>4, <1>5, <1>6 DEF IInv

\* What the steps of a handler have in common, when it goes on and when it
\* returns: only CountInv and CreditInv depend on which step it was.
Grows ==
    /\ UNCHANGED <<chainVars, flagVars, checkpoint, todo>>
    /\ chat \subseteq chat' /\ chat' \subseteq Transactions
    /\ intents \subseteq intents' /\ intents' \subseteq Deposits
    /\ credited \subseteq credited' /\ credited' \subseteq Deposits
    /\ badge' \in [Messages -> Nat] /\ pushed' \in [Messages -> Nat]
    /\ faults' \in 0 .. MaxFaults /\ restarts' \in 0 .. MaxRestarts /\ clean' \in BOOLEAN

LEMMA GotoKeeps ==
    ASSUME IInv, Grows, UNCHANGED <<cached, failed, pointed>>,
           NEW p \in Processes, NEW step \in Steps, Goto(p, step),
           \/ at[p].step \in MessageSteps /\ step \in MessageSteps
           \/ at[p].step \in DepositSteps /\ step \in DepositSteps
    PROVE  GeyserTypeOK' /\ HandlingInv' /\ SyncInv' /\ SyncedIsCredited'
<1>1. /\ at' \in [Processes -> [step : Steps, tx : Transactions \cup {None}]]
      /\ at'[p].step = step /\ at'[p].tx = at[p].tx
      /\ \A q \in Processes : q # p => at'[q] = at[q]
      /\ at'["messages"].tx \notin Deposits /\ at'["deposits"].tx \notin Messages
  BY GotoFacts
<1>2. "deposits" \in Processes /\ "messages" \in Processes
  BY DEF Processes, Backups
<1>3. GeyserTypeOK'
  BY <1>1 DEF IInv, GeyserTypeOK, Grows, chainVars, flagVars
<1>4. HandlingInv'
  BY <1>1, <1>2 DEF IInv, HandlingInv, MessageSteps, DepositSteps
<1>5. /\ at'["deposits"].step = "idle" <=> at["deposits"].step = "idle"
      /\ \/ at["deposits"].step \notin DepositSteps
         \/ at'["deposits"].step \in DepositSteps /\ at'["deposits"].tx = at["deposits"].tx
  BY <1>1, <1>2 DEF MessageSteps, DepositSteps
<1>6. /\ cached' \cap Deposits \subseteq credited'
      /\ at["deposits"].step = "idle" => ~failed'["deposits"]
  BY DEF IInv, SyncInv, Grows
<1>7. SyncInv' /\ SyncedIsCredited'
  <2>1. UNCHANGED <<chain, flag, due, todo>> /\ credited \subseteq credited' /\ failed' = failed
    BY DEF Grows, chainVars, flagVars
  <2> QED
    BY <1>5, <1>6, <2>1, SyncKept
<1> QED
  BY <1>3, <1>4, <1>7

LEMMA ReturnKeeps ==
    ASSUME IInv, Grows, NEW p \in Processes, NEW ok \in BOOLEAN, Return(p, ok),
           at[p].step \in Handling,
           ok => at[p].tx \in Messages \cup credited'
    PROVE  GeyserTypeOK' /\ HandlingInv' /\ SyncInv' /\ SyncedIsCredited'
<1>1. /\ at' \in [Processes -> [step : Steps, tx : Transactions \cup {None}]]
      /\ at'[p].step \in {"idle", "next"} /\ at'[p].tx = at[p].tx
      /\ \A q \in Processes : q # p => at'[q] = at[q]
      /\ at'["messages"].tx \notin Deposits /\ at'["deposits"].tx \notin Messages
      /\ at'["deposits"].step = "idle" <=> at["deposits"].step = "idle"
      /\ cached' = IF ok THEN cached \cup {at[p].tx} ELSE cached
      /\ at[p].tx \in Transactions
      /\ failed' \in [Backups -> BOOLEAN] /\ pointed' \in BOOLEAN
      /\ failed["deposits"] => failed'["deposits"]
      /\ p = "deposits" /\ ~ok => failed'["deposits"]
      /\ at["deposits"].step = "idle" => ~failed'["deposits"]
  BY ReturnFacts
<1>2. "deposits" \in Processes /\ "messages" \in Processes
  BY DEF Processes, Backups
<1>3. GeyserTypeOK'
  BY <1>1 DEF IInv, GeyserTypeOK, Grows, chainVars, flagVars
<1>4. HandlingInv'
  BY <1>1, <1>2 DEF IInv, HandlingInv, MessageSteps, DepositSteps
<1>5. \/ failed'["deposits"]
      \/ at["deposits"].step \notin DepositSteps
      \/ at["deposits"].tx \in credited'
      \/ at'["deposits"].step \in DepositSteps /\ at'["deposits"].tx = at["deposits"].tx
  <2>1. CASE p = "deposits"
    BY <1>1, <2>1 DEF IInv, GeyserTypeOK
  <2>2. CASE p # "deposits"
    BY <1>1, <1>2, <2>2
  <2> QED
    BY <2>1, <2>2
<1>6. cached' \cap Deposits \subseteq credited'
  BY <1>1, GeyserSets DEF IInv, SyncInv, Grows
<1>7. SyncInv' /\ SyncedIsCredited'
  <2>1. UNCHANGED <<chain, flag, due, todo>> /\ credited \subseteq credited'
    BY DEF Grows, chainVars, flagVars
  <2> QED
    BY <1>1, <1>5, <1>6, <2>1, SyncKept
<1> QED
  BY <1>3, <1>4, <1>7

LEMMA InvPutChatMessage ==
    ASSUME IInv, NEW p \in Processes, PutChatMessage(p)
    PROVE  IInv'
<1> DEFINE m == at[p].tx
           quiet == m \in Muted \cup Unsubscribed \cup chat
<1>1. /\ at[p].step = "message" /\ m \in Messages
      /\ chat' = IF m \in Unsubscribed THEN chat ELSE chat \cup {m}
      /\ UNCHANGED <<chainVars, badge, pushed, depositVars, flagVars, checkpoint, todo, faultVars>>
      /\ at[p].step \in Handling /\ "badge" \in Steps
  BY DEF PutChatMessage, IInv, HandlingInv, MessageSteps, Handling, Steps
<1>2. Grows
  BY <1>1 DEF Grows, IInv, GeyserTypeOK, depositVars, faultVars, Transactions
<1>3. UNCHANGED <<badge, pushed, intents, credited>> /\ chat \subseteq chat'
  BY <1>1, <1>2 DEF Grows, depositVars
<1>4. CASE quiet
  <2>1. Return(p, TRUE)
    BY <1>4 DEF PutChatMessage
  <2>2. GeyserTypeOK' /\ HandlingInv' /\ SyncInv' /\ SyncedIsCredited'
    BY <1>1, <1>2, <2>1, ReturnKeeps
  <2>3. \A q \in Processes : at'[q] = at[q] \/ at'[q].step \in {"idle", "next"}
    BY <1>1, <2>1, ReturnFacts
  <2>4. CountInv' /\ CountedOnce' /\ CreditInv' /\ CreditIsShown'
    BY <1>3, <2>3, CountKept, CreditKept
  <2> QED
    BY <2>2, <2>4 DEF IInv
<1>5. CASE ~quiet
  <2>1. /\ Goto(p, "badge") /\ UNCHANGED <<cached, failed, pointed>>
        /\ m \notin chat /\ chat' = chat \cup {m}
    BY <1>1, <1>5 DEF PutChatMessage
  <2>2. GeyserTypeOK' /\ HandlingInv' /\ SyncInv' /\ SyncedIsCredited'
    BY <1>1, <1>2, <2>1, GotoKeeps DEF MessageSteps
  <2>3. /\ at'[p].step = "badge" /\ at'[p].tx = m
        /\ \A q \in Processes : q # p => at'[q] = at[q]
    BY <1>1, <2>1, GotoFacts
  <2>4. CreditInv' /\ CreditIsShown'
    BY <1>3, <2>3, CreditKept
  <2>5. CountedOnce'
    BY <1>3 DEF IInv, CountedOnce
  <2>6. badge[m] = 0 /\ pushed[m] = 0
        /\ \A q \in Processes : at[q].step \in {"badge", "push"} => at[q].tx # m
    BY <1>1, <2>1 DEF IInv, CountInv
  <2>7. CountInv'
    BY <1>3, <2>1, <2>3, <2>6 DEF IInv, CountInv
  <2> QED
    BY <2>2, <2>4, <2>5, <2>7 DEF IInv
<1> QED
  BY <1>4, <1>5

LEMMA InvAddToBadgeCount ==
    ASSUME IInv, NEW p \in Processes, AddToBadgeCount(p)
    PROVE  IInv'
<1> DEFINE m == at[p].tx
<1>1. /\ at[p].step = "badge" /\ m \in Messages /\ m \in chat
      /\ badge[m] = 0 /\ pushed[m] = 0
      /\ badge' = [badge EXCEPT ![m] = @ + 1] /\ Goto(p, "push")
      /\ UNCHANGED <<cached, failed, pointed>>
      /\ UNCHANGED <<chainVars, chat, pushed, depositVars, flagVars, checkpoint, todo, faultVars>>
      /\ "push" \in Steps
  BY DEF AddToBadgeCount, IInv, HandlingInv, CountInv, MessageSteps, Steps, backupVars
<1>2. badge' \in [Messages -> Nat] /\ badge'[m] = 1 /\ \A k \in Messages \ {m} : badge'[k] = badge[k]
  BY <1>1 DEF IInv, GeyserTypeOK
<1>3. Grows
  BY <1>1, <1>2 DEF Grows, IInv, GeyserTypeOK, depositVars, faultVars
<1>4. GeyserTypeOK' /\ HandlingInv' /\ SyncInv' /\ SyncedIsCredited'
  BY <1>1, <1>3, GotoKeeps DEF MessageSteps
<1>5. /\ at'[p].step = "push" /\ at'[p].tx = m
      /\ \A q \in Processes : q # p => at'[q] = at[q]
  BY <1>1, GotoFacts
<1>6. CreditInv' /\ CreditIsShown'
  BY <1>1, <1>5, CreditKept DEF depositVars
<1>7. CountedOnce'
  BY <1>1, <1>2 DEF IInv, CountedOnce
<1>8. CountInv'
  <2>1. \A q \in Processes \ {p} : at[q].step \in {"badge", "push"} => at[q].tx # m
    BY <1>1 DEF IInv, CountInv
  <2>2. \A q \in Processes : at[q].step \in {"badge", "push"} => at[q].tx \in Messages
    BY DEF IInv, HandlingInv, MessageSteps
  <2> QED
    BY <1>1, <1>2, <1>5, <2>1, <2>2 DEF IInv, CountInv
<1> QED
  BY <1>4, <1>6, <1>7, <1>8 DEF IInv

LEMMA InvPushMessage ==
    ASSUME IInv, NEW p \in Processes, PushMessage(p)
    PROVE  IInv'
<1> DEFINE m == at[p].tx
<1>1. /\ at[p].step = "push" /\ m \in Messages /\ m \in chat
      /\ badge[m] = 1 /\ pushed[m] = 0
      /\ pushed' = [pushed EXCEPT ![m] = @ + 1] /\ Return(p, TRUE)
      /\ UNCHANGED <<chainVars, chat, badge, depositVars, flagVars, checkpoint, todo, faultVars>>
      /\ at[p].step \in Handling
  BY DEF PushMessage, IInv, HandlingInv, CountInv, MessageSteps, Steps, Handling
<1>2. pushed' \in [Messages -> Nat] /\ pushed'[m] = 1
      /\ \A k \in Messages \ {m} : pushed'[k] = pushed[k]
  BY <1>1 DEF IInv, GeyserTypeOK
<1>3. Grows
  BY <1>1, <1>2 DEF Grows, IInv, GeyserTypeOK, depositVars, faultVars
<1>4. GeyserTypeOK' /\ HandlingInv' /\ SyncInv' /\ SyncedIsCredited'
  BY <1>1, <1>3, ReturnKeeps
<1>5. /\ at'[p].step \in {"idle", "next"}
      /\ \A q \in Processes : q # p => at'[q] = at[q]
  BY <1>1, ReturnFacts
<1>6. CreditInv' /\ CreditIsShown'
  BY <1>1, <1>5, CreditKept DEF depositVars
<1>7. CountedOnce'
  BY <1>1, <1>2 DEF IInv, CountedOnce
<1>8. CountInv'
  <2>1. \A q \in Processes \ {p} : at[q].step \in {"badge", "push"} => at[q].tx # m
    BY <1>1 DEF IInv, CountInv
  <2>2. \A q \in Processes : at[q].step \in {"badge", "push"} => at[q].tx \in Messages
    BY DEF IInv, HandlingInv, MessageSteps
  <2> QED
    BY <1>1, <1>2, <1>5, <2>1, <2>2 DEF IInv, CountInv
<1> QED
  BY <1>4, <1>6, <1>7, <1>8 DEF IInv

\* A handler that returns without a change: a deposit that is credited or not
\* finalized, and each of the failures.
LEMMA InvReturns ==
    ASSUME IInv, NEW p \in Processes, NEW ok \in BOOLEAN, Return(p, ok),
           at[p].step \in Handling, ok => at[p].tx \in Messages \cup credited,
           UNCHANGED <<chainVars, chatVars, depositVars, flagVars, checkpoint, todo>>,
           faults' \in 0 .. MaxFaults, restarts' = restarts, clean' \in BOOLEAN
    PROVE  IInv'
<1>1. UNCHANGED <<chat, badge, pushed, intents, credited>>
  BY DEF chatVars, depositVars
<1>2. Grows
  BY <1>1 DEF Grows, IInv, GeyserTypeOK
<1>3. GeyserTypeOK' /\ HandlingInv' /\ SyncInv' /\ SyncedIsCredited'
  BY <1>1, <1>2, ReturnKeeps
<1>4. \A q \in Processes : at'[q] = at[q] \/ at'[q].step \in {"idle", "next"}
  BY ReturnFacts
<1>5. CountInv' /\ CountedOnce' /\ CreditInv' /\ CreditIsShown'
  BY <1>1, <1>4, CountKept, CreditKept
<1> QED
  BY <1>3, <1>5 DEF IInv

LEMMA InvFailures ==
    ASSUME IInv, NEW p \in Processes, NotFinalized(p) \/ Fail(p) \/ GiveUp(p)
    PROVE  IInv'
<1> USE GeyserBounds
<1>1. faults \in 0 .. MaxFaults /\ clean \in BOOLEAN
  BY DEF IInv, GeyserTypeOK
<1>2. CASE NotFinalized(p)
  <2>1. at[p].step \in Handling
    BY <1>2 DEF NotFinalized, Handling, Steps
  <2> QED
    BY <1>1, <1>2, <2>1, InvReturns DEF NotFinalized, faultVars
<1>3. CASE Fail(p)
  <2>1. at[p].step \in Handling
    BY <1>3 DEF Fail
  <2>2. faults' = faults + 1 /\ faults < MaxFaults /\ clean' = FALSE
    BY <1>3 DEF Fail
  <2>3. faults' \in 0 .. MaxFaults
    BY <1>1, <2>2
  <2>4. clean' \in BOOLEAN
    BY <2>2
  <2> QED
    BY <1>3, <2>1, <2>3, <2>4, InvReturns DEF Fail
<1>4. CASE GiveUp(p)
  <2>1. at[p].step \in Handling /\ at[p].tx \in Messages
    BY <1>4 DEF GiveUp, Handling, Steps, IInv, HandlingInv, MessageSteps
  <2>2. faults' = faults + 1 /\ faults < MaxFaults /\ clean' = FALSE
    BY <1>4 DEF GiveUp
  <2>3. faults' \in 0 .. MaxFaults
    BY <1>1, <2>2
  <2>4. clean' \in BOOLEAN
    BY <2>2
  <2> QED
    BY <1>4, <2>1, <2>3, <2>4, InvReturns DEF GiveUp
<1> QED
  BY <1>2, <1>3, <1>4

LEMMA InvLookUpDeposit ==
    ASSUME IInv, NEW p \in Processes, LookUpDeposit(p)
    PROVE  IInv'
<1>1. /\ at[p].step = "deposit" /\ at[p].step \in Handling /\ "intent" \in Steps
      /\ UNCHANGED <<chainVars, chatVars, depositVars, flagVars, checkpoint, todo, faultVars>>
  BY DEF LookUpDeposit, Handling, Steps
<1>2. CASE at[p].tx \in credited
  <2>1. /\ Return(p, TRUE)
        /\ faults' \in 0 .. MaxFaults /\ restarts' = restarts /\ clean' \in BOOLEAN
    BY <1>1, <1>2 DEF LookUpDeposit, IInv, GeyserTypeOK, faultVars
  <2> QED
    BY <1>1, <1>2, <2>1, InvReturns
<1>3. CASE at[p].tx \notin credited
  <2>1. Goto(p, "intent") /\ UNCHANGED <<cached, failed, pointed>>
    BY <1>3 DEF LookUpDeposit
  <2>2. UNCHANGED <<chat, badge, pushed, intents, credited>>
    BY <1>1 DEF chatVars, depositVars
  <2>3. Grows
    BY <1>1, <2>2 DEF Grows, IInv, GeyserTypeOK, faultVars
  <2>4. GeyserTypeOK' /\ HandlingInv' /\ SyncInv' /\ SyncedIsCredited'
    BY <1>1, <2>1, <2>3, GotoKeeps DEF DepositSteps
  <2>5. \A q \in Processes : at'[q] = at[q] \/ at'[q].step = "intent"
    BY <1>1, <2>1, GotoFacts
  <2>6. CountInv' /\ CountedOnce' /\ CreditInv' /\ CreditIsShown'
    BY <2>2, <2>5, CountKept, CreditKept
  <2> QED
    BY <2>4, <2>6 DEF IInv
<1> QED
  BY <1>2, <1>3

LEMMA InvSaveIntent ==
    ASSUME IInv, NEW p \in Processes, SaveIntent(p)
    PROVE  IInv'
<1> DEFINE d == at[p].tx
<1>1. /\ at[p].step = "intent" /\ d \in Deposits /\ "chat" \in Steps
      /\ intents' = intents \cup {d} /\ Goto(p, "chat")
      /\ UNCHANGED <<cached, failed, pointed>>
      /\ UNCHANGED <<chainVars, chat, badge, pushed, credited, flagVars, checkpoint, todo, faultVars>>
  BY DEF SaveIntent, IInv, HandlingInv, DepositSteps, Steps, chatVars, backupVars
<1>2. Grows
  BY <1>1 DEF Grows, IInv, GeyserTypeOK, faultVars
<1>3. GeyserTypeOK' /\ HandlingInv' /\ SyncInv' /\ SyncedIsCredited'
  BY <1>1, <1>2, GotoKeeps DEF DepositSteps
<1>4. /\ at'[p].step = "chat" /\ at'[p].tx = d
      /\ \A q \in Processes : q # p => at'[q] = at[q]
  BY <1>1, GotoFacts
<1>5. CountInv' /\ CountedOnce'
  BY <1>1, <1>4, CountKept
<1>6. CreditInv' /\ CreditIsShown'
  BY <1>1, <1>4 DEF IInv, CreditInv, CreditIsShown
<1> QED
  BY <1>3, <1>5, <1>6 DEF IInv

LEMMA InvTellOfDeposit ==
    ASSUME IInv, NEW p \in Processes, TellOfDeposit(p)
    PROVE  IInv'
<1> DEFINE d == at[p].tx
<1>1. /\ at[p].step = "chat" /\ d \in Deposits /\ "credit" \in Steps
      /\ chat' = chat \cup {d} /\ Goto(p, "credit")
      /\ UNCHANGED <<cached, failed, pointed>>
      /\ UNCHANGED <<chainVars, badge, pushed, intents, credited, flagVars, checkpoint, todo, faultVars>>
  BY DEF TellOfDeposit, IInv, HandlingInv, DepositSteps, Steps, depositVars, backupVars
<1>2. Grows
  BY <1>1 DEF Grows, IInv, GeyserTypeOK, faultVars, Transactions
<1>3. GeyserTypeOK' /\ HandlingInv' /\ SyncInv' /\ SyncedIsCredited'
  BY <1>1, <1>2, GotoKeeps DEF DepositSteps
<1>4. /\ at'[p].step = "credit" /\ at'[p].tx = d
      /\ \A q \in Processes : q # p => at'[q] = at[q]
  BY <1>1, GotoFacts
<1>5. CountInv' /\ CountedOnce'
  BY <1>1, <1>4, CountKept
<1>6. CreditInv' /\ CreditIsShown'
  BY <1>1, <1>4 DEF IInv, CreditInv, CreditIsShown
<1> QED
  BY <1>3, <1>5, <1>6 DEF IInv

LEMMA InvSaveExternalDeposit ==
    ASSUME IInv, NEW p \in Processes, SaveExternalDeposit(p)
    PROVE  IInv'
<1> DEFINE d == at[p].tx
<1>1. /\ at[p].step = "credit" /\ d \in Deposits /\ at[p].step \in Handling
      /\ credited' = credited \cup {d} /\ Return(p, TRUE)
      /\ UNCHANGED <<chainVars, chat, badge, pushed, intents, flagVars, checkpoint, todo, faultVars>>
  BY DEF SaveExternalDeposit, IInv, HandlingInv, DepositSteps, Handling, Steps, chatVars
<1>2. Grows
  BY <1>1 DEF Grows, IInv, GeyserTypeOK, faultVars
<1>3. GeyserTypeOK' /\ HandlingInv' /\ SyncInv' /\ SyncedIsCredited'
  BY <1>1, <1>2, ReturnKeeps
<1>4. \A q \in Processes : at'[q] = at[q] \/ at'[q].step \in {"idle", "next"}
  BY <1>1, ReturnFacts
<1>5. CountInv' /\ CountedOnce'
  BY <1>1, <1>4, CountKept
<1>6. CreditInv' /\ CreditIsShown'
  BY <1>1, <1>4 DEF IInv, CreditInv, CreditIsShown
<1> QED
  BY <1>3, <1>5, <1>6 DEF IInv

LEMMA InvHandle ==
    ASSUME IInv, NEW p \in Processes, Handle(p)
    PROVE  IInv'
  BY InvPutChatMessage, InvAddToBadgeCount, InvPushMessage, InvLookUpDeposit, InvFailures,
     InvSaveIntent, InvTellOfDeposit, InvSaveExternalDeposit
  DEF Handle

LEMMA FirstStepFacts ==
    ASSUME NEW t \in Transactions
    PROVE  /\ FirstStep(t) \in {"message", "deposit"} /\ FirstStep(t) \in Steps
           /\ FirstStep(t) = "message" <=> t \in Messages
           /\ FirstStep(t) = "deposit" <=> t \in Deposits
  BY GeyserSets DEF FirstStep, Transactions, Steps

LEMMA InvHandleUpdate ==
    ASSUME IInv, NEW w \in Workers, NEW t \in Transactions, HandleUpdate(w, t)
    PROVE  IInv'
<1> DEFINE new == [step |-> FirstStep(t), tx |-> t]
<1>1. /\ at[w].step = "idle" /\ at' = [at EXCEPT ![w] = new]
      /\ UNCHANGED <<chainVars, chatVars, depositVars, flagVars, cached, failed, backupVars, faultVars>>
  BY DEF HandleUpdate
<1>2. /\ w \in Processes /\ {"messages", "deposits"} \subseteq Processes
      /\ w # "messages" /\ w # "deposits"
  BY GeyserSets DEF Processes, Backups
<1>3. /\ at' \in [Processes -> [step : Steps, tx : Transactions \cup {None}]]
      /\ at'[w] = new /\ \A q \in Processes : q # w => at'[q] = at[q]
      /\ at'["messages"] = at["messages"] /\ at'["deposits"] = at["deposits"]
  BY <1>1, <1>2, FirstStepFacts DEF IInv, GeyserTypeOK
<1>4. GeyserTypeOK'
  BY <1>1, <1>3
  DEF IInv, GeyserTypeOK, chainVars, chatVars, depositVars, flagVars, backupVars, faultVars
<1>5. HandlingInv'
  BY <1>3, FirstStepFacts DEF IInv, HandlingInv, MessageSteps, DepositSteps
<1>6. CountInv' /\ CountedOnce' /\ CreditInv' /\ CreditIsShown'
  <2>1. \A q \in Processes : at'[q] = at[q] \/ at'[q].step \in {"message", "deposit"}
    BY <1>3, FirstStepFacts
  <2> QED
    BY <1>1, <2>1, CountKept, CreditKept DEF chatVars, depositVars
<1>7. SyncInv' /\ SyncedIsCredited'
  <2>1. UNCHANGED <<chain, flag, due, todo>> /\ UNCHANGED <<credited, cached, failed>>
    BY <1>1 DEF chainVars, flagVars, backupVars, depositVars
  <2>2. /\ cached' \cap Deposits \subseteq credited'
        /\ at["deposits"].step = "idle" => ~failed'["deposits"]
    BY <2>1 DEF IInv, SyncInv
  <2> QED
    BY <1>3, <2>1, <2>2, SyncKept
<1> QED
  BY <1>4, <1>5, <1>6, <1>7 DEF IInv

LEMMA InvFind ==
    ASSUME IInv, NEW b \in Backups, Find(b)
    PROVE  IInv'
<1>1. /\ at[b].step = "idle" /\ (b = "deposits" => flag) /\ Goto(b, "next")
      /\ todo' = [todo EXCEPT ![b] = IF b = "messages" THEN PotentialMessages ELSE PotentialDeposits]
      /\ UNCHANGED <<chain, final, coming, chat, badge, pushed, intents, credited, flag, asking, due,
                     cached, checkpoint, failed, pointed, faults, restarts, clean>>
      /\ "next" \in Steps
  BY DEF Find, chainVars, chatVars, depositVars, flagVars, faultVars, Steps
<1>2. b \in Processes /\ {"messages", "deposits"} \subseteq Processes /\ Backups = {"messages", "deposits"}
  BY DEF Processes, Backups
<1>3. /\ at' \in [Processes -> [step : Steps, tx : Transactions \cup {None}]]
      /\ at'[b].step = "next" /\ at'[b].tx = at[b].tx
      /\ \A q \in Processes : q # b => at'[q] = at[q]
      /\ at'["messages"].tx \notin Deposits /\ at'["deposits"].tx \notin Messages
  BY <1>1, <1>2, GotoFacts
<1>4. /\ PotentialMessages \in SUBSET DOMAIN chain /\ \A n \in PotentialMessages : chain[n] \in Messages
      /\ PotentialDeposits \in SUBSET DOMAIN chain /\ \A n \in PotentialDeposits : chain[n] \in Deposits
  <2>1. 1 .. final \subseteq DOMAIN chain
    BY DEF IInv, GeyserTypeOK
  <2> QED
    BY <2>1 DEF PotentialMessages, PotentialDeposits, Newest
<1>5. /\ todo' \in [Backups -> SUBSET DOMAIN chain']
      /\ \A n \in todo'["messages"] : chain'[n] \in Messages
      /\ \A n \in todo'["deposits"] : chain'[n] \in Deposits
  BY <1>1, <1>2, <1>4 DEF IInv, GeyserTypeOK
<1>6. GeyserTypeOK'
  BY <1>1, <1>3, <1>5 DEF IInv, GeyserTypeOK
<1>7. HandlingInv'
  BY <1>2, <1>3 DEF IInv, HandlingInv, MessageSteps, DepositSteps
<1>8. CountInv' /\ CountedOnce' /\ CreditInv' /\ CreditIsShown'
  <2>1. \A q \in Processes : at'[q] = at[q] \/ at'[q].step = "next"
    BY <1>3
  <2> QED
    BY <1>1, <2>1, CountKept, CreditKept
<1>9. /\ OnChain' = OnChain /\ (\A u : Beyond(u)' <=> Beyond(u))
      /\ cached' \cap Deposits \subseteq credited' /\ due' \subseteq OnChain'
  BY <1>1, BeyondKept DEF OnChain, IInv, SyncInv
<1>10. SyncedIsCredited'
  BY <1>1, <1>9 DEF IInv, SyncedIsCredited
<1>11. /\ at'["deposits"].step # "idle" => flag'
       /\ at'["deposits"].step = "idle" => ~failed'["deposits"]
  BY <1>1, <1>2, <1>3 DEF IInv, SyncInv
<1>12. ASSUME at'["deposits"].step # "idle", ~failed'["deposits"], NEW d \in due'
       PROVE  \/ d \in credited' \/ Beyond(d)'
              \/ \E n \in todo'["deposits"] : chain'[n] = d
              \/ at'["deposits"].step \in DepositSteps /\ at'["deposits"].tx = d
  <2>1. CASE b = "deposits"
    <3>1. d \in Deposits \cap OnChain
      BY <1>1, <1>12 DEF IInv, GeyserTypeOK, SyncInv
    <3>2. Beyond(d) \/ \E n \in PotentialDeposits : chain[n] = d
      BY <3>1, FoundOrBeyond
    <3>3. todo'["deposits"] = PotentialDeposits
      BY <1>1, <1>2, <2>1 DEF IInv, GeyserTypeOK
    <3> QED
      BY <1>1, <1>9, <3>2, <3>3
  <2>2. CASE b # "deposits"
    <3>1. at'["deposits"] = at["deposits"] /\ todo'["deposits"] = todo["deposits"]
      BY <1>1, <1>2, <1>3, <2>2 DEF IInv, GeyserTypeOK
    <3>2. \/ d \in credited \/ Beyond(d)
          \/ \E n \in todo["deposits"] : chain[n] = d
          \/ at["deposits"].step \in DepositSteps /\ at["deposits"].tx = d
      BY <1>1, <1>12, <3>1 DEF IInv, SyncInv
    <3> QED
      BY <1>1, <1>9, <3>1, <3>2
  <2> QED
    BY <2>1, <2>2
<1>13. SyncInv'
  BY <1>9, <1>11, <1>12 DEF SyncInv
<1> QED
  BY <1>6, <1>7, <1>8, <1>10, <1>13 DEF IInv

LEMMA InvTake ==
    ASSUME IInv, NEW b \in Backups, Take(b)
    PROVE  IInv'
<1> DEFINE t(n) == chain[n]
           skip(n) == t(n) \in cached
<1>1. PICK n \in todo[b] :
        /\ at' = [at EXCEPT ![b] = [step |-> IF skip(n) THEN "next" ELSE FirstStep(t(n)), tx |-> t(n)]]
        /\ pointed' = (pointed \/ (b = "messages" /\ skip(n) /\ ~failed[b]))
        /\ todo' = [todo EXCEPT ![b] = @ \ {n}]
  BY DEF Take
<1>2. /\ at[b].step = "next"
      /\ UNCHANGED <<chain, final, coming, chat, badge, pushed, intents, credited, flag, asking, due,
                     cached, checkpoint, failed, faults, restarts, clean>>
  BY DEF Take, chainVars, chatVars, depositVars, flagVars, faultVars
<1>3. b \in Processes /\ {"messages", "deposits"} \subseteq Processes /\ Backups = {"messages", "deposits"}
  BY DEF Processes, Backups
<1>4. /\ n \in DOMAIN chain /\ t(n) \in Transactions
      /\ b = "messages" => t(n) \in Messages
      /\ b = "deposits" => t(n) \in Deposits
  <2>1. n \in DOMAIN chain
    BY DEF IInv, GeyserTypeOK
  <2>2. t(n) \in Transactions
    BY <2>1 DEF IInv, GeyserTypeOK
  <2> QED
    BY <2>1, <2>2 DEF IInv, GeyserTypeOK
<1>5. /\ FirstStep(t(n)) \in {"message", "deposit"} /\ FirstStep(t(n)) \in Steps /\ "next" \in Steps
      /\ FirstStep(t(n)) = "message" <=> t(n) \in Messages
      /\ FirstStep(t(n)) = "deposit" <=> t(n) \in Deposits
  BY <1>4, FirstStepFacts DEF Steps
<1>6. /\ at' \in [Processes -> [step : Steps, tx : Transactions \cup {None}]]
      /\ at'[b].step = (IF skip(n) THEN "next" ELSE FirstStep(t(n))) /\ at'[b].tx = t(n)
      /\ \A q \in Processes : q # b => at'[q] = at[q]
  BY <1>1, <1>3, <1>4, <1>5 DEF IInv, GeyserTypeOK
<1>7. at'["messages"].tx \notin Deposits /\ at'["deposits"].tx \notin Messages
  BY <1>3, <1>4, <1>6, GeyserSets DEF IInv, GeyserTypeOK
<1>8. /\ todo' \in [Backups -> SUBSET DOMAIN chain']
      /\ \A k \in todo'["messages"] : chain'[k] \in Messages
      /\ \A k \in todo'["deposits"] : chain'[k] \in Deposits
      /\ todo'[b] = todo[b] \ {n} /\ \A c \in Backups \ {b} : todo'[c] = todo[c]
  BY <1>1, <1>2, <1>3 DEF IInv, GeyserTypeOK
<1>9. GeyserTypeOK'
  <2>1. pointed' \in BOOLEAN
    BY <1>1 DEF IInv, GeyserTypeOK
  <2> QED
    BY <1>2, <1>6, <1>7, <1>8, <2>1 DEF IInv, GeyserTypeOK
<1>10. HandlingInv'
  BY <1>3, <1>4, <1>5, <1>6, GeyserSets DEF IInv, HandlingInv, MessageSteps, DepositSteps
<1>11. CountInv' /\ CountedOnce' /\ CreditInv' /\ CreditIsShown'
  <2>1. \A q \in Processes : at'[q] = at[q] \/ at'[q].step \in {"next", "message", "deposit"}
    BY <1>5, <1>6
  <2> QED
    BY <1>2, <2>1, CountKept, CreditKept
<1>12. /\ OnChain' = OnChain /\ (\A u : Beyond(u)' <=> Beyond(u))
       /\ cached' \cap Deposits \subseteq credited' /\ due' \subseteq OnChain'
  BY <1>2, BeyondKept DEF OnChain, IInv, SyncInv
<1>13. SyncedIsCredited'
  BY <1>2, <1>12 DEF IInv, SyncedIsCredited
<1>14. /\ at'["deposits"].step # "idle" => flag'
       /\ at'["deposits"].step = "idle" => ~failed'["deposits"]
  BY <1>2, <1>3, <1>5, <1>6 DEF IInv, SyncInv
<1>15. ASSUME at'["deposits"].step # "idle", ~failed'["deposits"], NEW d \in due'
       PROVE  \/ d \in credited' \/ Beyond(d)'
              \/ \E k \in todo'["deposits"] : chain'[k] = d
              \/ at'["deposits"].step \in DepositSteps /\ at'["deposits"].tx = d
  <2>1. at["deposits"].step # "idle"
    BY <1>2, <1>3, <1>6, <1>15
  <2>2. \/ d \in credited \/ Beyond(d)
        \/ \E k \in todo["deposits"] : chain[k] = d
        \/ at["deposits"].step \in DepositSteps /\ at["deposits"].tx = d
    BY <1>2, <1>15, <2>1 DEF IInv, SyncInv
  <2>3. CASE b = "deposits"
    <3>1. /\ at["deposits"].step \notin DepositSteps
          /\ t(n) \in Deposits
          /\ todo'["deposits"] = todo["deposits"] \ {n}
      BY <1>2, <1>4, <1>8, <2>3 DEF DepositSteps
    <3>2. skip(n) => t(n) \in credited
      BY <3>1 DEF IInv, SyncInv
    <3>3. ~skip(n) => at'["deposits"].step = "deposit" /\ at'["deposits"].tx = t(n)
      BY <1>5, <1>6, <2>3, <3>1
    <3> QED
      BY <1>2, <1>12, <2>2, <3>1, <3>2, <3>3 DEF DepositSteps
  <2>4. CASE b # "deposits"
    <3>1. at'["deposits"] = at["deposits"] /\ todo'["deposits"] = todo["deposits"]
      BY <1>3, <1>6, <1>8, <2>4
    <3> QED
      BY <1>2, <1>12, <2>2, <3>1
  <2> QED
    BY <2>3, <2>4
<1>16. SyncInv'
  BY <1>12, <1>14, <1>15 DEF SyncInv
<1> QED
  BY <1>9, <1>10, <1>11, <1>13, <1>16 DEF IInv

LEMMA RestFacts ==
    ASSUME IInv, NEW b \in Backups, Rest(b)
    PROVE  /\ at' \in [Processes -> [step : Steps, tx : Transactions \cup {None}]]
           /\ at'[b] = Idle /\ \A q \in Processes : q # b => at'[q] = at[q]
           /\ at'["messages"].tx \notin Deposits /\ at'["deposits"].tx \notin Messages
           /\ failed' \in [Backups -> BOOLEAN]
           /\ ~failed'[b] /\ \A c \in Backups : c # b => failed'[c] = failed[c]
           /\ HandlingInv'
<1>1. b \in Processes /\ {"messages", "deposits"} \subseteq Processes /\ Backups = {"messages", "deposits"}
  BY DEF Processes, Backups
<1>2. Idle \in [step : Steps, tx : Transactions \cup {None}] /\ Idle.step = "idle" /\ Idle.tx = None
  BY DEF Idle, Steps
<1>3. /\ at' \in [Processes -> [step : Steps, tx : Transactions \cup {None}]]
      /\ at'[b] = Idle /\ \A q \in Processes : q # b => at'[q] = at[q]
  BY <1>1, <1>2 DEF Rest, IInv, GeyserTypeOK
<1>4. at'["messages"].tx \notin Deposits /\ at'["deposits"].tx \notin Messages
  BY <1>1, <1>2, <1>3, GeyserSets DEF IInv, GeyserTypeOK, Transactions
<1>5. /\ failed' \in [Backups -> BOOLEAN]
      /\ ~failed'[b] /\ \A c \in Backups : c # b => failed'[c] = failed[c]
  BY DEF Rest, IInv, GeyserTypeOK
<1>6. HandlingInv'
  BY <1>1, <1>2, <1>3 DEF IInv, HandlingInv, MessageSteps, DepositSteps
<1> QED
  BY <1>3, <1>4, <1>5, <1>6

LEMMA InvEndMessages ==
    ASSUME IInv, EndMessages
    PROVE  IInv'
<1>1. /\ Rest("messages") /\ at["messages"].step = "next"
      /\ checkpoint' = (IF pointed THEN at["messages"].tx ELSE checkpoint) /\ pointed' = FALSE
      /\ UNCHANGED <<chain, final, coming, chat, badge, pushed, intents, credited, flag, asking, due>>
      /\ UNCHANGED <<cached, faults, restarts, clean>> /\ UNCHANGED todo
  BY DEF EndMessages, chainVars, chatVars, depositVars, flagVars, faultVars
<1>2. {"messages", "deposits"} \subseteq Processes /\ Backups = {"messages", "deposits"}
  BY DEF Processes, Backups
<1>3. /\ at' \in [Processes -> [step : Steps, tx : Transactions \cup {None}]]
      /\ at'["messages"] = Idle /\ \A q \in Processes : q # "messages" => at'[q] = at[q]
      /\ at'["messages"].tx \notin Deposits /\ at'["deposits"].tx \notin Messages
      /\ failed' \in [Backups -> BOOLEAN]
      /\ failed'["deposits"] = failed["deposits"] /\ at'["deposits"] = at["deposits"]
      /\ HandlingInv'
  BY <1>1, <1>2, RestFacts
<1>4. checkpoint' \in Messages \cup {None}
  BY <1>1, <1>2 DEF IInv, GeyserTypeOK, Transactions
<1>5. GeyserTypeOK'
  BY <1>1, <1>3, <1>4 DEF IInv, GeyserTypeOK
<1>6. CountInv' /\ CountedOnce' /\ CreditInv' /\ CreditIsShown'
  <2>1. \A q \in Processes : at'[q] = at[q] \/ at'[q].step = "idle"
    BY <1>3 DEF Idle
  <2> QED
    BY <1>1, <2>1, CountKept, CreditKept
<1>7. SyncInv' /\ SyncedIsCredited'
  <2>1. UNCHANGED <<chain, flag, due, todo>> /\ credited' = credited /\ cached' = cached
    BY <1>1
  <2>2. /\ cached' \cap Deposits \subseteq credited'
        /\ at["deposits"].step = "idle" => ~failed'["deposits"]
    BY <1>3, <2>1 DEF IInv, SyncInv
  <2> QED
    BY <1>3, <2>1, <2>2, SyncKept
<1> QED
  BY <1>3, <1>5, <1>6, <1>7 DEF IInv

\* A pass that found nothing more to do and met no error left nothing that is due.
LEMMA InvEndDeposits ==
    ASSUME IInv, EndDeposits
    PROVE  IInv'
<1>1. /\ Rest("deposits") /\ at["deposits"].step = "next" /\ todo["deposits"] = {}
      /\ flag' = (flag /\ failed["deposits"])
      /\ UNCHANGED <<chain, final, coming, chat, badge, pushed, intents, credited, asking, due>>
      /\ UNCHANGED <<cached, checkpoint, todo, pointed, faults, restarts, clean>>
  BY DEF EndDeposits, chainVars, chatVars, depositVars, backupVars, faultVars
<1>2. {"messages", "deposits"} \subseteq Processes /\ Backups = {"messages", "deposits"}
  BY DEF Processes, Backups
<1>3. /\ at' \in [Processes -> [step : Steps, tx : Transactions \cup {None}]]
      /\ at'["deposits"] = Idle /\ \A q \in Processes : q # "deposits" => at'[q] = at[q]
      /\ at'["messages"].tx \notin Deposits /\ at'["deposits"].tx \notin Messages
      /\ failed' \in [Backups -> BOOLEAN] /\ ~failed'["deposits"]
      /\ HandlingInv'
  BY <1>1, <1>2, RestFacts
<1>4. GeyserTypeOK'
  <2>1. flag' \in BOOLEAN
    BY <1>1
  <2> QED
    BY <1>1, <1>3, <2>1 DEF IInv, GeyserTypeOK
<1>5. CountInv' /\ CountedOnce' /\ CreditInv' /\ CreditIsShown'
  <2>1. \A q \in Processes : at'[q] = at[q] \/ at'[q].step = "idle"
    BY <1>3 DEF Idle
  <2> QED
    BY <1>1, <2>1, CountKept, CreditKept
<1>6. OnChain' = OnChain /\ (\A u : Beyond(u)' <=> Beyond(u))
  BY <1>1, BeyondKept DEF OnChain
<1>7. SyncInv'
  BY <1>1, <1>3, <1>6 DEF IInv, SyncInv, Idle
<1>8. SyncedIsCredited'
  <2>1. CASE failed["deposits"]
    <3>1. flag' = TRUE
      BY <1>1, <2>1 DEF IInv, SyncInv
    <3> QED
      BY <3>1 DEF SyncedIsCredited
  <2>2. CASE ~failed["deposits"]
    <3>1. \A d \in due : d \in credited \/ Beyond(d)
      BY <1>1, <2>2 DEF IInv, SyncInv, DepositSteps
    <3> QED
      BY <1>1, <1>6, <3>1 DEF SyncedIsCredited
  <2> QED
    BY <2>1, <2>2
<1> QED
  BY <1>3, <1>4, <1>5, <1>7, <1>8 DEF IInv

LEMMA InvRestart ==
    ASSUME IInv, Restart
    PROVE  IInv'
<1>1. /\ at' = [p \in Processes |-> Idle] /\ todo' = [b \in Backups |-> {}]
      /\ failed' = [b \in Backups |-> FALSE] /\ pointed' = FALSE
      /\ cached' = {} /\ checkpoint' = None /\ clean' = TRUE
      /\ UNCHANGED <<chain, final, coming, chat, badge, pushed, intents, credited, flag, asking, due>>
      /\ UNCHANGED faults
  BY DEF Restart, chainVars, chatVars, depositVars, flagVars
<1>2. restarts' \in 0 .. MaxRestarts
  <2>1. restarts \in 0 .. MaxRestarts /\ restarts < MaxRestarts /\ restarts' = restarts + 1
    BY DEF Restart, IInv, GeyserTypeOK
  <2> QED
    BY <2>1, GeyserBounds
<1>3. {"messages", "deposits"} \subseteq Processes /\ Backups = {"messages", "deposits"}
  BY DEF Processes, Backups
<1>4. Idle \in [step : Steps, tx : Transactions \cup {None}] /\ Idle.step = "idle" /\ Idle.tx = None
  BY DEF Idle, Steps
<1>5. GeyserTypeOK'
  BY <1>1, <1>2, <1>3, <1>4, GeyserSets DEF IInv, GeyserTypeOK, Transactions
<1>6. HandlingInv'
  BY <1>1, <1>3, <1>4 DEF HandlingInv, MessageSteps, DepositSteps
<1>7. CountInv' /\ CountedOnce' /\ CreditInv' /\ CreditIsShown'
  <2>1. \A q \in Processes : at'[q].step = "idle"
    BY <1>1, <1>4
  <2> QED
    BY <1>1, <2>1, CountKept, CreditKept
<1>8. OnChain' = OnChain /\ (\A u : Beyond(u)' <=> Beyond(u))
  BY <1>1, BeyondKept DEF OnChain
<1>9. SyncInv'
  BY <1>1, <1>3, <1>4, <1>8 DEF IInv, SyncInv
<1>10. SyncedIsCredited'
  BY <1>1, <1>8 DEF IInv, SyncedIsCredited
<1> QED
  BY <1>5, <1>6, <1>7, <1>9, <1>10 DEF IInv

LEMMA InvStutter ==
    ASSUME IInv, UNCHANGED vars
    PROVE  IInv'
<1> USE DEF vars, chainVars, chatVars, depositVars, flagVars, backupVars, faultVars
<1>1. GeyserTypeOK'
  BY DEF IInv, GeyserTypeOK
<1>2. HandlingInv'
  BY DEF IInv, HandlingInv
<1>3. CountInv' /\ CountedOnce' /\ CreditInv' /\ CreditIsShown'
  BY CountKept, CreditKept
<1>4. SyncInv' /\ SyncedIsCredited'
  <2>1. UNCHANGED <<chain, flag, due, todo>> /\ UNCHANGED <<at, credited, cached, failed>>
    OBVIOUS
  <2>2. /\ cached' \cap Deposits \subseteq credited'
        /\ at["deposits"].step = "idle" => ~failed'["deposits"]
    BY <2>1 DEF IInv, SyncInv
  <2> QED
    BY <2>1, <2>2, SyncKept
<1> QED
  BY <1>1, <1>2, <1>3, <1>4 DEF IInv

LEMMA InvStep == IInv /\ [Next]_vars => IInv'
<1> SUFFICES ASSUME IInv, [Next]_vars PROVE IInv'
  OBVIOUS
<1>1. Workers \subseteq Processes /\ Backups \subseteq Processes
  BY DEF Processes
<1>2. ASSUME NEW t \in Transactions, Arrive(t) PROVE IInv'
  BY <1>2, InvArrive
<1>3. CASE Finalize \/ Ask \/ SetFlag
  BY <1>3, InvFinalizeAsk, InvSetFlag
<1>4. ASSUME NEW w \in Workers, NEW t \in Transactions, HandleUpdate(w, t) PROVE IInv'
  BY <1>4, InvHandleUpdate
<1>5. ASSUME NEW p \in Processes, Handle(p) \/ Fail(p) \/ GiveUp(p) PROVE IInv'
  BY <1>5, InvHandle, InvFailures
<1>6. ASSUME NEW b \in Backups, BackupStep(b) PROVE IInv'
  BY <1>1, <1>5, <1>6, InvFind, InvTake, InvEndMessages, InvEndDeposits DEF BackupStep
<1>7. CASE Restart
  BY <1>7, InvRestart
<1>8. CASE UNCHANGED vars
  BY <1>8, InvStutter
<1> QED
  BY <1>1, <1>2, <1>3, <1>4, <1>5, <1>6, <1>7, <1>8 DEF Next

(***************************************************************************)
(* The theorems.                                                           *)
(***************************************************************************)

\* The invariant holds in every behaviour.
LEMMA Invariance == Spec => []IInv
  BY InvInit, InvStep, PTL DEF Spec

\* Every variable has its type, with what a backup found being in the chain.
THEOREM TypeCorrect == Spec => []GeyserTypeOK
<1>1. IInv => GeyserTypeOK
  BY DEF IInv
<1> QED
  BY <1>1, Invariance, PTL

\* However often Geyser repeats an update, whichever backup finds the transaction
\* again and whenever the process stops, SendChatMessage counts and pushes a
\* message once at most, and pushes only what it counted.
THEOREM MessagesCountedOnce == Spec => []CountedOnce
<1>1. IInv => CountedOnce
  BY DEF IInv
<1> QED
  BY <1>1, Invariance, PTL

\* processPotentialExternalDeposit never adds to a balance what is missing in the
\* payment history or in the chat.
THEOREM CreditsAreShown == Spec => []CreditIsShown
<1>1. IInv => CreditIsShown
  BY DEF IInv
<1> QED
  BY <1>1, Invariance, PTL

\* markDepositsAsSynced takes back the flag only when the deposits that were on the
\* chain when it was set are credited or beyond the reach of the backup.
THEOREM SyncedDepositsAreCredited == Spec => []SyncedIsCredited
<1>1. IInv => SyncedIsCredited
  BY DEF IInv
<1> QED
  BY <1>1, Invariance, PTL

=============================================================================
