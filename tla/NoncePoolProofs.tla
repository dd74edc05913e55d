--------------------------- MODULE NoncePoolProofs ---------------------------
(* Proofs about NoncePool, for any sets of nonces, fulfillments and sessions *)
(* and any number of crashes and failed writes: types, the exclusiveness of  *)
(* upgrades and the freshness of what is available always; that no           *)
(* fulfillment is stranded, while timelocks stay managed; and that no nonce  *)
(* stays reserved without an owner, without the faults that leak one.        *)
EXTENDS NoncePool, TLAPS

-----------------------------------------------------------------------------
(* The inductive invariants.                                                *)

\* Blockchain: a nonce in use exists, an executed transaction used its
\* blockhash up, and a fulfillment gets its nonce once.
ChainInv ==
    /\ \A n \in Nonces : nState[n] = "Unknown" => nSig[n] = n
    /\ \A n \in Nonces :
          nState[n] \in {"Released", "Available", "Reserved"} => tx[n] = "finalized"
    /\ \A f \in Fuls : sel[f] # NoNonce => tx[sel[f]] = "finalized"
    /\ \A f \in Fuls : fNonce[f] # NoNonce => tx[fNonce[f]] = "finalized"
    /\ \A f \in Fuls : fNonce[f] = NoNonce => tx[f] = "none"
    /\ \A f \in Fuls : tx[f] \in Executed => fBh[f] < chainBh[fNonce[f]]
    /\ \A f \in Fuls : phase[HolderOf[f]] = "open" => fNonce[f] = NoNonce
    /\ \A f \in Fuls \ OnDemand : fState[f] = "None" => fNonce[f] = NoNonce
    /\ \A f, g \in Fuls :
          f # g /\ fNonce[f] = fNonce[g] /\ fNonce[f] # NoNonce /\ fBh[f] = fBh[g]
          => ~(tx[f] \in Executed /\ tx[g] \in Executed)

\* An upgrade holds, and later owns, the nonce of the transfer it replaces.
SharedInv ==
    \A u \in Upgrades :
       /\ pick[u] = NoNonce
       /\ sel[u] # NoNonce => sel[u] = fNonce[TempOf[u]] /\ selBh[u] = fBh[TempOf[u]]
       /\ fNonce[u] # NoNonce => fNonce[u] = fNonce[TempOf[u]] /\ fBh[u] = fBh[TempOf[u]]

\* What the store knows of blockhashes lags behind the blockchain, never ahead.
BlockhashInv ==
    /\ \A n \in Nonces : nBh[n] <= chainBh[n]
    /\ \A n \in Nonces : nState[n] \in {"None", "Unknown", "Invalid"} => nBh[n] = 0
    /\ \A n \in Nonces : tx[n] = "finalized" => chainBh[n] >= 1
    /\ \A n \in Nonces : nState[n] = "Released" => nBh[n] < chainBh[n]
    /\ \A f \in Fuls : fNonce[f] # NoNonce => fBh[f] <= nBh[fNonce[f]]
    /\ \A u \in Upgrades, f \in Fuls :
          sel[u] # NoNonce /\ fNonce[f] = sel[u] => fBh[f] <= selBh[u]

\* What the sequencer is about to write follows from the states it read.
WorkInv ==
    /\ \A f \in Fuls : work[f] \in {"submit", "revoke", "revokeSaved"} => fState[f] = "Unknown"
    /\ \A f \in Fuls : work[f] = "finishSaved" => fState[f] = "Pending" /\ tx[f] \in Executed
    /\ \A f \in Fuls : work[f] = "revoke" => IsRevoked(f)
    /\ \A f \in Fuls : work[f] = "revokeSaved" => IsRevoked(f) \/ (f \in Temps /\ Upgraded(f))
    /\ \A f \in Fuls : tx[f] # "none" => fState[f] \in {"Pending", "Confirmed", "Failed"}
    /\ \A f \in Fuls : tx[f] = "sent" => fState[f] = "Pending"
    /\ \A d \in OnDemand : fState[d] = "Unknown" => fNonce[d] = NoNonce
    /\ \A d \in OnDemand : fState[d] # "None"
    /\ \A d \in OnDemand : phase[HolderOf[d]] = "open" => fState[d] = "Pending"

\* An upgrade and the deadline exclude each other.
DeadlineInv ==
    /\ \A t \in Temps : work[t] = "submit" \/ fState[t] \in {"Pending", "Confirmed", "Failed"}
          => t \in overdue /\ ~Upgraded(t)
    /\ \A u \in Upgrades : phase[HolderOf[u]] = "open" =>
          TempOf[u] \notin overdue /\ fState[TempOf[u]] = "Unknown" /\ fState[u] = "None"
    /\ \A u \in Upgrades : fState[u] # "None" => fState[TempOf[u]] \in {"Unknown", "Revoked"}

\* g will never be submitted although it names the current blockhash.
Dead(g) ==
    /\ tx[g] = "none"
    /\ work[g] # "submit"
    /\ fState[g] = "Revoked" \/ (fState[g] = "Unknown" /\ IsRevoked(g))
Fresh(n) ==
    /\ nBh[n] = chainBh[n]
    /\ \A g \in Fuls : fNonce[g] = n /\ fBh[g] = nBh[n] => Dead(g)

\* A selected nonce that got no signature in memory is as fresh as an available
\* one, and nobody else holds it.
SelectInv ==
    /\ \A f, g \in Fuls : sel[f] = sel[g] /\ sel[f] # NoNonce => f = g
    /\ \A f \in Fuls : sel[f] # NoNonce => phase[HolderOf[f]] # "idle"
    /\ \A f \in Fuls : pick[f] # NoNonce => sel[f] = NoNonce /\ phase[HolderOf[f]] = "open"
    /\ \A f \in Fuls : sel[f] # NoNonce /\ selSig[f] = NoSig =>
          /\ nState[sel[f]] = "Reserved"
          /\ nSig[sel[f]] = NoSig
          /\ nBh[sel[f]] = selBh[f]
          /\ Fresh(sel[f])
    /\ \A f \in Fuls \ Upgrades :
          sel[f] # NoNonce /\ phase[HolderOf[f]] = "open" => selSig[f] = NoSig
    /\ \A u \in Upgrades : sel[u] # NoNonce => selSig[u] # NoSig

\* An available nonce is unsigned and fresh.
AvailableInv == \A n \in Nonces : nState[n] = "Available" => nSig[n] = NoSig /\ Fresh(n)

\* The fulfillment a nonce is reserved for, and nobody else on its blockhash.
\* (An upgrade shares it with the transfer it replaces: UpgradeInv.)
MatchInv ==
    \A f \in Fuls \ Upgrades : Matches(f) /\ tx[f] \notin Executed =>
        /\ chainBh[fNonce[f]] = fBh[f]
        /\ \A g \in Fuls : g # f /\ fNonce[g] = fNonce[f] /\ fBh[g] = fBh[f] => Dead(g)

\* When timelocks stay managed, the transfer an upgrade replaces has the nonce
\* until the upgrade commits, and nobody after that.
UpgradeInv ==
    /\ \A u \in Upgrades : sel[u] # NoNonce /\ phase[HolderOf[u]] = "open" =>
          /\ nState[sel[u]] = "Reserved"
          /\ nSig[sel[u]] = TempOf[u]
          /\ nBh[sel[u]] = selBh[u]
    /\ \A u \in Upgrades : Matches(u) /\ tx[u] \notin Executed =>
          /\ chainBh[fNonce[u]] = fBh[u]
          /\ \A g \in Fuls : g # u /\ fNonce[g] = fNonce[u] /\ fBh[g] = fBh[u] =>
                \/ Dead(g)
                \/ /\ g = TempOf[u]
                   /\ tx[g] = "none" /\ work[g] # "submit"
                   /\ fState[g] \in {"Unknown", "Revoked"}

\* Whoever may still be submitted is the one its nonce is reserved for.
LiveInv ==
    \A f \in Fuls : fNonce[f] # NoNonce =>
        /\ fState[f] = "Pending" /\ tx[f] \notin Executed => Matches(f)
        /\ fState[f] = "Unknown" /\ ~Upgraded(f) /\ (work[f] = "submit" \/ ~IsRevoked(f))
           => Matches(f)

\* What holds whatever becomes of timelocks, and what holds while they stay
\* managed.
NonceInv ==
    /\ TypeOK /\ ChainInv /\ SharedInv /\ BlockhashInv /\ WorkInv
    /\ SelectInv /\ AvailableInv /\ MatchInv
PoolInv == NonceInv /\ DeadlineInv /\ UpgradeInv /\ LiveInv

-----------------------------------------------------------------------------
(* Type correctness.                                                        *)

\* A committing session signs each nonce with a fulfillment that selected it
\* (nonce.go:189-249).
LEMMA SignerSigns ==
    ASSUME NEW h \in Holders, NEW n \in Signed(h)
    PROVE  Signer(h, n) \in Fuls /\ sel[Signer(h, n)] = n
<1>1. PICK f \in SignedBy(h, n) : TRUE
  BY DEF Signed
<1>2. Signer(h, n) \in SignedBy(h, n)
  BY <1>1 DEF Signer
<1> QED
  BY <1>2 DEF SignedBy, Members

\* What a committed DB transaction writes, fulfillment by fulfillment.
CommitWrites(h) ==
    /\ \A f \in Fuls : HolderOf[f] = h =>
          /\ sel[f] \in Nonces /\ phase[h] = "open"
          /\ fNonce'[f] = sel[f] /\ fBh'[f] = selBh[f] /\ selSig'[f] = f
          /\ fState'[f] = IF f \in OnDemand THEN fState[f] ELSE "Unknown"
          /\ nState'[sel[f]] = "Reserved" /\ nSig'[sel[f]] = f /\ nBh'[sel[f]] = selBh[f]
    /\ \A f \in Fuls : HolderOf[f] # h =>
          /\ fNonce'[f] = fNonce[f] /\ fBh'[f] = fBh[f] /\ selSig'[f] = selSig[f]
          /\ fState'[f] = fState[f]
    /\ \A n \in Nonces :
          \/ \E f \in Fuls : HolderOf[f] = h /\ sel[f] = n
          \/ nState'[n] = nState[n] /\ nSig'[n] = nSig[n] /\ nBh'[n] = nBh[n]
    /\ phase' = [phase EXCEPT ![h] = "closing"]
    /\ UNCHANGED <<tx, chainBh, pick, sel, selBh, work, overdue, closed>>

\* Every nonce a session commits is signed by the one fulfillment that selected
\* it (intent.go:807-928, worker.go:246-258).
LEMMA CommitEffect ==
    ASSUME TypeOK, SelectInv, NEW h \in Holders, Commit(h)
    PROVE  CommitWrites(h)
<1> USE DEF TypeOK, Commit, Holding, Members, SaveSigned
<1>1. \A f \in Fuls : HolderOf[f] = h => sel[f] \in Signed(h) /\ Signer(h, sel[f]) = f
  <2> SUFFICES ASSUME NEW f \in Fuls, HolderOf[f] = h
               PROVE  sel[f] \in Signed(h) /\ Signer(h, sel[f]) = f
    OBVIOUS
  <2>1. sel[f] \in Nonces /\ f \in SignedBy(h, sel[f])
    BY DEF SignedBy
  <2>2. sel[f] \in Signed(h)
    BY <2>1 DEF Signed
  <2> QED
    BY <2>2, SignerSigns, <2>1 DEF SelectInv
<1>2. \A n \in Signed(h) : \E f \in Fuls : HolderOf[f] = h /\ sel[f] = n
  BY DEF Signed, SignedBy
<1> QED
  BY <1>1, <1>2 DEF Signed, CommitWrites, chainVars, envVars

\* Every step keeps the types.
LEMMA TypeStep ==
    ASSUME TypeOK, [Next]_vars
    PROVE  TypeOK'
<1> USE NonceKinds, FulfillmentKinds, SessionKinds, Bounds, SignerSigns
    DEF TypeOK, Sigs, Fuls, Executed, NonceStates, FulfillmentStates, TxStates,
        WorkStates, nonceVars, fulVars, chainVars, selVars, envVars, faultVars
<1>1. CASE UNCHANGED vars
  BY <1>1 DEF vars
<1>2. ASSUME NEW n \in Nonces, CreateNonce(n) PROVE TypeOK'
  BY <1>2 DEF CreateNonce
<1>3. ASSUME NEW n \in Nonces, BroadcastCreation(n) PROVE TypeOK'
  BY <1>3 DEF BroadcastCreation
<1>4. ASSUME NEW n \in Nonces, LandCreation(n) PROVE TypeOK'
  BY <1>4 DEF LandCreation
<1>5. ASSUME NEW n \in Nonces, MarkReleased(n) PROVE TypeOK'
  BY <1>5 DEF MarkReleased
<1>6. ASSUME NEW n \in Nonces, MarkInvalid(n) PROVE TypeOK'
  BY <1>6 DEF MarkInvalid
<1>7. ASSUME NEW n \in Nonces, MarkAvailable(n) PROVE TypeOK'
  BY <1>7 DEF MarkAvailable
<1>8. ASSUME NEW h \in Holders, StartIntent(h) PROVE TypeOK'
  BY <1>8 DEF StartIntent, ClientHolders, Members
<1>9. ASSUME NEW h \in Holders, Commit(h) PROVE TypeOK'
  BY <1>9 DEF Commit, SaveSigned, Holding, Members
<1>10. ASSUME NEW h \in Holders, CommitFails(h) PROVE TypeOK'
  BY <1>10 DEF CommitFails, Holding, Members
<1>11. ASSUME NEW h \in Holders, Abort(h) PROVE TypeOK'
  BY <1>11 DEF Abort, Members
<1>12. ASSUME NEW h \in Holders, EndSession(h) PROVE TypeOK'
  BY <1>12 DEF EndSession, Members
<1>13. ASSUME NEW d \in OnDemand, StartOnDemand(d) PROVE TypeOK'
  BY <1>13 DEF StartOnDemand
<1>14. ASSUME NEW u \in Upgrades, StartUpgrade(u) PROVE TypeOK'
  BY <1>14 DEF StartUpgrade, Upgraded
<1>15. ASSUME NEW u \in Upgrades, SelectUpgradeNonce(u) PROVE TypeOK'
  <2> u \in Fuls /\ TempOf[u] \in Fuls
    OBVIOUS
  <2> QED
    BY <1>15 DEF SelectUpgradeNonce
<1>16. ASSUME NEW f \in Fuls, NEW n \in Nonces, PickNonce(f, n) PROVE TypeOK'
  BY <1>16 DEF PickNonce, Free, InState
<1>17. ASSUME NEW f \in Fuls, ReserveNonce(f) PROVE TypeOK'
  BY <1>17 DEF ReserveNonce, Unlocked
<1>18. ASSUME NEW f \in Fuls, AbandonPick(f) PROVE TypeOK'
  BY <1>18 DEF AbandonPick, Unlocked
<1>19. ASSUME NEW f \in Fuls, Release(f) PROVE TypeOK'
  BY <1>19 DEF Release
<1>20. ASSUME NEW f \in Fuls, DecideToSubmit(f) PROVE TypeOK'
  BY <1>20 DEF DecideToSubmit, IsRevoked, CanSubmit, Upgraded
<1>21. ASSUME NEW f \in Fuls, MarkPending(f) PROVE TypeOK'
  BY <1>21 DEF MarkPending
<1>22. ASSUME NEW f \in Fuls, RevokeUsed(f) PROVE TypeOK'
  BY <1>22 DEF RevokeUsed, RevokedByUpgrade, Upgraded
<1>23. ASSUME NEW f \in Fuls, DecideToRevoke(f) PROVE TypeOK'
  BY <1>23 DEF DecideToRevoke, IsRevoked
<1>24. ASSUME NEW f \in Fuls, ReturnNonce(f) PROVE TypeOK'
  BY <1>24 DEF ReturnNonce, Matches
<1>25. ASSUME NEW f \in Fuls, RevokeFails(f) PROVE TypeOK'
  BY <1>25 DEF RevokeFails, Matches
<1>26. ASSUME NEW f \in Fuls, MarkRevoked(f) PROVE TypeOK'
  BY <1>26 DEF MarkRevoked
<1>27. ASSUME NEW f \in Fuls, SendToBlockchain(f) PROVE TypeOK'
  BY <1>27 DEF SendToBlockchain
<1>28. ASSUME NEW f \in Fuls, Land(f) PROVE TypeOK'
  BY <1>28 DEF Land
<1>29. ASSUME NEW f \in Fuls, ReleaseNonce(f) PROVE TypeOK'
  BY <1>29 DEF ReleaseNonce, Matches
<1>30. ASSUME NEW f \in Fuls, FinishFulfillment(f) PROVE TypeOK'
  BY <1>30 DEF FinishFulfillment
<1>31. ASSUME NEW f \in Fuls, WriteFails(f) PROVE TypeOK'
  BY <1>31 DEF WriteFails
<1>32. ASSUME NEW t \in Temps, DeadlinePasses(t) PROVE TypeOK'
  BY <1>32 DEF DeadlinePasses
<1>33. ASSUME NEW d \in Dormants, TimelockCloses(d) PROVE TypeOK'
  BY <1>33 DEF TimelockCloses
<1>34. CASE Crash
  BY <1>34 DEF Crash
<1> QED
  BY <1>1, <1>2, <1>3, <1>4, <1>5, <1>6, <1>7, <1>8, <1>9, <1>10, <1>11, <1>12, <1>13,
     <1>14, <1>15, <1>16, <1>17, <1>18, <1>19, <1>20, <1>21, <1>22, <1>23, <1>24, <1>25,
     <1>26, <1>27, <1>28, <1>29, <1>30, <1>31, <1>32, <1>33, <1>34 DEF Next

\* Every variable keeps its type (the records of data/nonce and
\* data/fulfillment, the SelectedNonce in memory).
THEOREM TypeCorrect == Spec => []TypeOK
<1>1. Init => TypeOK
  BY NonceKinds, FulfillmentKinds, SessionKinds, Bounds
  DEF Init, TypeOK, Fuls, Sigs, NonceStates, FulfillmentStates, TxStates, WorkStates
<1> QED
  BY <1>1, TypeStep, PTL DEF Spec

-----------------------------------------------------------------------------
(* One execution per blockhash, with or without timelocks that unlock.      *)

\* A step keeps what the blockchain and the stores owe each other.
LEMMA ChainStep ==
    ASSUME TypeOK, ChainInv, [Next]_vars
    PROVE  ChainInv'
<1> USE NonceKinds, FulfillmentKinds, SessionKinds, SignerSigns
    DEF TypeOK, Sigs, Fuls, Executed, NonceStates, FulfillmentStates, TxStates,
        WorkStates, nonceVars, fulVars, chainVars, selVars, envVars, faultVars, ChainInv
<1>1. CASE \/ \E f \in Fuls, n \in Nonces : PickNonce(f, n)
           \/ \E f \in Fuls : AbandonPick(f) \/ DecideToSubmit(f) \/
                      RevokeUsed(f) \/ DecideToRevoke(f) \/
                      RevokeFails(f) \/ WriteFails(f)
           \/ \E t \in Temps : DeadlinePasses(t)
           \/ \E d \in Dormants : TimelockCloses(d)
           \/ UNCHANGED vars
  BY <1>1 DEF PickNonce, AbandonPick, DecideToSubmit, RevokeUsed, DecideToRevoke,
        RevokeFails, WriteFails, DeadlinePasses, TimelockCloses, vars
<1>2. ASSUME NEW n \in Nonces, CreateNonce(n) PROVE ChainInv'
  BY <1>2 DEF CreateNonce
<1>3. ASSUME NEW n \in Nonces, BroadcastCreation(n) PROVE ChainInv'
  BY <1>3 DEF BroadcastCreation
<1>4. ASSUME NEW n \in Nonces, LandCreation(n) PROVE ChainInv'
  <2>1. nState[n] \notin {"Released", "Available", "Reserved"}
    BY <1>4 DEF LandCreation
  <2>2. \A f \in Fuls : fNonce[f] # n /\ tx'[f] = tx[f]
    BY <1>4 DEF LandCreation
  <2> QED
    BY <1>4, <2>1, <2>2 DEF LandCreation
<1>5. ASSUME NEW n \in Nonces, MarkReleased(n) PROVE ChainInv'
  BY <1>5 DEF MarkReleased
<1>6. ASSUME NEW n \in Nonces, MarkInvalid(n) PROVE ChainInv'
  BY <1>6 DEF MarkInvalid
<1>7. ASSUME NEW n \in Nonces, MarkAvailable(n) PROVE ChainInv'
  BY <1>7 DEF MarkAvailable
<1>8. ASSUME NEW h \in Holders, StartIntent(h) PROVE ChainInv'
  BY <1>8 DEF StartIntent, ClientHolders, Members
<1>9. ASSUME NEW h \in Holders, Commit(h) PROVE ChainInv'
  BY SMTT(30), <1>9 DEF Commit, SaveSigned, Holding, Members
<1>10. ASSUME NEW h \in Holders, CommitFails(h) PROVE ChainInv'
  BY <1>10 DEF CommitFails, Holding, Members
<1>11. ASSUME NEW h \in Holders, Abort(h) PROVE ChainInv'
  BY <1>11 DEF Abort, Members
<1>12. ASSUME NEW h \in Holders, EndSession(h) PROVE ChainInv'
  BY <1>12 DEF EndSession, Members
<1>13. ASSUME NEW d \in OnDemand, StartOnDemand(d) PROVE ChainInv'
  BY <1>13 DEF StartOnDemand
<1>14. ASSUME NEW u \in Upgrades, StartUpgrade(u) PROVE ChainInv'
  BY <1>14 DEF StartUpgrade, Upgraded
<1>15. ASSUME NEW u \in Upgrades, SelectUpgradeNonce(u) PROVE ChainInv'
  BY <1>15 DEF SelectUpgradeNonce, Unlocked
<1>16. ASSUME NEW f \in Fuls, ReserveNonce(f) PROVE ChainInv'
  BY <1>16 DEF ReserveNonce, Unlocked
<1>17. ASSUME NEW f \in Fuls, Release(f) PROVE ChainInv'
  BY <1>17 DEF Release
<1>18. ASSUME NEW f \in Fuls, MarkPending(f) PROVE ChainInv'
  BY <1>18 DEF MarkPending
<1>19. ASSUME NEW f \in Fuls, ReturnNonce(f) PROVE ChainInv'
  BY <1>19 DEF ReturnNonce, Matches
<1>20. ASSUME NEW f \in Fuls, MarkRevoked(f) PROVE ChainInv'
  BY <1>20 DEF MarkRevoked
<1>21. ASSUME NEW f \in Fuls, SendToBlockchain(f) PROVE ChainInv'
  BY <1>21 DEF SendToBlockchain
<1>22. ASSUME NEW f \in Fuls, Land(f) PROVE ChainInv'
  BY <1>22 DEF Land
<1>23. ASSUME NEW f \in Fuls, ReleaseNonce(f) PROVE ChainInv'
  BY <1>23 DEF ReleaseNonce, Matches
<1>24. ASSUME NEW f \in Fuls, FinishFulfillment(f) PROVE ChainInv'
  BY <1>24 DEF FinishFulfillment
<1>25. CASE Crash
  BY <1>25 DEF Crash
<1> QED
  BY <1>1, <1>2, <1>3, <1>4, <1>5, <1>6, <1>7, <1>8, <1>9, <1>10, <1>11, <1>12, <1>13,
     <1>14, <1>15, <1>16, <1>17, <1>18, <1>19, <1>20, <1>21, <1>22, <1>23, <1>24, <1>25 DEF Next

\* A step keeps upgrades on the blockhash of the transfer they replace.
LEMMA SharedStep ==
    ASSUME TypeOK, ChainInv, SharedInv, [Next]_vars
    PROVE  SharedInv'
<1> USE NonceKinds, FulfillmentKinds, SessionKinds
    DEF TypeOK, Sigs, Fuls, Executed, NonceStates, FulfillmentStates, TxStates,
        WorkStates, nonceVars, fulVars, chainVars, selVars, envVars, faultVars,
        ChainInv, SharedInv
<1>1. CASE \/ \E n \in Nonces : CreateNonce(n) \/ BroadcastCreation(n) \/
                      LandCreation(n) \/ MarkReleased(n) \/
                      MarkInvalid(n) \/ MarkAvailable(n)
           \/ \E h \in Holders : StartIntent(h) \/ CommitFails(h) \/ Abort(h) \/
                      EndSession(h)
           \/ \E d \in OnDemand : StartOnDemand(d)
           \/ \E u \in Upgrades : StartUpgrade(u)
           \/ \E f \in Fuls : DecideToSubmit(f) \/ MarkPending(f) \/
                      RevokeUsed(f) \/ DecideToRevoke(f) \/
                      ReturnNonce(f) \/ RevokeFails(f) \/
                      MarkRevoked(f) \/ SendToBlockchain(f) \/
                      Land(f) \/ ReleaseNonce(f) \/
                      FinishFulfillment(f) \/ WriteFails(f)
           \/ \E t \in Temps : DeadlinePasses(t)
           \/ \E d \in Dormants : TimelockCloses(d)
           \/ UNCHANGED vars
  <2>1. CASE \E n \in Nonces : \/ CreateNonce(n) \/ BroadcastCreation(n) \/ LandCreation(n)
                              \/ MarkReleased(n) \/ MarkInvalid(n) \/ MarkAvailable(n)
    BY <2>1 DEF CreateNonce, BroadcastCreation, LandCreation, MarkReleased, MarkInvalid,
         MarkAvailable
  <2>2. CASE \/ \E h \in Holders : StartIntent(h) \/ CommitFails(h) \/ Abort(h) \/ EndSession(h)
             \/ \E d \in OnDemand : StartOnDemand(d)
             \/ \E u \in Upgrades : StartUpgrade(u)
    BY <2>2 DEF StartIntent, CommitFails, Abort, EndSession, StartOnDemand, StartUpgrade
  <2>3. CASE \E f \in Fuls : \/ DecideToSubmit(f) \/ MarkPending(f) \/ RevokeUsed(f)
                            \/ DecideToRevoke(f) \/ ReturnNonce(f) \/ RevokeFails(f)
    BY <2>3 DEF DecideToSubmit, MarkPending, RevokeUsed, DecideToRevoke, ReturnNonce,
         RevokeFails
  <2>4. CASE \/ \E f \in Fuls : \/ MarkRevoked(f) \/ SendToBlockchain(f) \/ Land(f)
                               \/ ReleaseNonce(f) \/ FinishFulfillment(f) \/ WriteFails(f)
             \/ \E t \in Temps : DeadlinePasses(t)
             \/ \E d \in Dormants : TimelockCloses(d)
             \/ UNCHANGED vars
    BY <2>4 DEF MarkRevoked, SendToBlockchain, Land, ReleaseNonce, FinishFulfillment,
         WriteFails, DeadlinePasses, TimelockCloses, vars
  <2> QED
    BY ONLY <1>1, <2>1, <2>2, <2>3, <2>4
<1>2. ASSUME NEW h \in Holders, Commit(h) PROVE SharedInv'
  BY <1>2 DEF Commit, SaveSigned, Holding, Members
<1>3. ASSUME NEW u \in Upgrades, SelectUpgradeNonce(u) PROVE SharedInv'
  BY <1>3 DEF SelectUpgradeNonce, Unlocked
<1>4. ASSUME NEW f \in Fuls, NEW n \in Nonces, PickNonce(f, n) PROVE SharedInv'
  BY <1>4 DEF PickNonce, Free, InState
<1>5. ASSUME NEW f \in Fuls, ReserveNonce(f) PROVE SharedInv'
  BY <1>5 DEF ReserveNonce, Unlocked
<1>6. ASSUME NEW f \in Fuls, AbandonPick(f) PROVE SharedInv'
  BY <1>6 DEF AbandonPick, Unlocked
<1>7. ASSUME NEW f \in Fuls, Release(f) PROVE SharedInv'
  BY <1>7 DEF Release
<1>8. CASE Crash
  BY <1>8 DEF Crash
<1> QED
  BY <1>1, <1>2, <1>3, <1>4, <1>5, <1>6, <1>7, <1>8 DEF Next

\* The temporary and the permanent transfer of a private payment never both
\* execute, whatever the sequencer submits (intent.go:570-571).
THEOREM UpgradeExclusive == Spec => []UpgradeIsExclusive
<1>1. Init => ChainInv /\ SharedInv
  BY NonceKinds, FulfillmentKinds, SessionKinds
  DEF Init, ChainInv, SharedInv, Fuls, Sigs, Executed
<1>2. TypeOK /\ ChainInv /\ SharedInv => UpgradeIsExclusive
  BY NonceKinds, FulfillmentKinds
  DEF TypeOK, ChainInv, SharedInv, UpgradeIsExclusive, Fuls, Sigs, Executed, TxStates
<1> QED
  BY <1>1, <1>2, ChainStep, SharedStep, TypeCorrect, PTL DEF Spec

-----------------------------------------------------------------------------
(* Fresh nonces, and submittable fulfillments when timelocks stay managed.   *)

\* A step keeps the stored blockhashes behind the blockchain.
LEMMA BlockhashStep ==
    ASSUME TypeOK, ChainInv, SharedInv, BlockhashInv, SelectInv, AvailableInv,
           [Next]_vars
    PROVE  BlockhashInv'
<1> USE NonceKinds, FulfillmentKinds, SessionKinds
    DEF TypeOK, Sigs, Fuls, Executed, NonceStates, FulfillmentStates, TxStates,
        WorkStates, nonceVars, fulVars, chainVars, selVars, envVars, faultVars,
        BlockhashInv, ChainInv, SharedInv, SelectInv, AvailableInv, Fresh
<1>1. CASE \/ \E h \in Holders : StartIntent(h) \/ CommitFails(h) \/ Abort(h) \/
                      EndSession(h)
           \/ \E d \in OnDemand : StartOnDemand(d)
           \/ \E u \in Upgrades : StartUpgrade(u) \/ SelectUpgradeNonce(u)
           \/ \E f \in Fuls, n \in Nonces : PickNonce(f, n)
           \/ \E f \in Fuls : AbandonPick(f) \/ DecideToSubmit(f) \/
                      MarkPending(f) \/ RevokeUsed(f) \/
                      DecideToRevoke(f) \/ RevokeFails(f) \/
                      MarkRevoked(f) \/ FinishFulfillment(f) \/
                      WriteFails(f)
           \/ \E t \in Temps : DeadlinePasses(t)
           \/ \E d \in Dormants : TimelockCloses(d)
           \/ Crash \/ UNCHANGED vars
  <2>1. CASE \E h \in Holders : StartIntent(h) \/ CommitFails(h) \/ Abort(h) \/ EndSession(h)
    BY <2>1 DEF StartIntent, CommitFails, Abort, EndSession
  <2>2. CASE \/ \E d \in OnDemand : StartOnDemand(d)
             \/ \E u \in Upgrades : StartUpgrade(u) \/ SelectUpgradeNonce(u)
             \/ \E f \in Fuls, n \in Nonces : PickNonce(f, n)
             \/ \E f \in Fuls : AbandonPick(f)
    BY <2>2 DEF StartOnDemand, StartUpgrade, SelectUpgradeNonce, PickNonce, AbandonPick
  <2>3. CASE \E f \in Fuls : \/ DecideToSubmit(f) \/ MarkPending(f) \/ RevokeUsed(f)
                            \/ DecideToRevoke(f)
    BY <2>3 DEF DecideToSubmit, MarkPending, RevokeUsed, DecideToRevoke
  <2>4. CASE \E f \in Fuls : \/ RevokeFails(f) \/ MarkRevoked(f) \/ FinishFulfillment(f)
                            \/ WriteFails(f)
    BY <2>4 DEF RevokeFails, MarkRevoked, FinishFulfillment, WriteFails
  <2>5. CASE \/ \E t \in Temps : DeadlinePasses(t)
             \/ \E d \in Dormants : TimelockCloses(d)
             \/ Crash \/ UNCHANGED vars
    BY <2>5 DEF DeadlinePasses, TimelockCloses, Crash, vars
  <2> QED
    BY ONLY <1>1, <2>1, <2>2, <2>3, <2>4, <2>5
<1>2. ASSUME NEW n \in Nonces, CreateNonce(n) PROVE BlockhashInv'
  BY <1>2 DEF CreateNonce
<1>3. ASSUME NEW n \in Nonces, BroadcastCreation(n) PROVE BlockhashInv'
  BY <1>3 DEF BroadcastCreation
<1>4. ASSUME NEW n \in Nonces, LandCreation(n) PROVE BlockhashInv'
  <2>1. nState[n] \in {"None", "Unknown", "Invalid"} /\ nBh[n] = 0
    BY <1>4 DEF LandCreation
  <2> QED
    BY <1>4, <2>1 DEF LandCreation
<1>5. ASSUME NEW n \in Nonces, MarkReleased(n) PROVE BlockhashInv'
  BY <1>5 DEF MarkReleased
<1>6. ASSUME NEW n \in Nonces, MarkInvalid(n) PROVE BlockhashInv'
  BY <1>6 DEF MarkInvalid
<1>7. ASSUME NEW n \in Nonces, MarkAvailable(n) PROVE BlockhashInv'
  BY <1>7 DEF MarkAvailable
<1>8. ASSUME NEW h \in Holders, Commit(h) PROVE BlockhashInv'
  <2>1. CommitWrites(h)
    BY <1>8, CommitEffect
  <2>2. ASSUME NEW f \in Fuls, HolderOf[f] = h
        PROVE  /\ selBh[f] <= nBh[sel[f]]
               /\ \A g \in Fuls : fNonce[g] = sel[f] => fBh[g] <= selBh[f]
    <3>1. sel[f] \in Nonces /\ phase[HolderOf[f]] = "open"
      BY <2>1, <2>2 DEF CommitWrites
    <3>2. CASE f \in Upgrades
      <4>1. TempOf[f] \in Fuls
        BY <3>2
      <4>2. sel[f] = fNonce[TempOf[f]] /\ selBh[f] = fBh[TempOf[f]]
        BY <3>1, <3>2
      <4> QED
        BY <3>1, <3>2, <4>1, <4>2
    <3>3. CASE f \notin Upgrades
      <4>1. nBh[sel[f]] = selBh[f]
        BY <3>1, <3>3
      <4> QED
        BY <3>1, <4>1
    <3> QED
      BY <3>2, <3>3
  <2>3. ASSUME NEW n \in Nonces
        PROVE  /\ nBh'[n] <= nBh[n]
               /\ nState'[n] = "Reserved" \/ (nState'[n] = nState[n] /\ nBh'[n] = nBh[n])
    BY <2>1, <2>2 DEF CommitWrites
  <2>4. ASSUME NEW f \in Fuls, fNonce'[f] # NoNonce PROVE fBh'[f] <= nBh'[fNonce'[f]]
    <3>1. CASE HolderOf[f] = h
      BY <2>1, <3>1 DEF CommitWrites
    <3>2. CASE HolderOf[f] # h
      <4>1. fNonce[f] = fNonce'[f] /\ fBh[f] = fBh'[f] /\ fNonce[f] \in Nonces
        BY <2>1, <2>4, <3>2 DEF CommitWrites
      <4>2. CASE \E g \in Fuls : HolderOf[g] = h /\ sel[g] = fNonce[f]
        BY <2>1, <2>2, <4>1, <4>2 DEF CommitWrites
      <4>3. CASE ~\E g \in Fuls : HolderOf[g] = h /\ sel[g] = fNonce[f]
        BY <2>1, <2>4, <4>1, <4>3 DEF CommitWrites
      <4> QED
        BY <4>2, <4>3
    <3> QED
      BY <3>1, <3>2
  <2>5. ASSUME NEW u \in Upgrades, NEW f \in Fuls, sel'[u] # NoNonce, fNonce'[f] = sel'[u]
        PROVE  fBh'[f] <= selBh'[u]
    <3>1. u \in Fuls /\ sel'[u] = sel[u] /\ selBh'[u] = selBh[u]
      BY <2>1 DEF CommitWrites
    <3>2. CASE HolderOf[f] = h
      <4>1. f = u /\ fBh'[f] = selBh[f]
        BY <2>1, <2>5, <3>1, <3>2 DEF CommitWrites
      <4> QED
        BY <3>1, <4>1
    <3>3. CASE HolderOf[f] # h
      BY <2>1, <2>5, <3>1, <3>3 DEF CommitWrites
    <3> QED
      BY <3>2, <3>3
  <2>6. tx' = tx /\ chainBh' = chainBh
    BY <2>1 DEF CommitWrites
  <2>7. nBh' \in [Nonces -> Nat]
    BY <1>8, TypeStep DEF Next
  <2> QED
    BY <2>3, <2>4, <2>5, <2>6, <2>7
<1>9. ASSUME NEW f \in Fuls, ReserveNonce(f) PROVE BlockhashInv'
  BY <1>9 DEF ReserveNonce, Unlocked
<1>10. ASSUME NEW f \in Fuls, Release(f) PROVE BlockhashInv'
  BY <1>10 DEF Release
<1>11. ASSUME NEW f \in Fuls, ReturnNonce(f) PROVE BlockhashInv'
  BY <1>11 DEF ReturnNonce, Matches
<1>12. ASSUME NEW f \in Fuls, SendToBlockchain(f) PROVE BlockhashInv'
  BY <1>12 DEF SendToBlockchain
<1>13. ASSUME NEW f \in Fuls, Land(f) PROVE BlockhashInv'
  BY <1>13 DEF Land
<1>14. ASSUME NEW f \in Fuls, ReleaseNonce(f) PROVE BlockhashInv'
  BY <1>14 DEF ReleaseNonce, Matches
<1> QED
  BY <1>1, <1>2, <1>3, <1>4, <1>5, <1>6, <1>7, <1>8, <1>9, <1>10, <1>11, <1>12, <1>13,
     <1>14 DEF Next

\* A step keeps the sequencer's decisions true until they are written.
LEMMA WorkStep ==
    ASSUME TypeOK, ChainInv, SelectInv, WorkInv, [Next]_vars
    PROVE  WorkInv'
<1> USE NonceKinds, FulfillmentKinds, SessionKinds
    DEF TypeOK, Sigs, Fuls, Executed, NonceStates, FulfillmentStates, TxStates,
        WorkStates, nonceVars, fulVars, chainVars, selVars, envVars, faultVars, WorkInv,
        ChainInv, IsRevoked, Upgraded
<1>1. CASE \/ \E n \in Nonces : CreateNonce(n) \/ MarkReleased(n) \/
                      MarkInvalid(n) \/ MarkAvailable(n)
           \/ \E u \in Upgrades : SelectUpgradeNonce(u)
           \/ \E f \in Fuls, n \in Nonces : PickNonce(f, n)
           \/ \E f \in Fuls : ReserveNonce(f) \/ AbandonPick(f) \/ Release(f)
           \/ \E t \in Temps : DeadlinePasses(t)
           \/ UNCHANGED vars
  BY <1>1 DEF CreateNonce, MarkReleased, MarkInvalid, MarkAvailable, SelectUpgradeNonce,
        PickNonce, ReserveNonce, AbandonPick, Release, DeadlinePasses, vars
<1>2. ASSUME NEW n \in Nonces, BroadcastCreation(n) PROVE WorkInv'
  BY <1>2 DEF BroadcastCreation
<1>3. ASSUME NEW n \in Nonces, LandCreation(n) PROVE WorkInv'
  <2>1. n \notin Fuls
    OBVIOUS
  <2> QED
    BY <1>3, <2>1 DEF LandCreation
<1>4. ASSUME NEW h \in Holders, StartIntent(h) PROVE WorkInv'
  BY <1>4 DEF StartIntent, ClientHolders, Members
<1>5. ASSUME NEW h \in Holders, Commit(h) PROVE WorkInv'
  <2>1. CommitWrites(h)
    BY <1>5, CommitEffect
  <2>2. \A f \in Fuls : HolderOf[f] = h => tx[f] = "none"
    BY <2>1 DEF CommitWrites
  <2>3. \A d \in OnDemand : fState'[d] = fState[d]
    BY <2>1 DEF CommitWrites
  <2>4. \A f \in Fuls : fState'[f] = fState[f] \/ (fState'[f] = "Unknown" /\ tx[f] = "none")
    BY <2>1, <2>2 DEF CommitWrites
  <2>5. /\ tx' = tx /\ work' = work /\ closed' = closed
        /\ phase' = [phase EXCEPT ![h] = "closing"]
    BY <2>1 DEF CommitWrites
  <2>6. \A d \in OnDemand : fState[d] = "Unknown" => fNonce'[d] = fNonce[d]
    BY <2>1 DEF CommitWrites
  <2> QED
    BY <2>3, <2>4, <2>5, <2>6
<1>6. ASSUME NEW h \in Holders, CommitFails(h) PROVE WorkInv'
  BY <1>6 DEF CommitFails, Holding, Members
<1>7. ASSUME NEW h \in Holders, Abort(h) PROVE WorkInv'
  BY <1>7 DEF Abort, Members
<1>8. ASSUME NEW h \in Holders, EndSession(h) PROVE WorkInv'
  BY <1>8 DEF EndSession, Members
<1>9. ASSUME NEW d \in OnDemand, StartOnDemand(d) PROVE WorkInv'
  <2>1. /\ fState' = fState /\ fNonce' = fNonce /\ tx' = tx /\ work' = work /\ closed' = closed
        /\ phase' = [phase EXCEPT ![HolderOf[d]] = "open"] /\ fState[d] = "Pending"
    BY <1>9 DEF StartOnDemand
  <2>2. \A e \in OnDemand : phase'[HolderOf[e]] = "open" => fState[e] = "Pending"
    BY <2>1
  <2>3. \A f \in Fuls : IsRevoked(f)' <=> IsRevoked(f)
    BY <2>1 DEF Upgraded
  <2>4. \A t \in Temps : Upgraded(t)' <=> Upgraded(t)
    BY <2>1 DEF Upgraded
  <2> QED
    BY <2>1, <2>2, <2>3, <2>4
<1>10. ASSUME NEW u \in Upgrades, StartUpgrade(u) PROVE WorkInv'
  BY <1>10 DEF StartUpgrade, Upgraded
<1>11. ASSUME NEW f \in Fuls, DecideToSubmit(f) PROVE WorkInv'
  BY <1>11 DEF DecideToSubmit, IsRevoked, CanSubmit, Upgraded
<1>12. ASSUME NEW f \in Fuls, MarkPending(f) PROVE WorkInv'
  BY <1>12 DEF MarkPending
<1>13. ASSUME NEW f \in Fuls, RevokeUsed(f) PROVE WorkInv'
  BY <1>13 DEF RevokeUsed, RevokedByUpgrade, Upgraded
<1>14. ASSUME NEW f \in Fuls, DecideToRevoke(f) PROVE WorkInv'
  BY <1>14 DEF DecideToRevoke, IsRevoked
<1>15. ASSUME NEW f \in Fuls, ReturnNonce(f) PROVE WorkInv'
  BY <1>15 DEF ReturnNonce, Matches
<1>16. ASSUME NEW f \in Fuls, RevokeFails(f) PROVE WorkInv'
  BY <1>16 DEF RevokeFails, Matches
<1>17. ASSUME NEW f \in Fuls, MarkRevoked(f) PROVE WorkInv'
  BY <1>17 DEF MarkRevoked
<1>18. ASSUME NEW f \in Fuls, SendToBlockchain(f) PROVE WorkInv'
  BY <1>18 DEF SendToBlockchain
<1>19. ASSUME NEW f \in Fuls, Land(f) PROVE WorkInv'
  BY <1>19 DEF Land
<1>20. ASSUME NEW f \in Fuls, ReleaseNonce(f) PROVE WorkInv'
  BY <1>20 DEF ReleaseNonce, Matches
<1>21. ASSUME NEW f \in Fuls, FinishFulfillment(f) PROVE WorkInv'
  BY <1>21 DEF FinishFulfillment
<1>22. ASSUME NEW f \in Fuls, WriteFails(f) PROVE WorkInv'
  BY <1>22 DEF WriteFails
<1>23. ASSUME NEW d \in Dormants, TimelockCloses(d) PROVE WorkInv'
  BY <1>23 DEF TimelockCloses
<1>24. CASE Crash
  BY <1>24 DEF Crash
<1> QED
  BY <1>1, <1>2, <1>3, <1>4, <1>5, <1>6, <1>7, <1>8, <1>9, <1>10, <1>11, <1>12, <1>13,
     <1>14, <1>15, <1>16, <1>17, <1>18, <1>19, <1>20, <1>21, <1>22, <1>23, <1>24 DEF Next

\* A step keeps the upgrade and the deadline exclusive, when timelocks stay managed.
LEMMA DeadlineStep ==
    ASSUME TypeOK, ChainInv, WorkInv, DeadlineInv, ~AllowUnlock, [Next]_vars
    PROVE  DeadlineInv'
<1> USE NonceKinds, FulfillmentKinds, SessionKinds
    DEF TypeOK, Sigs, Fuls, Executed, NonceStates, FulfillmentStates, TxStates,
        WorkStates, nonceVars, fulVars, chainVars, selVars, envVars, faultVars,
        DeadlineInv, WorkInv, ChainInv, Upgraded, IsRevoked
<1>1. CASE \/ \E n \in Nonces : CreateNonce(n) \/ BroadcastCreation(n) \/
                      LandCreation(n) \/ MarkReleased(n) \/
                      MarkInvalid(n) \/ MarkAvailable(n)
           \/ \E u \in Upgrades : SelectUpgradeNonce(u)
           \/ \E f \in Fuls, n \in Nonces : PickNonce(f, n)
           \/ \E f \in Fuls : ReserveNonce(f) \/ AbandonPick(f) \/ Release(f) \/
                      SendToBlockchain(f) \/ Land(f)
           \/ \E d \in Dormants : TimelockCloses(d)
           \/ UNCHANGED vars
  <2>1. CASE \E n \in Nonces : \/ CreateNonce(n) \/ BroadcastCreation(n) \/ LandCreation(n)
                              \/ MarkReleased(n) \/ MarkInvalid(n) \/ MarkAvailable(n)
    BY <2>1 DEF CreateNonce, BroadcastCreation, LandCreation, MarkReleased, MarkInvalid,
         MarkAvailable
  <2>2. CASE \/ \E u \in Upgrades : SelectUpgradeNonce(u)
             \/ \E f \in Fuls, n \in Nonces : PickNonce(f, n)
             \/ \E f \in Fuls : ReserveNonce(f) \/ AbandonPick(f)
    BY <2>2 DEF SelectUpgradeNonce, PickNonce, ReserveNonce, AbandonPick
  <2>3. CASE \/ \E f \in Fuls : Release(f) \/ SendToBlockchain(f) \/ Land(f)
             \/ \E d \in Dormants : TimelockCloses(d)
             \/ UNCHANGED vars
    BY <2>3 DEF Release, SendToBlockchain, Land, TimelockCloses, vars
  <2> QED
    BY ONLY <1>1, <2>1, <2>2, <2>3
<1>2. ASSUME NEW h \in Holders, StartIntent(h) PROVE DeadlineInv'
  BY <1>2 DEF StartIntent, ClientHolders, Members
<1>3. ASSUME NEW h \in Holders, Commit(h) PROVE DeadlineInv'
  BY <1>3 DEF Commit, SaveSigned, Holding, Members
<1>4. ASSUME NEW h \in Holders, CommitFails(h) PROVE DeadlineInv'
  BY <1>4 DEF CommitFails, Holding, Members
<1>5. ASSUME NEW h \in Holders, Abort(h) PROVE DeadlineInv'
  BY <1>5 DEF Abort, Members
<1>6. ASSUME NEW h \in Holders, EndSession(h) PROVE DeadlineInv'
  BY <1>6 DEF EndSession, Members
<1>7. ASSUME NEW d \in OnDemand, StartOnDemand(d) PROVE DeadlineInv'
  BY <1>7 DEF StartOnDemand
<1>8. ASSUME NEW u \in Upgrades, StartUpgrade(u) PROVE DeadlineInv'
  BY <1>8 DEF StartUpgrade, Upgraded
<1>9. ASSUME NEW f \in Fuls, DecideToSubmit(f) PROVE DeadlineInv'
  BY <1>9 DEF DecideToSubmit, IsRevoked, CanSubmit, Upgraded
<1>10. ASSUME NEW f \in Fuls, MarkPending(f) PROVE DeadlineInv'
  BY <1>10 DEF MarkPending
<1>11. ASSUME NEW f \in Fuls, RevokeUsed(f) PROVE DeadlineInv'
  BY <1>11 DEF RevokeUsed, RevokedByUpgrade, Upgraded
<1>12. ASSUME NEW f \in Fuls, DecideToRevoke(f) PROVE DeadlineInv'
  BY <1>12 DEF DecideToRevoke, IsRevoked
<1>13. ASSUME NEW f \in Fuls, ReturnNonce(f) PROVE DeadlineInv'
  BY <1>13 DEF ReturnNonce, Matches
<1>14. ASSUME NEW f \in Fuls, RevokeFails(f) PROVE DeadlineInv'
  BY <1>14 DEF RevokeFails, Matches
<1>15. ASSUME NEW f \in Fuls, MarkRevoked(f) PROVE DeadlineInv'
  BY <1>15 DEF MarkRevoked
<1>16. ASSUME NEW f \in Fuls, ReleaseNonce(f) PROVE DeadlineInv'
  BY <1>16 DEF ReleaseNonce, Matches
<1>17. ASSUME NEW f \in Fuls, FinishFulfillment(f) PROVE DeadlineInv'
  BY <1>17 DEF FinishFulfillment
<1>18. ASSUME NEW f \in Fuls, WriteFails(f) PROVE DeadlineInv'
  BY <1>18 DEF WriteFails
<1>19. ASSUME NEW t \in Temps, DeadlinePasses(t) PROVE DeadlineInv'
  BY <1>19 DEF DeadlinePasses
<1>20. CASE Crash
  BY <1>20 DEF Crash
<1> QED
  BY <1>1, <1>2, <1>3, <1>4, <1>5, <1>6, <1>7, <1>8, <1>9, <1>10, <1>11, <1>12, <1>13,
     <1>14, <1>15, <1>16, <1>17, <1>18, <1>19, <1>20 DEF Next

\* A step keeps unsigned selections fresh and exclusive.
LEMMA SelectStep ==
    ASSUME NonceInv, [Next]_vars
    PROVE  SelectInv'
<1>0. /\ TypeOK /\ ChainInv /\ SharedInv /\ BlockhashInv /\ WorkInv
      /\ SelectInv /\ AvailableInv /\ MatchInv
  BY DEF NonceInv
<1> USE <1>0, NonceKinds, FulfillmentKinds, SessionKinds
    DEF TypeOK, Sigs, Fuls, Executed, NonceStates, FulfillmentStates, TxStates,
        WorkStates, nonceVars, fulVars, chainVars, selVars, envVars, faultVars,
        ChainInv, SharedInv, BlockhashInv, WorkInv, SelectInv,
        AvailableInv, MatchInv, Fresh, Dead, Matches, IsRevoked, Upgraded
<1>1. CASE \/ \E t \in Temps : DeadlinePasses(t)
           \/ UNCHANGED vars
  BY <1>1 DEF DeadlinePasses, vars
<1>2. ASSUME NEW n \in Nonces, CreateNonce(n) PROVE SelectInv'
  BY <1>2 DEF CreateNonce
<1>3. ASSUME NEW n \in Nonces, BroadcastCreation(n) PROVE SelectInv'
  BY <1>3 DEF BroadcastCreation
<1>4. ASSUME NEW n \in Nonces, LandCreation(n) PROVE SelectInv'
  BY <1>4 DEF LandCreation
<1>5. ASSUME NEW n \in Nonces, MarkReleased(n) PROVE SelectInv'
  BY <1>5 DEF MarkReleased
<1>6. ASSUME NEW n \in Nonces, MarkInvalid(n) PROVE SelectInv'
  BY <1>6 DEF MarkInvalid
<1>7. ASSUME NEW n \in Nonces, MarkAvailable(n) PROVE SelectInv'
  BY <1>7 DEF MarkAvailable
<1>8. ASSUME NEW h \in Holders, StartIntent(h) PROVE SelectInv'
  BY <1>8 DEF StartIntent, ClientHolders, Members
<1>9. ASSUME NEW h \in Holders, Commit(h) PROVE SelectInv'
  <2>1. CommitWrites(h)
    BY <1>9, CommitEffect
  <2>2. /\ sel' = sel /\ selBh' = selBh /\ pick' = pick /\ chainBh' = chainBh /\ tx' = tx /\ work' = work
        /\ phase' = [phase EXCEPT ![h] = "closing"]
    BY <2>1 DEF CommitWrites
  <2>3. \A f \in Fuls : pick[f] # NoNonce => sel[f] = NoNonce /\ phase'[HolderOf[f]] = "open"
    BY <2>1, <2>2 DEF CommitWrites
  <2>4. \A f \in Fuls : sel[f] # NoNonce => phase'[HolderOf[f]] # "idle"
    BY <2>2
  <2>5. ASSUME NEW f \in Fuls, sel[f] # NoNonce, selSig'[f] = NoSig
        PROVE  /\ nState'[sel[f]] = "Reserved"
               /\ nSig'[sel[f]] = NoSig
               /\ nBh'[sel[f]] = selBh[f]
               /\ Fresh(sel[f])'
    <3>1. HolderOf[f] # h /\ selSig[f] = NoSig
      BY <2>1, <2>5 DEF CommitWrites
    <3>2. \A g \in Fuls : HolderOf[g] = h => sel[g] # sel[f]
      BY <2>5, <3>1
    <3>3. /\ nState'[sel[f]] = nState[sel[f]] /\ nSig'[sel[f]] = nSig[sel[f]]
          /\ nBh'[sel[f]] = nBh[sel[f]]
      BY <2>1, <2>5, <3>2 DEF CommitWrites
    <3> QED
      BY <2>1, <2>2, <2>5, <3>1, <3>2, <3>3 DEF CommitWrites
  <2>6. \A f \in Fuls \ Upgrades : sel[f] # NoNonce /\ phase'[HolderOf[f]] = "open" => selSig'[f] = NoSig
    BY <2>1, <2>2 DEF CommitWrites
  <2>7. \A u \in Upgrades : sel[u] # NoNonce => selSig'[u] # NoSig
    BY <2>1 DEF CommitWrites
  <2> QED
    BY <2>2, <2>3, <2>4, <2>5, <2>6, <2>7
<1>10. ASSUME NEW h \in Holders, CommitFails(h) PROVE SelectInv'
  BY <1>10 DEF CommitFails, Holding, Members
<1>11. ASSUME NEW h \in Holders, Abort(h) PROVE SelectInv'
  BY <1>11 DEF Abort, Members
<1>12. ASSUME NEW h \in Holders, EndSession(h) PROVE SelectInv'
  BY <1>12 DEF EndSession, Members
<1>13. ASSUME NEW d \in OnDemand, StartOnDemand(d) PROVE SelectInv'
  BY <1>13 DEF StartOnDemand
<1>14. ASSUME NEW u \in Upgrades, StartUpgrade(u) PROVE SelectInv'
  BY <1>14 DEF StartUpgrade, Upgraded
<1>15. ASSUME NEW u \in Upgrades, SelectUpgradeNonce(u) PROVE SelectInv'
  BY <1>15 DEF SelectUpgradeNonce, Unlocked
<1>16. ASSUME NEW f \in Fuls, NEW n \in Nonces, PickNonce(f, n) PROVE SelectInv'
  BY <1>16 DEF PickNonce, Free, InState
<1>17. ASSUME NEW f \in Fuls, ReserveNonce(f) PROVE SelectInv'
  BY <1>17 DEF ReserveNonce, Unlocked
<1>18. ASSUME NEW f \in Fuls, AbandonPick(f) PROVE SelectInv'
  BY <1>18 DEF AbandonPick, Unlocked
<1>19. ASSUME NEW f \in Fuls, Release(f) PROVE SelectInv'
  BY <1>19 DEF Release
<1>20. ASSUME NEW f \in Fuls, DecideToSubmit(f) PROVE SelectInv'
  BY <1>20 DEF DecideToSubmit, IsRevoked, CanSubmit, Upgraded
<1>21. ASSUME NEW f \in Fuls, MarkPending(f) PROVE SelectInv'
  BY <1>21 DEF MarkPending
<1>22. ASSUME NEW f \in Fuls, RevokeUsed(f) PROVE SelectInv'
  BY <1>22 DEF RevokeUsed, RevokedByUpgrade, Upgraded
<1>23. ASSUME NEW f \in Fuls, DecideToRevoke(f) PROVE SelectInv'
  BY <1>23 DEF DecideToRevoke, IsRevoked
<1>24. ASSUME NEW f \in Fuls, ReturnNonce(f) PROVE SelectInv'
  BY <1>24 DEF ReturnNonce, Matches
<1>25. ASSUME NEW f \in Fuls, RevokeFails(f) PROVE SelectInv'
  BY <1>25 DEF RevokeFails, Matches
<1>26. ASSUME NEW f \in Fuls, MarkRevoked(f) PROVE SelectInv'
  BY <1>26 DEF MarkRevoked
<1>27. ASSUME NEW f \in Fuls, SendToBlockchain(f) PROVE SelectInv'
  BY <1>27 DEF SendToBlockchain
<1>28. ASSUME NEW f \in Fuls, Land(f) PROVE SelectInv'
  BY <1>28 DEF Land
<1>29. ASSUME NEW f \in Fuls, ReleaseNonce(f) PROVE SelectInv'
  BY <1>29 DEF ReleaseNonce, Matches
<1>30. ASSUME NEW f \in Fuls, FinishFulfillment(f) PROVE SelectInv'
  BY <1>30 DEF FinishFulfillment
<1>31. ASSUME NEW f \in Fuls, WriteFails(f) PROVE SelectInv'
  BY <1>31 DEF WriteFails
<1>32. ASSUME NEW d \in Dormants, TimelockCloses(d) PROVE SelectInv'
  BY <1>32 DEF TimelockCloses
<1>33. CASE Crash
  BY <1>33 DEF Crash
<1> HIDE DEF ChainInv, SharedInv, BlockhashInv, WorkInv, SelectInv,
            AvailableInv, MatchInv, Fresh, Dead, Matches, IsRevoked, Upgraded
<1> QED
  BY <1>1, <1>2, <1>3, <1>4, <1>5, <1>6, <1>7, <1>8, <1>9, <1>10, <1>11, <1>12, <1>13,
     <1>14, <1>15, <1>16, <1>17, <1>18, <1>19, <1>20, <1>21, <1>22, <1>23, <1>24, <1>25,
     <1>26, <1>27, <1>28, <1>29, <1>30, <1>31, <1>32, <1>33 DEF Next

\* A step keeps available nonces fresh.
LEMMA AvailableStep ==
    ASSUME NonceInv, [Next]_vars
    PROVE  AvailableInv'
<1>0. /\ TypeOK /\ ChainInv /\ SharedInv /\ BlockhashInv /\ WorkInv
      /\ SelectInv /\ AvailableInv /\ MatchInv
  BY DEF NonceInv
<1> USE <1>0, NonceKinds, FulfillmentKinds, SessionKinds
    DEF TypeOK, Sigs, Fuls, Executed, NonceStates, FulfillmentStates, TxStates,
        WorkStates, nonceVars, fulVars, chainVars, selVars, envVars, faultVars,
        ChainInv, SharedInv, BlockhashInv, WorkInv, SelectInv,
        AvailableInv, MatchInv, Fresh, Dead, Matches, IsRevoked, Upgraded
<1>1. CASE \/ \E h \in Holders : StartIntent(h) \/ CommitFails(h) \/ Abort(h) \/
                      EndSession(h)
           \/ \E d \in OnDemand : StartOnDemand(d)
           \/ \E u \in Upgrades : StartUpgrade(u) \/ SelectUpgradeNonce(u)
           \/ \E f \in Fuls, n \in Nonces : PickNonce(f, n)
           \/ \E f \in Fuls : AbandonPick(f)
           \/ \E t \in Temps : DeadlinePasses(t)
           \/ UNCHANGED vars
  <2>1. CASE \E h \in Holders : StartIntent(h) \/ CommitFails(h) \/ Abort(h) \/ EndSession(h)
    BY <2>1 DEF StartIntent, CommitFails, Abort, EndSession
  <2>2. CASE \/ \E d \in OnDemand : StartOnDemand(d)
             \/ \E u \in Upgrades : StartUpgrade(u) \/ SelectUpgradeNonce(u)
    BY <2>2 DEF StartOnDemand, StartUpgrade, SelectUpgradeNonce
  <2>3. CASE \/ \E f \in Fuls, n \in Nonces : PickNonce(f, n)
             \/ \E f \in Fuls : AbandonPick(f)
             \/ \E t \in Temps : DeadlinePasses(t)
             \/ UNCHANGED vars
    BY <2>3 DEF PickNonce, AbandonPick, DeadlinePasses, vars
  <2> QED
    BY ONLY <1>1, <2>1, <2>2, <2>3
<1>2. ASSUME NEW n \in Nonces, CreateNonce(n) PROVE AvailableInv'
  BY <1>2 DEF CreateNonce
<1>3. ASSUME NEW n \in Nonces, BroadcastCreation(n) PROVE AvailableInv'
  BY <1>3 DEF BroadcastCreation
<1>4. ASSUME NEW n \in Nonces, LandCreation(n) PROVE AvailableInv'
  BY <1>4 DEF LandCreation
<1>5. ASSUME NEW n \in Nonces, MarkReleased(n) PROVE AvailableInv'
  BY <1>5 DEF MarkReleased
<1>6. ASSUME NEW n \in Nonces, MarkInvalid(n) PROVE AvailableInv'
  BY <1>6 DEF MarkInvalid
<1>7. ASSUME NEW n \in Nonces, MarkAvailable(n) PROVE AvailableInv'
  BY <1>7 DEF MarkAvailable
<1>8. ASSUME NEW h \in Holders, Commit(h) PROVE AvailableInv'
  <2>1. CommitWrites(h)
    BY <1>8, CommitEffect
  <2>2. ASSUME NEW n \in Nonces, nState'[n] = "Available"
        PROVE  \A f \in Fuls : HolderOf[f] = h => sel[f] # n
    BY <2>1, <2>2 DEF CommitWrites
  <2>3. ASSUME NEW n \in Nonces, nState'[n] = "Available"
        PROVE  nSig'[n] = NoSig /\ Fresh(n)'
    <3>1. nState[n] = "Available" /\ nSig'[n] = nSig[n] /\ nBh'[n] = nBh[n]
      BY <2>1, <2>2, <2>3 DEF CommitWrites
    <3>2. \A g \in Fuls : fNonce'[g] = n => fNonce[g] = n /\ fBh'[g] = fBh[g] /\ fState'[g] = fState[g]
      BY <2>1, <2>2, <2>3 DEF CommitWrites
    <3>3. tx' = tx /\ work' = work /\ closed' = closed /\ chainBh' = chainBh
      BY <2>1 DEF CommitWrites
    <3> QED
      BY <3>1, <3>2, <3>3
  <2> QED
    BY <2>3
<1>9. ASSUME NEW f \in Fuls, ReserveNonce(f) PROVE AvailableInv'
  BY <1>9 DEF ReserveNonce, Unlocked
<1>10. ASSUME NEW f \in Fuls, Release(f) PROVE AvailableInv'
  BY <1>10 DEF Release
<1>11. ASSUME NEW f \in Fuls, DecideToSubmit(f) PROVE AvailableInv'
  BY <1>11 DEF DecideToSubmit, IsRevoked, CanSubmit, Upgraded
<1>12. ASSUME NEW f \in Fuls, MarkPending(f) PROVE AvailableInv'
  BY <1>12 DEF MarkPending
<1>13. ASSUME NEW f \in Fuls, RevokeUsed(f) PROVE AvailableInv'
  BY <1>13 DEF RevokeUsed, RevokedByUpgrade, Upgraded
<1>14. ASSUME NEW f \in Fuls, DecideToRevoke(f) PROVE AvailableInv'
  BY <1>14 DEF DecideToRevoke, IsRevoked
<1>15. ASSUME NEW f \in Fuls, ReturnNonce(f) PROVE AvailableInv'
  <2>1. /\ work[f] = "revoke" /\ Matches(f)
        /\ nState' = [nState EXCEPT ![fNonce[f]] = "Available"]
        /\ nSig' = [nSig EXCEPT ![fNonce[f]] = NoSig]
        /\ work' = [work EXCEPT ![f] = "revokeSaved"]
        /\ nBh' = nBh /\ fNonce' = fNonce /\ fBh' = fBh /\ fState' = fState /\ tx' = tx
        /\ chainBh' = chainBh /\ closed' = closed
    BY <1>15 DEF ReturnNonce
  <2>2. \A g \in Fuls : Dead(g) => Dead(g)'
    BY <2>1
  <2>3. \A n \in Nonces : Fresh(n) => Fresh(n)'
    BY <2>1, <2>2
  <2>4. Fresh(fNonce[f])'
    <3>1. /\ fNonce[f] \in Nonces /\ nBh[fNonce[f]] = fBh[f]
          /\ fState[f] = "Unknown" /\ IsRevoked(f)
      BY <2>1 DEF Matches
    <3>4. f \in Fuls \ Upgrades
      BY <3>1 DEF IsRevoked
    <3>5. tx[f] = "none"
      BY <3>1
    <3>2. /\ chainBh[fNonce[f]] = fBh[f]
          /\ \A g \in Fuls : g # f /\ fNonce[g] = fNonce[f] /\ fBh[g] = fBh[f] => Dead(g)
      <4>1. Matches(f) /\ tx[f] \notin Executed
        BY <2>1, <3>5
      <4> HIDE DEF Dead, Matches
      <4> QED
        BY ONLY <3>4, <4>1, MatchInv DEF MatchInv
    <3>3. Dead(f)'
      BY <2>1, <3>1, <3>4, <3>5
    <3> QED
      BY <2>1, <2>2, <3>1, <3>2, <3>3
  <2>5. ASSUME NEW n \in Nonces, nState'[n] = "Available" PROVE nSig'[n] = NoSig /\ Fresh(n)'
    <3>1. CASE n = fNonce[f]
      BY <2>1, <2>4, <3>1
    <3>2. CASE n # fNonce[f]
      <4>1. nState[n] = "Available" /\ nSig'[n] = nSig[n]
        BY <2>1, <2>5, <3>2
      <4>2. nSig[n] = NoSig /\ Fresh(n)
        BY <4>1
      <4> QED
        BY <2>3, <4>1, <4>2
    <3> QED
      BY <3>1, <3>2
  <2> QED
    BY <2>5
<1>16. ASSUME NEW f \in Fuls, RevokeFails(f) PROVE AvailableInv'
  BY <1>16 DEF RevokeFails, Matches
<1>17. ASSUME NEW f \in Fuls, MarkRevoked(f) PROVE AvailableInv'
  BY <1>17 DEF MarkRevoked
<1>18. ASSUME NEW f \in Fuls, SendToBlockchain(f) PROVE AvailableInv'
  BY <1>18 DEF SendToBlockchain
<1>19. ASSUME NEW f \in Fuls, Land(f) PROVE AvailableInv'
  BY <1>19 DEF Land
<1>20. ASSUME NEW f \in Fuls, ReleaseNonce(f) PROVE AvailableInv'
  BY <1>20 DEF ReleaseNonce, Matches
<1>21. ASSUME NEW f \in Fuls, FinishFulfillment(f) PROVE AvailableInv'
  BY <1>21 DEF FinishFulfillment
<1>22. ASSUME NEW f \in Fuls, WriteFails(f) PROVE AvailableInv'
  BY <1>22 DEF WriteFails
<1>23. ASSUME NEW d \in Dormants, TimelockCloses(d) PROVE AvailableInv'
  BY <1>23 DEF TimelockCloses
<1>24. CASE Crash
  BY <1>24 DEF Crash
<1> HIDE DEF ChainInv, SharedInv, BlockhashInv, WorkInv, SelectInv,
            AvailableInv, MatchInv, Fresh, Dead, Matches, IsRevoked, Upgraded
<1> QED
  BY <1>1, <1>2, <1>3, <1>4, <1>5, <1>6, <1>7, <1>8, <1>9, <1>10, <1>11, <1>12, <1>13,
     <1>14, <1>15, <1>16, <1>17, <1>18, <1>19, <1>20, <1>21, <1>22, <1>23, <1>24 DEF Next

\* A step keeps a reserved nonce to one submittable fulfillment.
LEMMA MatchStep ==
    ASSUME NonceInv, [Next]_vars
    PROVE  MatchInv'
<1>0. /\ TypeOK /\ ChainInv /\ SharedInv /\ BlockhashInv /\ WorkInv
      /\ SelectInv /\ AvailableInv /\ MatchInv
  BY DEF NonceInv
<1> USE <1>0, NonceKinds, FulfillmentKinds, SessionKinds
    DEF TypeOK, Sigs, Fuls, Executed, NonceStates, FulfillmentStates, TxStates,
        WorkStates, nonceVars, fulVars, chainVars, selVars, envVars, faultVars,
        ChainInv, SharedInv, BlockhashInv, WorkInv, SelectInv,
        AvailableInv, MatchInv, Fresh, Dead, Matches, IsRevoked, Upgraded
<1>1. CASE \/ \E h \in Holders : StartIntent(h) \/ CommitFails(h) \/ Abort(h) \/
                      EndSession(h)
           \/ \E d \in OnDemand : StartOnDemand(d)
           \/ \E u \in Upgrades : StartUpgrade(u) \/ SelectUpgradeNonce(u)
           \/ \E f \in Fuls, n \in Nonces : PickNonce(f, n)
           \/ \E f \in Fuls : AbandonPick(f)
           \/ \E t \in Temps : DeadlinePasses(t)
           \/ UNCHANGED vars
  BY <1>1 DEF StartIntent, CommitFails, Abort, EndSession, StartOnDemand, StartUpgrade,
        SelectUpgradeNonce, PickNonce, AbandonPick, DeadlinePasses, vars
<1>2. ASSUME NEW n \in Nonces, CreateNonce(n) PROVE MatchInv'
  BY <1>2 DEF CreateNonce
<1>3. ASSUME NEW n \in Nonces, BroadcastCreation(n) PROVE MatchInv'
  BY <1>3 DEF BroadcastCreation
<1>4. ASSUME NEW n \in Nonces, LandCreation(n) PROVE MatchInv'
  BY <1>4 DEF LandCreation
<1>5. ASSUME NEW n \in Nonces, MarkReleased(n) PROVE MatchInv'
  BY <1>5 DEF MarkReleased
<1>6. ASSUME NEW n \in Nonces, MarkInvalid(n) PROVE MatchInv'
  BY <1>6 DEF MarkInvalid
<1>7. ASSUME NEW n \in Nonces, MarkAvailable(n) PROVE MatchInv'
  BY <1>7 DEF MarkAvailable
<1>8. ASSUME NEW h \in Holders, Commit(h) PROVE MatchInv'
  <2>1. CommitWrites(h)
    BY <1>8, CommitEffect
  <2>2. SUFFICES ASSUME NEW f \in Fuls \ Upgrades, Matches(f)', tx'[f] \notin Executed
                 PROVE  /\ chainBh'[fNonce'[f]] = fBh'[f]
                        /\ \A g \in Fuls : g # f /\ fNonce'[g] = fNonce'[f] /\ fBh'[g] = fBh'[f]
                              => Dead(g)'
    OBVIOUS
  <2>3. CASE HolderOf[f] = h
    BY <2>1, <2>2, <2>3 DEF CommitWrites
  <2>4. CASE HolderOf[f] # h
    BY <2>1, <2>2, <2>4 DEF CommitWrites
  <2> QED
    BY <2>3, <2>4
<1>9. ASSUME NEW f \in Fuls, ReserveNonce(f) PROVE MatchInv'
  BY <1>9 DEF ReserveNonce, Unlocked
<1>10. ASSUME NEW f \in Fuls, Release(f) PROVE MatchInv'
  BY <1>10 DEF Release
<1>11. ASSUME NEW f \in Fuls, DecideToSubmit(f) PROVE MatchInv'
  BY <1>11 DEF DecideToSubmit, IsRevoked, CanSubmit, Upgraded
<1>12. ASSUME NEW f \in Fuls, MarkPending(f) PROVE MatchInv'
  BY <1>12 DEF MarkPending
<1>13. ASSUME NEW f \in Fuls, RevokeUsed(f) PROVE MatchInv'
  BY <1>13 DEF RevokeUsed, RevokedByUpgrade, Upgraded
<1>14. ASSUME NEW f \in Fuls, DecideToRevoke(f) PROVE MatchInv'
  BY <1>14 DEF DecideToRevoke, IsRevoked
<1>15. ASSUME NEW f \in Fuls, ReturnNonce(f) PROVE MatchInv'
  BY <1>15 DEF ReturnNonce, Matches
<1>16. ASSUME NEW f \in Fuls, RevokeFails(f) PROVE MatchInv'
  BY <1>16 DEF RevokeFails, Matches
<1>17. ASSUME NEW f \in Fuls, MarkRevoked(f) PROVE MatchInv'
  BY <1>17 DEF MarkRevoked
<1>18. ASSUME NEW f \in Fuls, SendToBlockchain(f) PROVE MatchInv'
  BY <1>18 DEF SendToBlockchain
<1>19. ASSUME NEW f \in Fuls, Land(f) PROVE MatchInv'
  BY <1>19 DEF Land
<1>20. ASSUME NEW f \in Fuls, ReleaseNonce(f) PROVE MatchInv'
  BY <1>20 DEF ReleaseNonce, Matches
<1>21. ASSUME NEW f \in Fuls, FinishFulfillment(f) PROVE MatchInv'
  BY <1>21 DEF FinishFulfillment
<1>22. ASSUME NEW f \in Fuls, WriteFails(f) PROVE MatchInv'
  BY <1>22 DEF WriteFails
<1>23. ASSUME NEW d \in Dormants, TimelockCloses(d) PROVE MatchInv'
  BY <1>23 DEF TimelockCloses
<1>24. CASE Crash
  BY <1>24 DEF Crash
<1> HIDE DEF ChainInv, SharedInv, BlockhashInv, WorkInv, SelectInv,
            AvailableInv, MatchInv, Fresh, Dead, Matches, IsRevoked, Upgraded
<1> QED
  BY <1>1, <1>2, <1>3, <1>4, <1>5, <1>6, <1>7, <1>8, <1>9, <1>10, <1>11, <1>12, <1>13,
     <1>14, <1>15, <1>16, <1>17, <1>18, <1>19, <1>20, <1>21, <1>22, <1>23, <1>24 DEF Next

\* A step keeps the nonce of an upgrade its own, when timelocks stay managed.
LEMMA UpgradeStep ==
    ASSUME NonceInv, DeadlineInv, UpgradeInv, ~AllowUnlock, [Next]_vars
    PROVE  UpgradeInv'
<1>0. /\ TypeOK /\ ChainInv /\ SharedInv /\ BlockhashInv /\ WorkInv
      /\ SelectInv /\ AvailableInv /\ MatchInv
  BY DEF NonceInv
<1> USE <1>0, NonceKinds, FulfillmentKinds, SessionKinds
    DEF TypeOK, Sigs, Fuls, Executed, NonceStates, FulfillmentStates, TxStates,
        WorkStates, nonceVars, fulVars, chainVars, selVars, envVars, faultVars,
        ChainInv, SharedInv, BlockhashInv, WorkInv, DeadlineInv, SelectInv,
        AvailableInv, MatchInv, UpgradeInv, Fresh, Dead, Matches, IsRevoked, Upgraded
<1>1. CASE \/ \E h \in Holders : StartIntent(h) \/ CommitFails(h) \/ Abort(h) \/
                      EndSession(h)
           \/ \E d \in OnDemand : StartOnDemand(d)
           \/ \E u \in Upgrades : StartUpgrade(u) \/ SelectUpgradeNonce(u)
           \/ \E f \in Fuls, n \in Nonces : PickNonce(f, n)
           \/ \E f \in Fuls : AbandonPick(f)
           \/ \E t \in Temps : DeadlinePasses(t)
           \/ UNCHANGED vars
  <2>1. CASE \E h \in Holders : StartIntent(h) \/ CommitFails(h) \/ Abort(h) \/ EndSession(h)
    BY <2>1 DEF StartIntent, CommitFails, Abort, EndSession
  <2>2. CASE \/ \E d \in OnDemand : StartOnDemand(d)
             \/ \E u \in Upgrades : StartUpgrade(u)
    BY <2>2 DEF StartOnDemand, StartUpgrade
  <2>4. CASE \E u \in Upgrades : SelectUpgradeNonce(u)
    BY <2>4 DEF SelectUpgradeNonce
  <2>3. CASE \/ \E f \in Fuls, n \in Nonces : PickNonce(f, n)
             \/ \E f \in Fuls : AbandonPick(f)
             \/ \E t \in Temps : DeadlinePasses(t)
             \/ UNCHANGED vars
    BY <2>3 DEF PickNonce, AbandonPick, DeadlinePasses, vars
  <2> QED
    BY ONLY <1>1, <2>1, <2>2, <2>3, <2>4
<1>2. ASSUME NEW n \in Nonces, CreateNonce(n) PROVE UpgradeInv'
  BY <1>2 DEF CreateNonce
<1>3. ASSUME NEW n \in Nonces, BroadcastCreation(n) PROVE UpgradeInv'
  BY <1>3 DEF BroadcastCreation
<1>4. ASSUME NEW n \in Nonces, LandCreation(n) PROVE UpgradeInv'
  BY <1>4 DEF LandCreation
<1>5. ASSUME NEW n \in Nonces, MarkReleased(n) PROVE UpgradeInv'
  BY <1>5 DEF MarkReleased
<1>6. ASSUME NEW n \in Nonces, MarkInvalid(n) PROVE UpgradeInv'
  BY <1>6 DEF MarkInvalid
<1>7. ASSUME NEW n \in Nonces, MarkAvailable(n) PROVE UpgradeInv'
  BY <1>7 DEF MarkAvailable
<1>8. ASSUME NEW h \in Holders, Commit(h) PROVE UpgradeInv'
  <2>1. CommitWrites(h)
    BY <1>8, CommitEffect
  <2>2. \A u \in Upgrades : sel'[u] # NoNonce /\ phase'[HolderOf[u]] = "open" =>
              /\ nState'[sel'[u]] = "Reserved"
              /\ nSig'[sel'[u]] = TempOf[u]
              /\ nBh'[sel'[u]] = selBh'[u]
    BY <2>1 DEF CommitWrites
  <2>3. SUFFICES ASSUME NEW u \in Upgrades, Matches(u)', tx'[u] \notin Executed
                 PROVE  /\ chainBh'[fNonce'[u]] = fBh'[u]
                        /\ \A g \in Fuls : g # u /\ fNonce'[g] = fNonce'[u] /\ fBh'[g] = fBh'[u] =>
                              \/ Dead(g)'
                              \/ /\ g = TempOf[u]
                                 /\ tx'[g] = "none" /\ work'[g] # "submit"
                                 /\ fState'[g] \in {"Unknown", "Revoked"}
    BY <2>2
  <2>4. CASE HolderOf[u] = h
    BY <2>1, <2>3, <2>4 DEF CommitWrites
  <2>5. CASE HolderOf[u] # h
    BY <2>1, <2>3, <2>5 DEF CommitWrites
  <2> QED
    BY <2>4, <2>5
<1>9. ASSUME NEW f \in Fuls, ReserveNonce(f) PROVE UpgradeInv'
  BY <1>9 DEF ReserveNonce, Unlocked
<1>10. ASSUME NEW f \in Fuls, Release(f) PROVE UpgradeInv'
  BY <1>10 DEF Release
<1>11. ASSUME NEW f \in Fuls, DecideToSubmit(f) PROVE UpgradeInv'
  BY <1>11 DEF DecideToSubmit, IsRevoked, CanSubmit, Upgraded
<1>12. ASSUME NEW f \in Fuls, MarkPending(f) PROVE UpgradeInv'
  BY <1>12 DEF MarkPending
<1>13. ASSUME NEW f \in Fuls, RevokeUsed(f) PROVE UpgradeInv'
  BY <1>13 DEF RevokeUsed, RevokedByUpgrade, Upgraded
<1>14. ASSUME NEW f \in Fuls, DecideToRevoke(f) PROVE UpgradeInv'
  BY <1>14 DEF DecideToRevoke, IsRevoked
<1>15. ASSUME NEW f \in Fuls, ReturnNonce(f) PROVE UpgradeInv'
  BY <1>15 DEF ReturnNonce, Matches
<1>16. ASSUME NEW f \in Fuls, RevokeFails(f) PROVE UpgradeInv'
  BY <1>16 DEF RevokeFails, Matches
<1>17. ASSUME NEW f \in Fuls, MarkRevoked(f) PROVE UpgradeInv'
  BY <1>17 DEF MarkRevoked
<1>18. ASSUME NEW f \in Fuls, SendToBlockchain(f) PROVE UpgradeInv'
  BY <1>18 DEF SendToBlockchain
<1>19. ASSUME NEW f \in Fuls, Land(f) PROVE UpgradeInv'
  BY <1>19 DEF Land
<1>20. ASSUME NEW f \in Fuls, ReleaseNonce(f) PROVE UpgradeInv'
  BY <1>20 DEF ReleaseNonce, Matches
<1>21. ASSUME NEW f \in Fuls, FinishFulfillment(f) PROVE UpgradeInv'
  BY <1>21 DEF FinishFulfillment
<1>22. ASSUME NEW f \in Fuls, WriteFails(f) PROVE UpgradeInv'
  BY <1>22 DEF WriteFails
<1>23. ASSUME NEW d \in Dormants, TimelockCloses(d) PROVE UpgradeInv'
  BY <1>23 DEF TimelockCloses
<1>24. CASE Crash
  BY <1>24 DEF Crash
<1> HIDE DEF ChainInv, SharedInv, BlockhashInv, WorkInv, DeadlineInv, SelectInv,
            AvailableInv, MatchInv, UpgradeInv, Fresh, Dead, Matches, IsRevoked, Upgraded
<1> QED
  BY <1>1, <1>2, <1>3, <1>4, <1>5, <1>6, <1>7, <1>8, <1>9, <1>10, <1>11, <1>12, <1>13,
     <1>14, <1>15, <1>16, <1>17, <1>18, <1>19, <1>20, <1>21, <1>22, <1>23, <1>24 DEF Next

\* A step keeps whoever may be submitted matched with its nonce.
LEMMA LiveStep ==
    ASSUME PoolInv, ~AllowUnlock, [Next]_vars
    PROVE  LiveInv'
<1>0. /\ TypeOK /\ ChainInv /\ SharedInv /\ BlockhashInv /\ WorkInv /\ SelectInv
      /\ AvailableInv /\ MatchInv /\ DeadlineInv /\ UpgradeInv /\ LiveInv
  BY DEF PoolInv, NonceInv
<1> USE <1>0, NonceKinds, FulfillmentKinds, SessionKinds
    DEF TypeOK, Sigs, Fuls, Executed, NonceStates, FulfillmentStates, TxStates,
        WorkStates, nonceVars, fulVars, chainVars, selVars, envVars, faultVars,
        ChainInv, SharedInv, BlockhashInv, WorkInv, DeadlineInv, SelectInv,
        AvailableInv, MatchInv, UpgradeInv, LiveInv, Fresh, Dead, Matches, IsRevoked, Upgraded
<1>1. CASE \/ \E h \in Holders : StartIntent(h) \/ CommitFails(h) \/ Abort(h) \/
                      EndSession(h)
           \/ \E d \in OnDemand : StartOnDemand(d)
           \/ \E u \in Upgrades : StartUpgrade(u) \/ SelectUpgradeNonce(u)
           \/ \E f \in Fuls, n \in Nonces : PickNonce(f, n)
           \/ \E f \in Fuls : AbandonPick(f)
           \/ \E t \in Temps : DeadlinePasses(t)
           \/ UNCHANGED vars
  <2>1. CASE \E h \in Holders : StartIntent(h) \/ CommitFails(h) \/ Abort(h) \/ EndSession(h)
    BY <2>1 DEF StartIntent, CommitFails, Abort, EndSession
  <2>2. CASE \/ \E d \in OnDemand : StartOnDemand(d)
             \/ \E u \in Upgrades : StartUpgrade(u) \/ SelectUpgradeNonce(u)
    BY <2>2 DEF StartOnDemand, StartUpgrade, SelectUpgradeNonce
  <2>3. CASE \/ \E f \in Fuls, n \in Nonces : PickNonce(f, n)
             \/ \E f \in Fuls : AbandonPick(f)
             \/ \E t \in Temps : DeadlinePasses(t)
             \/ UNCHANGED vars
    BY <2>3 DEF PickNonce, AbandonPick, DeadlinePasses, vars
  <2> QED
    BY ONLY <1>1, <2>1, <2>2, <2>3
<1>2. ASSUME NEW n \in Nonces, CreateNonce(n) PROVE LiveInv'
  BY <1>2 DEF CreateNonce
<1>3. ASSUME NEW n \in Nonces, BroadcastCreation(n) PROVE LiveInv'
  BY <1>3 DEF BroadcastCreation
<1>4. ASSUME NEW n \in Nonces, LandCreation(n) PROVE LiveInv'
  BY <1>4 DEF LandCreation
<1>5. ASSUME NEW n \in Nonces, MarkReleased(n) PROVE LiveInv'
  BY <1>5 DEF MarkReleased
<1>6. ASSUME NEW n \in Nonces, MarkInvalid(n) PROVE LiveInv'
  BY <1>6 DEF MarkInvalid
<1>7. ASSUME NEW n \in Nonces, MarkAvailable(n) PROVE LiveInv'
  BY <1>7 DEF MarkAvailable
<1>8. ASSUME NEW h \in Holders, Commit(h) PROVE LiveInv'
  <2>1. CommitWrites(h)
    BY <1>8, CommitEffect
  <2>2. ASSUME NEW f \in Fuls, HolderOf[f] = h PROVE Matches(f)'
    BY <2>1, <2>2 DEF CommitWrites
  <2>3. ASSUME NEW f \in Fuls, HolderOf[f] # h, fNonce'[f] # NoNonce,
               \/ fState'[f] = "Pending" /\ tx'[f] \notin Executed
               \/ /\ fState'[f] = "Unknown" /\ ~Upgraded(f)'
                  /\ work'[f] = "submit" \/ ~IsRevoked(f)'
        PROVE  Matches(f)'
    <3>1. /\ fNonce[f] = fNonce'[f] /\ fState[f] = fState'[f] /\ tx[f] = tx'[f]
          /\ work[f] = work'[f] /\ closed = closed'
      BY <2>1, <2>3 DEF CommitWrites
    <3>2. \A u \in Upgrades : fState[u] # "None" => fState'[u] # "None"
      BY <2>1 DEF CommitWrites
    <3>3. Matches(f)
      BY <2>3, <3>1, <3>2
    <3>4. ASSUME NEW g \in Fuls, HolderOf[g] = h PROVE sel[g] # fNonce[f]
      BY <2>1, <2>3, <3>3, <3>4 DEF CommitWrites
    <3> QED
      BY <2>1, <2>3, <3>3, <3>4 DEF CommitWrites
  <2> QED
    BY <2>2, <2>3
<1>9. ASSUME NEW f \in Fuls, ReserveNonce(f) PROVE LiveInv'
  BY <1>9 DEF ReserveNonce, Unlocked
<1>10. ASSUME NEW f \in Fuls, Release(f) PROVE LiveInv'
  BY <1>10 DEF Release
<1>11. ASSUME NEW f \in Fuls, DecideToSubmit(f) PROVE LiveInv'
  BY <1>11 DEF DecideToSubmit, IsRevoked, CanSubmit, Upgraded
<1>12. ASSUME NEW f \in Fuls, MarkPending(f) PROVE LiveInv'
  BY <1>12 DEF MarkPending
<1>13. ASSUME NEW f \in Fuls, RevokeUsed(f) PROVE LiveInv'
  BY <1>13 DEF RevokeUsed, RevokedByUpgrade, Upgraded
<1>14. ASSUME NEW f \in Fuls, DecideToRevoke(f) PROVE LiveInv'
  BY <1>14 DEF DecideToRevoke, IsRevoked
<1>15. ASSUME NEW f \in Fuls, ReturnNonce(f) PROVE LiveInv'
  BY <1>15 DEF ReturnNonce, Matches
<1>16. ASSUME NEW f \in Fuls, RevokeFails(f) PROVE LiveInv'
  BY <1>16 DEF RevokeFails, Matches
<1>17. ASSUME NEW f \in Fuls, MarkRevoked(f) PROVE LiveInv'
  BY <1>17 DEF MarkRevoked
<1>18. ASSUME NEW f \in Fuls, SendToBlockchain(f) PROVE LiveInv'
  BY <1>18 DEF SendToBlockchain
<1>19. ASSUME NEW f \in Fuls, Land(f) PROVE LiveInv'
  BY <1>19 DEF Land
<1>20. ASSUME NEW f \in Fuls, ReleaseNonce(f) PROVE LiveInv'
  BY <1>20 DEF ReleaseNonce, Matches
<1>21. ASSUME NEW f \in Fuls, FinishFulfillment(f) PROVE LiveInv'
  BY <1>21 DEF FinishFulfillment
<1>22. ASSUME NEW f \in Fuls, WriteFails(f) PROVE LiveInv'
  BY <1>22 DEF WriteFails
<1>23. ASSUME NEW d \in Dormants, TimelockCloses(d) PROVE LiveInv'
  BY <1>23 DEF TimelockCloses
<1>24. CASE Crash
  BY <1>24 DEF Crash
<1> HIDE DEF ChainInv, SharedInv, BlockhashInv, WorkInv, DeadlineInv, SelectInv,
            AvailableInv, MatchInv, UpgradeInv, LiveInv, Fresh, Dead, Matches, IsRevoked, Upgraded
<1> QED
  BY <1>1, <1>2, <1>3, <1>4, <1>5, <1>6, <1>7, <1>8, <1>9, <1>10, <1>11, <1>12, <1>13,
     <1>14, <1>15, <1>16, <1>17, <1>18, <1>19, <1>20, <1>21, <1>22, <1>23, <1>24 DEF Next

\* NonceInv holds in every reachable state.
LEMMA NonceInvariant == Spec => []NonceInv
<1>1. Init => NonceInv
  <2> SUFFICES ASSUME Init PROVE NonceInv
    OBVIOUS
  <2> USE NonceKinds, FulfillmentKinds, SessionKinds, Bounds
      DEF Init, Fuls, Sigs, Executed, NonceStates, FulfillmentStates, TxStates, WorkStates
  <2>1. TypeOK /\ ChainInv /\ SharedInv
    BY DEF TypeOK, ChainInv, SharedInv
  <2>2. BlockhashInv /\ WorkInv
    BY DEF BlockhashInv, WorkInv
  <2>3. SelectInv /\ AvailableInv /\ MatchInv
    BY DEF SelectInv, AvailableInv, Fresh, MatchInv, Matches
  <2> QED
    BY <2>1, <2>2, <2>3 DEF NonceInv
<1>2. NonceInv /\ [Next]_vars => NonceInv'
  <2> SUFFICES ASSUME NonceInv, [Next]_vars PROVE NonceInv'
    OBVIOUS
  <2>1. TypeOK' /\ ChainInv' /\ SharedInv' /\ BlockhashInv' /\ WorkInv'
    BY TypeStep, ChainStep, SharedStep, BlockhashStep, WorkStep DEF NonceInv
  <2>2. SelectInv' /\ AvailableInv' /\ MatchInv'
    BY SelectStep, AvailableStep, MatchStep
  <2> QED
    BY <2>1, <2>2 DEF NonceInv
<1> QED
  BY <1>1, <1>2, PTL DEF Spec

\* PoolInv holds in every reachable state, as long as no timelock stops being
\* managed during an upgrade.
LEMMA PoolInvariant == ~AllowUnlock => (Spec => []PoolInv)
<1> SUFFICES ASSUME ~AllowUnlock PROVE Spec => []PoolInv
  OBVIOUS
<1>1. Init => DeadlineInv /\ UpgradeInv /\ LiveInv
  BY NonceKinds, FulfillmentKinds, SessionKinds
  DEF Init, Fuls, DeadlineInv, UpgradeInv, LiveInv, Matches
<1>2. PoolInv /\ NonceInv' /\ [Next]_vars => PoolInv'
  <2> SUFFICES ASSUME PoolInv, NonceInv', [Next]_vars PROVE PoolInv'
    OBVIOUS
  <2>1. NonceInv /\ DeadlineInv /\ UpgradeInv
    BY DEF PoolInv
  <2>2. DeadlineInv'
    BY <2>1, DeadlineStep DEF NonceInv
  <2>3. UpgradeInv' /\ LiveInv'
    BY <2>1, UpgradeStep, LiveStep
  <2> QED
    BY <2>2, <2>3 DEF PoolInv
<1> QED
  BY <1>1, <1>2, NonceInvariant, PTL DEF Spec, PoolInv

\* An available nonce never carries a blockhash that is used up or that a
\* submittable transaction names, across crashes, failed writes and timelocks
\* that unlock during an upgrade (pool.go:170).
THEOREM AvailableFresh == Spec => []AvailableIsFresh
<1>1. NonceInv => AvailableIsFresh
  BY DEF NonceInv, AvailableInv, AvailableIsFresh, Fresh, Dead
<1> QED
  BY <1>1, NonceInvariant, PTL

\* A scheduled fulfillment stays executable until it executed, across crashes
\* and failed writes (worker.go:151-270).
THEOREM NothingStranded == ~AllowUnlock => (Spec => []NoFulfillmentStranded)
<1> SUFFICES ASSUME ~AllowUnlock PROVE Spec => []NoFulfillmentStranded
  OBVIOUS
<1>1. PoolInv => NoFulfillmentStranded
  <2> SUFFICES ASSUME PoolInv, NEW f \in Fuls, fNonce[f] # NoNonce
               PROVE  /\ fState[f] = "Pending" => tx[f] \in Executed \/ Executable(f)
                      /\ fState[f] = "Unknown" /\ ~Upgraded(f) /\ ~IsRevoked(f) => Executable(f)
    BY DEF NoFulfillmentStranded
  <2>1. Matches(f) /\ tx[f] \notin Executed => Executable(f)
    BY DEF PoolInv, NonceInv, UpgradeInv, MatchInv, Executable
  <2>2. fState[f] = "Unknown" => tx[f] \notin Executed
    BY DEF PoolInv, NonceInv, WorkInv, Executed
  <2> QED
    BY <2>1, <2>2 DEF PoolInv, LiveInv
<1> QED
  BY <1>1, PoolInvariant, PTL

-----------------------------------------------------------------------------
(* No reserved nonce is forgotten.                                          *)

\* n awaits the transaction of a live fulfillment.
Awaited(n) ==
    \E f \in Fuls : fNonce[f] = n /\ Matches(f) /\ fState[f] \in {"Unknown", "Pending"}

\* A reserved nonce has an owner that will give it back: a session that holds
\* it unsigned, or a fulfillment whose end was not prepared yet.
HeldInv ==
    /\ \A n \in Nonces : nState[n] = "Reserved" =>
          (\E f \in Fuls : sel[f] = n /\ selSig[f] = NoSig) \/ Awaited(n)
    /\ \A f \in Fuls : work[f] \in {"revokeSaved", "finishSaved"} => ~Matches(f)
    /\ \A f \in Fuls \ OnDemand : phase[HolderOf[f]] = "open" => fState[f] = "None"

\* The ways a nonce is known to leak: a commit that fails after the nonces were
\* signed in memory, a restart, and a session that only unlocks.
NoLeaks == MaxFails = 0 /\ MaxCrashes = 0 /\ Leaky = {}

\* A step keeps every reserved nonce with an owner.
LEMMA HeldStep ==
    ASSUME TypeOK, ChainInv, WorkInv, SelectInv, AvailableInv, HeldInv, NoLeaks, [Next]_vars
    PROVE  HeldInv'
<1> USE NonceKinds, FulfillmentKinds, SessionKinds
    DEF TypeOK, Sigs, Fuls, Executed, NonceStates, FulfillmentStates, TxStates,
        WorkStates, nonceVars, fulVars, chainVars, selVars, envVars, faultVars,
        HeldInv, Awaited, Matches, NoLeaks
<1>1. CASE \/ \E n \in Nonces : BroadcastCreation(n) \/ LandCreation(n)
           \/ \E h \in Holders : CommitFails(h) \/ Abort(h) \/ EndSession(h)
           \/ \E f \in Fuls, n \in Nonces : PickNonce(f, n)
           \/ \E f \in Fuls : \/ AbandonPick(f) \/ DecideToSubmit(f) \/ DecideToRevoke(f)
                              \/ RevokeFails(f) \/ SendToBlockchain(f) \/ Land(f)
                              \/ WriteFails(f)
           \/ \E t \in Temps : DeadlinePasses(t)
           \/ \E d \in Dormants : TimelockCloses(d)
           \/ Crash
           \/ UNCHANGED vars
  <2>1. CASE \E n \in Nonces : BroadcastCreation(n) \/ LandCreation(n)
    BY <2>1 DEF BroadcastCreation, LandCreation
  <2>2. CASE \E h \in Holders : CommitFails(h) \/ Abort(h)
    BY <2>2 DEF CommitFails, Abort
  <2>11. CASE \E h \in Holders : EndSession(h)
    BY <2>11 DEF EndSession
  <2>3. CASE \/ \E f \in Fuls, n \in Nonces : PickNonce(f, n)
             \/ \E f \in Fuls : AbandonPick(f)
    BY <2>3 DEF PickNonce, AbandonPick
  <2>4. CASE \E f \in Fuls : DecideToSubmit(f)
    BY <2>4 DEF DecideToSubmit
  <2>12. CASE \E f \in Fuls : DecideToRevoke(f)
    BY <2>12 DEF DecideToRevoke
  <2>5. CASE \E f \in Fuls : RevokeFails(f)
    BY <2>5 DEF RevokeFails
  <2>6. CASE \E f \in Fuls : SendToBlockchain(f)
    BY <2>6 DEF SendToBlockchain
  <2>7. CASE \E f \in Fuls : Land(f)
    BY <2>7 DEF Land
  <2>8. CASE \E f \in Fuls : WriteFails(f)
    BY <2>8 DEF WriteFails
  <2>9. CASE \/ \E t \in Temps : DeadlinePasses(t)
             \/ \E d \in Dormants : TimelockCloses(d)
    BY <2>9 DEF DeadlinePasses, TimelockCloses
  <2>10. CASE Crash \/ UNCHANGED vars
    BY <2>10 DEF Crash, vars
  <2> QED
    BY ONLY <1>1, <2>1, <2>2, <2>3, <2>4, <2>5, <2>6, <2>7, <2>8, <2>9, <2>10,
       <2>11, <2>12
<1>2. ASSUME NEW n \in Nonces, CreateNonce(n) PROVE HeldInv'
  BY <1>2 DEF CreateNonce
<1>3. ASSUME NEW n \in Nonces, MarkReleased(n) PROVE HeldInv'
  BY <1>3 DEF MarkReleased
<1>4. ASSUME NEW n \in Nonces, MarkInvalid(n) PROVE HeldInv'
  BY <1>4 DEF MarkInvalid
<1>5. ASSUME NEW n \in Nonces, MarkAvailable(n) PROVE HeldInv'
  BY <1>5 DEF MarkAvailable
<1>6. ASSUME NEW h \in Holders, StartIntent(h) PROVE HeldInv'
  BY <1>6 DEF StartIntent, ClientHolders, Members
<1>7. ASSUME NEW h \in Holders, Commit(h) PROVE HeldInv'
  <2>1. CommitWrites(h)
    BY <1>7, CommitEffect
  <2>2. ASSUME NEW n \in Nonces, nState'[n] = "Reserved"
        PROVE  (\E f \in Fuls : sel'[f] = n /\ selSig'[f] = NoSig) \/ Awaited(n)'
    <3>1. CASE \E f \in Fuls : HolderOf[f] = h /\ sel[f] = n
      BY <2>1, <3>1 DEF CommitWrites, WorkInv
    <3>2. CASE ~\E f \in Fuls : HolderOf[f] = h /\ sel[f] = n
      <4>1. nState[n] = "Reserved" /\ nSig'[n] = nSig[n] /\ nBh'[n] = nBh[n]
        BY <2>1, <2>2, <3>2 DEF CommitWrites
      <4>2. CASE \E f \in Fuls : sel[f] = n /\ selSig[f] = NoSig
        BY <2>1, <3>2, <4>2 DEF CommitWrites
      <4>3. ASSUME NEW f \in Fuls, fNonce[f] = n, Matches(f), fState[f] \in {"Unknown", "Pending"}
            PROVE  Awaited(n)'
        <5>1. HolderOf[f] # h
          BY <2>1, <4>3 DEF CommitWrites, ChainInv
        <5>2. fNonce'[f] = n /\ fBh'[f] = fBh[f] /\ fState'[f] = fState[f]
          BY <2>1, <4>3, <5>1 DEF CommitWrites
        <5> QED
          BY <2>2, <4>1, <4>3, <5>2
      <4> QED
        BY <4>1, <4>2, <4>3
    <3> QED
      BY <3>1, <3>2
  <2>3. ASSUME NEW f \in Fuls, work'[f] \in {"revokeSaved", "finishSaved"}
        PROVE  ~Matches(f)'
    <3>1. HolderOf[f] # h
      BY <2>1, <2>3 DEF CommitWrites, ChainInv, WorkInv
    <3> QED
      BY <2>1, <2>3, <3>1 DEF CommitWrites
  <2>4. \A f \in Fuls \ OnDemand : phase'[HolderOf[f]] = "open" => fState'[f] = "None"
    BY <2>1 DEF CommitWrites
  <2> QED
    BY <2>2, <2>3, <2>4
<1>8. ASSUME NEW d \in OnDemand, StartOnDemand(d) PROVE HeldInv'
  BY <1>8 DEF StartOnDemand
<1>9. ASSUME NEW u \in Upgrades, StartUpgrade(u) PROVE HeldInv'
  BY <1>9 DEF StartUpgrade, Upgraded
<1>10. ASSUME NEW u \in Upgrades, SelectUpgradeNonce(u) PROVE HeldInv'
  BY <1>10 DEF SelectUpgradeNonce, Unlocked
<1>11. ASSUME NEW f \in Fuls, ReserveNonce(f) PROVE HeldInv'
  BY <1>11 DEF ReserveNonce, Unlocked, SelectInv, AvailableInv
<1>12. ASSUME NEW f \in Fuls, Release(f) PROVE HeldInv'
  BY <1>12 DEF Release
<1>13. ASSUME NEW f \in Fuls, MarkPending(f) PROVE HeldInv'
  BY <1>13 DEF MarkPending, WorkInv
<1>14. ASSUME NEW f \in Fuls, RevokeUsed(f) PROVE HeldInv'
  BY <1>14 DEF RevokeUsed, RevokedByUpgrade
<1>15. ASSUME NEW f \in Fuls, ReturnNonce(f) PROVE HeldInv'
  BY <1>15 DEF ReturnNonce
<1>16. ASSUME NEW f \in Fuls, MarkRevoked(f) PROVE HeldInv'
  BY <1>16 DEF MarkRevoked, WorkInv
<1>17. ASSUME NEW f \in Fuls, ReleaseNonce(f) PROVE HeldInv'
  BY <1>17 DEF ReleaseNonce
<1>18. ASSUME NEW f \in Fuls, FinishFulfillment(f) PROVE HeldInv'
  BY <1>18 DEF FinishFulfillment, WorkInv
<1> HIDE DEF HeldInv, Awaited, Matches
<1> QED
  BY <1>1, <1>2, <1>3, <1>4, <1>5, <1>6, <1>7, <1>8, <1>9, <1>10, <1>11, <1>12, <1>13,
     <1>14, <1>15, <1>16, <1>17, <1>18 DEF Next

\* Unless a commit fails, the process restarts, or a session only unlocks, a
\* reserved nonce is always with someone who will use it or give it back
\* (nonce.go:54-57, nonce.go:139-160, utils.go:154-215).
THEOREM ReservedHeld ==
    NoLeaks => (Spec => []ReservedIsAccountedFor)
<1> SUFFICES ASSUME NoLeaks PROVE Spec => []ReservedIsAccountedFor
  OBVIOUS
<1>1. Init => HeldInv
  BY NonceKinds, FulfillmentKinds, SessionKinds DEF Init, Fuls, Sigs, HeldInv
<1>2. NonceInv /\ HeldInv /\ [Next]_vars => HeldInv'
  BY HeldStep DEF NonceInv
<1>3. HeldInv => ReservedIsAccountedFor
  BY DEF HeldInv, Awaited, ReservedIsAccountedFor
<1> QED
  BY <1>1, <1>2, <1>3, NonceInvariant, PTL DEF Spec

=============================================================================
