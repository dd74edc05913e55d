---------------------------- MODULE MCNoncePool ----------------------------
(* Instances of NoncePool for TLC: a private payment temp with its upgrade   *)
(* perm, the close of a gift card, plain client transfers pay1 and pay2,     *)
(* transactions svc1 and svc2 the sequencer makes itself.                    *)
EXTENDS NoncePool, TLC

CONSTANTS c1, c2, o1, temp, perm, gift, pay1, pay2, svc1, svc2, h1, h2, ho, ho2, hu

\* Every fulfillment has a session of its own, except that pay1 and pay2
\* belong to one intent.
AllHolders == temp :> h1 @@ pay1 :> h1 @@ pay2 :> h1 @@ gift :> h2
                @@ svc1 :> ho @@ svc2 :> ho2 @@ perm :> hu
MCHolderOf == [f \in Fuls |-> AllHolders[f]]
MCHolders == {MCHolderOf[f] : f \in Fuls}
MCTempOf == [f \in Upgrades |-> temp]
MCPurpose == [n \in Nonces |-> IF n = o1 THEN "OnDemand" ELSE "Client"]
MCUseCase == [f \in Fuls |-> IF f \in OnDemand THEN "OnDemand" ELSE "Client"]
=============================================================================
