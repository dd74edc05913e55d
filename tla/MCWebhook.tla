-------------------------------- MODULE MCWebhook --------------------------------
(***************************************************************************)
(* Streams a and b of server s, c of server t; a message of a client, that *)
(* of the intent, and those of the attempts to call the webhook.  A        *)
(* behaviour begins with one of four sets of participants:                 *)
(*   - the three streams and the message of the client;                    *)
(*   - two streams that follow each other, and the client and the intent;  *)
(*   - one stream, the intent and its webhook;                             *)
(*   - the intent and its webhook, with faults, and no stream.             *)
(***************************************************************************)
EXTENDS Webhook, TLC

CONSTANTS s, t, a, b, c, grab, intent, call1, call2, call3

MCServerOf == a :> s @@ b :> s @@ c :> t
MCCalled == <<call1, call2, call3>>
MCSenderOf == intent :> s @@ grab :> t
                @@ call1 :> NoServer @@ call2 :> NoServer @@ call3 :> NoServer

Participants == {
    [streams |-> {a, b, c}, messages |-> {grab}, registers |-> FALSE, faults |-> 0],
    [streams |-> {a, b}, messages |-> {grab, intent}, registers |-> FALSE, faults |-> 0],
    [streams |-> {b}, messages |-> {intent} \cup CallMessages, registers |-> TRUE, faults |-> 0],
    [streams |-> {}, messages |-> {intent} \cup CallMessages, registers |-> TRUE,
        faults |-> MaxFaults]}

MCInit ==
    /\ Init
    /\ \E p \in Participants :
          /\ p.streams = {st \in Streams : phase[st] = "new"}
          /\ p.messages = {m \in Messages : send[m] = "none"}
          /\ p.registers = (register = "none")
          /\ p.faults = MaxFaults - faults

MCFairSpec == MCInit /\ [][Next]_vars /\ Fairness

=============================================================================
