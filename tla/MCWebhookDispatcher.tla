------------------------- MODULE MCWebhookDispatcher -------------------------
(***************************************************************************)
(* Small instances of WebhookDispatcher: an endpoint that may be direct or *)
(* batched, which also decides whether it retries, and one that is direct  *)
(* and filters.                                                            *)
(***************************************************************************)
EXTENDS WebhookDispatcher

CONSTANTS e1, e2

Message(id, device) ==
    [id |-> id, deviceIds |-> device, deviceTypes |-> "V5008", suoTypes |-> "SUO_HEARTBEAT"]

MCMessages == {Message(1, "d1"), Message(2, "d2")}

Everything == [deviceIds |-> {}, deviceTypes |-> {}, suoTypes |-> {}]

Endpoint(id, batched, retries, devices) ==
    [id |-> id, enabled |-> TRUE, batched |-> batched, retries |-> retries,
     filter |-> [Everything EXCEPT !.deviceIds = devices]]

MCEndpoints ==
    {Endpoint(e1, TRUE, 1, {}), Endpoint(e1, FALSE, 0, {}), Endpoint(e2, FALSE, 1, {"d1"})}
=============================================================================
