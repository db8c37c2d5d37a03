---------------------------- MODULE MCTranslator ----------------------------
(***************************************************************************)
(* Instances of Translator: files like those of operations/, with two that *)
(* Validate refuses, and requests of every kind.                           *)
(***************************************************************************)
EXTENDS Translator

Op(name, mode, reducer, sql, sequence) ==
    [name |-> name, mode |-> mode, reducer |-> reducer, sql |-> sql,
     sequence |-> sequence]
Event(steps) == [kind |-> "event", nilParams |-> FALSE, steps |-> steps]
Query(nilParams, step) == [kind |-> "query", nilParams |-> nilParams, steps |-> <<step>>]
Call(op, given) == [op |-> op, given |-> given]

(* operations/transport.yaml and operations/store.yaml, in part.           *)
ShipmentParams ==
    {"shipment_id", "order_id", "origin_id", "dest_id", "carrier_id", "status", "eta_tick"}
TrackingParams == {"shipment_id", "status", "location", "tick"}
TransportOps ==
    <<Op("insert_shipment", "write", "", <<ShipmentParams>>, <<>>),
      Op("insert_tracking_event", "write", "", <<TrackingParams>>, <<>>),
      Op("shipment_tracking", "query", "single_row",
         <<{"current_tick", "order_id"}>>, <<>>)>>
TransportEvents ==
    <<[name |-> "transport_shipment_created",
       requires |-> {"insert_shipment", "insert_tracking_event"}],
      [name |-> "transport_tracking_update", requires |-> {"insert_tracking_event"}]>>
CommunityOps ==
    <<Op("batch_update_influence_edges", "write", "", <<>>,
         <<{"source_id", "target_id"}, {"source_id", "target_id", "new_weight"}>>)>>
CommunityEvents ==
    <<[name |-> "community_propagation_batch",
       requires |-> {"batch_update_influence_edges"}]>>
StoreOps ==
    <<Op("check_inventory", "read", "", <<{"sku_id"}>>, <<>>),
      Op("inventory_levels", "query", "list_with_count", <<{}>>, <<>>)>>

(* A file Validate refuses, for a reducer nobody registered, and that also *)
(* repeats an operation.                                                   *)
BadOps ==
    <<Op("shipment_history", "query", "grouped", <<{"order_id"}>>, <<>>),
      Op("insert_shipment", "read", "", <<{}>>, <<>>),
      Op("never_loaded", "read", "", <<{}>>, <<>>)>>

OpsByFile ==
    [transport |-> TransportOps, community |-> CommunityOps, store |-> StoreOps, bad |-> BadOps]
EventsByFile ==
    [transport |-> TransportEvents, community |-> CommunityEvents, store |-> <<>>,
     bad |-> <<[name |-> "history", requires |-> {"shipment_history"}]>>]

Mixed ==
    [created |-> Event(<<Call("check_inventory", {"sku_id"}),
        Call("insert_shipment", ShipmentParams),
        Call("insert_tracking_event", TrackingParams)>>),
     batch |-> Event(<<Call("batch_update_influence_edges",
            {"source_id", "target_id", "new_weight"}),
        Call("insert_tracking_event", {"status", "tick"})>>),
     levels |-> Query(FALSE, Call("inventory_levels", {"seller_id"})),
     track |-> Query(FALSE, Call("shipment_tracking", {"order_id"})),
     history |-> Query(FALSE, Call("shipment_history", {"order_id"})),
     bare |-> Query(TRUE, Call("shipment_tracking", {}))]

(* What transport.py:50, transport.py:110 and community.py:141 emit.       *)
Emitted ==
    [created |-> Event(<<Call("insert_shipment", ShipmentParams),
        Call("insert_tracking_event", TrackingParams)>>),
     milestone |-> Event(<<Call("insert_tracking_event",
        {"shipment_id", "status", "location_estimate", "tick"})>>),
     influence |-> Event(<<Call("batch_update_influence_edges", {"edges"})>>)]
=============================================================================
