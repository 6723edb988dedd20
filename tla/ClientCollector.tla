--------------------------- MODULE ClientCollector ---------------------------
(* What collectors/clients.py leaves behind.  Two kinds of data that cost a   *)
(* call for each client, or each batch of clients, have a timestamp for each  *)
(* network, and are reached only when the list of the clients is due.         *)
EXTENDS Outcomes

(* A failed batch is skipped; the network is done whatever came of them.      *)
ApplicationUsageOf(n, due) ==
    Gate("clients_app_usage", n, due,
        Caught(Call("clients_app_usage", n) \bullet Totals("app_usage", "clients_app_usage", n))
            \bullet Mark("clients_app_usage", n) \bullet Mark("clients_app_usage", Org))

SignalQualityOf(n, due) ==
    Gate("clients_signal_quality", n, due,
        IfAny("clients_signal_quality",
            Caught(Call("clients_signal_quality", n)
                       \bullet IfAny("clients_signal_quality",
                                     Write("client_rssi", "clients_signal_quality", n)))
            \bullet Mark("clients_signal_quality", n) \bullet Mark("clients_signal_quality", Org)))

(* The list of one network: cut to the caps, names looked up, kept in the     *)
(* store and written; a client that does not parse fails the network.         *)
NetworkClients(n, due) ==
    Call("clients_list", n) \bullet Totals("clients", "clients_list", n)
        \bullet IfAny("clients_app_usage", ApplicationUsageOf(n, due))
        \bullet SignalQualityOf(n, due)

(* Marked when a network came back with its clients.                          *)
Clients(due) ==
    Gate("clients_list", Org, due,
        Read("clients_list") \bullet Read("clients_list") \bullet IfAny("clients_list",
            MarkIf("clients_list", Each([n \in Items |-> NetworkClients(n, due)]),
                   LAMBDA o : \E n \in Items : <<"clients", "clients_list", n>> \in o.wrote)))
=============================================================================
