----------------------------- MODULE MCCollection -----------------------------
(* Two items for every fan-out, and every site; or the sites at which the     *)
(* documentation is at odds with the code.                                    *)
EXTENDS Collection

MCItems == {"one", "two"}

MCMutedSites == {"nh_bluetooth"}
MCPortSites == {"ms_ports"}
=============================================================================
