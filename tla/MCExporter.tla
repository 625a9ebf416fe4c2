----------------------------- MODULE MCExporter -----------------------------
(***************************************************************************)
(* Exporter for TLC: one scrape-time and two background collectors, lists  *)
(* of addresses with one of them twice, and with a vsock address.          *)
(***************************************************************************)
EXTENDS Exporter

MCOrder == <<"interface", "lldp", "system", "frr">>

MCAddressLists ==
  {<<":9101", ":9200">>, <<":9101", ":9200", ":9101">>, <<":9101", "vsock://9101">>}

MCEnabledSets == SUBSET {"lldp", "system", "frr"}

=============================================================================
