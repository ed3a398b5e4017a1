--------------------------- MODULE HostSettingsMC ---------------------------
(* Values of the constants of HostSettings for model checking.            *)
EXTENDS HostSettings

MCDefaults == [i \in Items |-> PowerDown]
=============================================================================
