---------------------------- MODULE MCConnectors ----------------------------
(***************************************************************************)
(* Instances of the two connectors for TLC.                                 *)
(***************************************************************************)
EXTENDS Connectors

Cfg(on, complete, broker, device) ==
  [enabled |-> on, complete |-> complete, broker |-> broker, device |-> device,
   bands |-> {}]
Station == Cfg(TRUE, TRUE, "b1", "d1")
\* Another broker and device; switched off; left incomplete.
StationConfigs ==
  {Station, Cfg(TRUE, TRUE, "b2", "d2"), Cfg(FALSE, TRUE, "b1", "d1"),
   Cfg(TRUE, FALSE, "b1", "d1")}
StationSaved == {Station}

Ask(id, device, cmd, bands) ==
  [task |-> id, device |-> device, cmd |-> cmd, bands |-> bands,
   power |-> FALSE, garbled |-> FALSE]
\* One to open on a band, one to close, one that cannot be read.
Platform ==
  {Ask("1", "d1", "open", {"2400"}), Ask("2", "d1", "close", {}),
   [Ask("", "", "", {}) EXCEPT !.garbled = TRUE]}

Relay == {[id |-> "c1", reserved |-> FALSE, bands |-> {"2.4G"}],
          [id |-> "c2", reserved |-> TRUE, bands |-> {"5.8G"}]}

Dcd == [type |-> "dcd", sensing |-> TRUE]
Jammer == [type |-> "interference", sensing |-> FALSE]
TwoDevices == {Dcd, Jammer}
Bridge(on, broker, device) ==
  [enabled |-> on, complete |-> TRUE, broker |-> broker, devices |-> {device}]
BridgeConfigs == {Bridge(TRUE, "b1", Dcd), Bridge(TRUE, "b2", Jammer)}
BridgeSaved == {Bridge(TRUE, "b1", Dcd)}
Drone == {[id |-> "t1", source |-> "RID", located |-> TRUE]}
StartStop == {[valid |-> TRUE, cmd |-> TRUE, op |-> o, bands |-> {}] : o \in {0, 1}}
==============================================================================
