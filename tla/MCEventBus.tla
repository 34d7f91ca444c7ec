----------------------------- MODULE MCEventBus ------------------------------
(***************************************************************************)
(* EventBus with two publishing threads, a handler for crashes, as the     *)
(* dashboard's, and one for every type.                                    *)
(***************************************************************************)
EXTENDS EventBus

CONSTANTS dashboard, all, monitor, scanner

MCPublishers == {monitor, scanner}
MCQuota == [p \in MCPublishers |-> IF p = monitor THEN 1 ELSE 2]

MCHandlers == {dashboard, all}
MCTypes == {"server.crashed", "scan.flag"}
MCListens ==
  [h \in MCHandlers |-> IF h = dashboard THEN {"server.crashed"} ELSE MCTypes]
=============================================================================
