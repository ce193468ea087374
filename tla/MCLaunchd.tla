------------------------------ MODULE MCLaunchd ------------------------------
(***************************************************************************)
(* Instances of Launchd: a shell kept alive and a one-shot daemon at boot, *)
(* a second daemon that launchctl may load, and the one-shot once more.    *)
(***************************************************************************)
EXTENDS Launchd

Shell == [label |-> "shell", keep_alive |-> TRUE, run_at_load |-> TRUE]
Test == [label |-> "test", keep_alive |-> FALSE, run_at_load |-> TRUE]
Server == [label |-> "server", keep_alive |-> TRUE, run_at_load |-> FALSE]

BootTwo == <<Shell, Test>>
BootShell == <<Shell>>
LoadBoth == {Server, Test}
LoadServer == {Server}
LoadNone == {}
=============================================================================
