-------------------------- MODULE MCPluginInstall --------------------------
(* Two processes and three sources, two of which share their version.        *)
EXTENDS PluginInstall, TLC

MCSources == {[version |-> 1, content |-> 1], [version |-> 1, content |-> 2], [version |-> 2, content |-> 1]}
=============================================================================
