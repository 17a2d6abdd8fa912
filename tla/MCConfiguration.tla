-------------------------- MODULE MCConfiguration --------------------------
(* One resolution of a main file and that of a profile.                      *)
EXTENDS Configuration

MCDefaults == [network |-> [attempts |-> 0, timeout |-> 0], output |-> [format |-> 0]]
MCLayers == [l \in {"first"} |-> <<"app", "profile">>]
MCDocuments == {
  <<>>,
  [network |-> [attempts |-> 1]],
  [network |-> [attempts |-> 2, retries |-> 2]],
  [network |-> [retries |-> 1]],
  [network |-> [timeout |-> 1], output |-> [format |-> 1]],
  [output |-> [format |-> 9]]}
=============================================================================
