----------------------------- MODULE MCDaemon -----------------------------
(* The pairs of shutdown timeouts, and the places a key is given in, that make a *)
(* difference.                                                                   *)
EXTENDS Daemon

MCTimeouts == {<<1, 2>>, <<2, 1>>, <<2, 0>>, <<0, 1>>}
MCSecrets == {{}, {"env"}, {"file", "env"}, {"env", "args"}, {"file", "env", "args"}}
=============================================================================
