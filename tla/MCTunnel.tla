------------------------------ MODULE MCTunnel ------------------------------
(* Two servers, and a clock that outlasts two switch spacings.           *)
EXTENDS Tunnel

MCServerList == <<"one", "two">>
=============================================================================
