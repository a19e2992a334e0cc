---------------------------- MODULE MCVpnGateway ----------------------------
EXTENDS VpnGateway

MCServerList == <<"one", "two">>
=============================================================================
