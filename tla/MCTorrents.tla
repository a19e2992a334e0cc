----------------------------- MODULE MCTorrents -----------------------------
(***************************************************************************)
(* One MAM torrent.  The store is new or holds the torrent; qBittorrent    *)
(* has it or not.                                                          *)
(***************************************************************************)
EXTENDS Torrents
MCHashOf == [m \in MamIds |-> CHOOSE h \in Hashes : TRUE]
MCStores ==
    {<< >>, <<NewRow("m", "h", "Bookmark", "Held")>>}
MCClients ==
    {FreshClient(torrents, "p", "x") : torrents \in {NoTorrents,
                                                    "h" :> DefaultTorrent}}
=============================================================================
