--------------------------- MODULE MCNotifications --------------------------
EXTENDS Notifications

(* Tunnel checks fail, or torrents have errors and miss files, and         *)
(* qBittorrent may not be connected.                                       *)
MCTracked == <<"VpnProtection", "TorrentErrors", "FilesMissing">>

MCFact(failing, client, errors, filesMissing) ==
    [StartFacts EXCEPT !.watched = TRUE, !.failing = failing,
        !.protected = ~failing, !.qbittorrent = client, !.listed = TRUE,
        !.allowed = TRUE, !.errors = errors, !.filesMissing = filesMissing]

MCFacts ==
    {MCFact(FALSE, "Connected", FALSE, FALSE),
     MCFact(FALSE, "Connected", TRUE, TRUE),
     MCFact(FALSE, "Connecting", FALSE, FALSE),
     MCFact(TRUE, "Connected", FALSE, FALSE)}
=============================================================================
