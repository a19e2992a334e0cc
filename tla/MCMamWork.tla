----------------------------- MODULE MCMamWork ------------------------------
EXTENDS MamWork

MCIds == <<"t", "u">>

MCClient(refused, reached) ==
    [version |-> "v", refused |-> refused, reached |-> reached]

MCSite(bookmarks, flag, wedges, vip, most) ==
    [bookmarks |-> bookmarks, flags |-> [t |-> flag, u |-> "Cost"],
     wedges |-> wedges, points |-> 20000, vip |-> vip,
     most |-> most, clients |-> {MCClient(FALSE, TRUE)}]

MCTwoBookmarks == {MCSite(<<"t", "u">>, "Cost", 3, 80, 1)}

MCSites == MCTwoBookmarks \cup
           {MCSite(<<"t">>, "Free", 0, 13, 1),
            MCSite(<<"t">>, "Free", 0, 80, 2)}

MCLists == {{MCClient(FALSE, TRUE)}, {MCClient(TRUE, TRUE)}}

MCListed == {{MCClient(FALSE, TRUE)}}

MCAddresses == <<"a", "b">>
=============================================================================
