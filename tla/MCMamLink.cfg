\* Two pasted cookies and one issued, two servers, a connection and its
\* two successors; a bucket of two, and a clock that outlasts two
\* registration spacings.
CONSTANTS
    OwnerCookies = {pasted, other}
    IssuedCookies = {issued}
    Addresses = {here, there}
    MaxEpoch = 2
    Burst = 2
    Refill = 2
    Second = 2
    LookupSpacing = 4
    ObserveEvery = 5
    RegistrationSpacing = 6
    RetryAfters = {7}
    MaxTime = 12
SYMMETRY Symmetry
SPECIFICATION LinkSpec
INVARIANTS
    RateBound
    RegistrationSavedFirst
    AddressesAreReal
PROPERTIES
    LookupsSpaced
    RegistrationsDecided
    CookieWaitsForAddress
    ReplacedCookieUnused
    PastedCookieStands
