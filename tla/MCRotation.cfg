\* Two pasted cookies and one issued, two servers, a connection and its
\* two successors.
CONSTANTS
    OwnerCookies = {pasted, other}
    IssuedCookies = {issued}
    Addresses = {here, there}
    MaxEpoch = 2
SYMMETRY Symmetry
SPECIFICATION Spec
PROPERTIES
    RotationUndisputed
