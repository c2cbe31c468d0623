SPECIFICATION Spec
CONSTANTS
    None = None
    Clients = {c1}
    c1 = c1
    Urls <- MCUrls
    Tokens = {t1, t2}
    t1 = t1
    t2 = t2
    Unsafe = Unsafe
    Internal = {"cluster", "localhost"}
    Loopback = {"localhost"}
    Coordinates <- MCCoordinates
    Locations <- MCLocations
    Digests <- MCDigests
SYMMETRY Symmetry
INVARIANTS TypeOK TokenStaysHome NeverDowngraded RoutesAreNamed
