CONSTANTS
    User = {u1, u2}
    Asked = {0, 2}
    NaN = NaN
    NoRow = NoRow
    Call = {c1}
    Overlapping = FALSE
    MaxPublishes = 4
    MaxFaults = 2

    VaultUser = {w1, w2, w3}
    NoVault = NoVault
    NoMember = NoMember
    NoKey = NoKey
    NoView = NoView
    MaxKeyVersion = 2

    Link = {l1, l2}
    NoLink = NoLink
    LinkOwner = {u1, u2}
    MaxExpiry = 2
    DefaultExpiry = 1
    MaxHour = 3

    Invite = {i1, i2}
    NoInvite = NoInvite
    Folder = {f1, f2}
    Recipient = {u1, u2}

    ContactId = {e1, e2}
    RequestId = {u1, u2}
    ContactUser = {x1}
    Key = {}
    NoWrappedKey = NoWrappedKey
    Hours = {0, 1}
    NoEntity = NoEntity
    NoId = NoId
    Handler = {h1, h2}
    MaxTime = 1
SPECIFICATION MCSpec
SYMMETRY Symmetry
INVARIANTS SharingTypeOK LastPublishIsServed RevokedStayOut KeysGuarded
INVARIANTS EmergencyTypeOK OnePerContact RevocationSticks
PROPERTIES PriorPublishesStand BundleKeepsItsOrigin TicketsServeOnce
PROPERTIES KeyOnlyAfterWaiting ResolvedOnce
CHECK_DEADLOCK FALSE
