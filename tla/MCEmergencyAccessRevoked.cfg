CONSTANTS
    ContactId = {e1, e2}
    RequestId = {q1, q2}
    ContactUser = {u1}
    Key = {k1}
    NoWrappedKey = NoWrappedKey
    Hours = {1, 2}
    NoEntity = NoEntity
    NoId = NoId
    Handler = {c1}
    MaxTime = 3
SPECIFICATION EmergencySpec
PROPERTY RevokedGetsNoKey
