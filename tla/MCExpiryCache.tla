--------------------------- MODULE MCExpiryCache ---------------------------
(* Durations of every kind: past (a time point that is over), none given,   *)
(* and one that lets an entry be used before it expires.                    *)
EXTENDS ExpiryCache

AnyDuration == {-1, 0, 2}
NoOrSome == {0, 1}
=============================================================================
