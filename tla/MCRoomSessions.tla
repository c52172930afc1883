--------------------------- MODULE MCRoomSessions ---------------------------
(***************************************************************************)
(* A small server for TLC: a screen, two phones and a spare connection.    *)
(***************************************************************************)
EXTENDS RoomSessions, TLC

CONSTANTS a, b, s1, s2, s3, d1, d2, p1, p2

\* No constant tells codes, sockets, devices or players apart.
Symmetry == Permutations({a, b}) \cup Permutations({s1, s2, s3})
            \cup Permutations({d1, d2}) \cup Permutations({p1, p2})
=============================================================================
