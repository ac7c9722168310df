--------------------------- MODULE MCTeamPairing ---------------------------
(***************************************************************************)
(* Small instances of TeamPairing. One leader opens its team, rotates the  *)
(* key and opens it again; or two leaders lead the same team (it was       *)
(* handed over, with a new key) and one of them a second team; one device  *)
(* joins.                                                                  *)
(***************************************************************************)
EXTENDS TeamPairing

CONSTANTS ann, bob, cat,            \* devices
          red, blue,                \* teams
          red1, red2, blue1,        \* channel keys, named after team and key id
          theReds                   \* a team name

Offer(n, t, k, p, name) == [node |-> n, team |-> t, key |-> k, psk |-> p, name |-> name]

\* ann opens red, rotates its key and opens it again.
RotatedOffers == { Offer(ann, red, 1, red1, theReds), Offer(ann, red, 2, red2, theReds) }

\* ann leads red; bob leads it with a later key, in beacons without a name, and
\* a team of his own.
CrossedOffers == { Offer(ann, red, 1, red1, theReds), Offer(bob, red, 2, red2, NoName),
                   Offer(bob, blue, 1, blue1, NoName) }

OneOffer == { Offer(ann, red, 1, red1, theReds) }

OnlyCat == {cat}
=============================================================================
