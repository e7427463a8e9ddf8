--------------------------- MODULE MCFeedDelivery ---------------------------
(* FeedDelivery with few updates, one background refill and few memes. *)
EXTENDS FeedDelivery, TLC

Symmetry == Permutations(Updates) \cup Permutations(Memes \ Goats) \cup Permutations(Reactions)
=============================================================================
