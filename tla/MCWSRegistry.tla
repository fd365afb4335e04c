--------------------------- MODULE MCWSRegistry ---------------------------
(* Instances of WSRegistry with two shapes of key set:                     *)
(*   Mixed - two coins on a channel without users, where removals shift a  *)
(*           shared array, and a channel with a user;                      *)
(*   Pair  - the two coins.                                                *)
EXTENDS WSRegistry, TLC

CONSTANTS btc, eth, userBtc, l2Book, activeAssetData, alice, nobody

CallerSymmetry == Permutations(Callers)

PairKeys == {btc, eth}
PairChannelOf == [k \in PairKeys |-> l2Book]
PairUserOf == [k \in PairKeys |-> nobody]

MixedKeys == PairKeys \cup {userBtc}
MixedChannelOf == PairChannelOf @@ (userBtc :> activeAssetData)
MixedUserOf == PairUserOf @@ (userBtc :> alice)
=============================================================================
