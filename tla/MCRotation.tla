----------------------------- MODULE MCRotation -----------------------------
(* The values of Rotation's constants that a configuration file cannot write. *)
EXTENDS Rotation

ShortBackoff == <<1>>        \* a suspect that fails again is dead
LongBackoff == <<4, 4>>      \* longer than a lap of three destinations
TwoByTwo == {<<2, 2>>}
ManyOrOne == {<<3, 2>>, <<1, 1>>}   \* some pair to find, or nowhere to go

ReviveOnce == <<1>>
ReviveTwice == <<1, 2>>

NoneGood == {}
LastGood == {<<2, 1>>}       \* only the pair of a 3 by 2 pool that is tried last carries traffic
=============================================================================
