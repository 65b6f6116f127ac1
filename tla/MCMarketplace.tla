--------------------------- MODULE MCMarketplace ---------------------------
(* Two packages, the official marketplace and a mirror of it, two indexes of *)
(* which the second yanks the newer of two versions.                         *)
EXTENDS Marketplace, TLC

CONSTANTS a, b, official, mirror

MCIds == {a, b}
MCLocations == {official, mirror}
MCArgs == {<< <<a, 0>> >>, << <<a, 1>> >>, << <<a, 0>>, <<b, 0>> >>}
MCVersions == {1, 2}
MCListed == <<{1, 2}, {1, 2}>>
MCYanked == <<{}, {2}>>
=============================================================================
