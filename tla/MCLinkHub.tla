----------------------------- MODULE MCLinkHub -----------------------------
(* Two profiles and the default link.                                      *)
EXTENDS LinkHub, TLC

MCProfiles == 1..2
LinkSymmetry == Permutations(Links)
===========================================================================
