----------------------------- MODULE MCCampaign -----------------------------
EXTENDS CampaignProperties, TLC

CONSTANTS t1, t2, p1, p2

MCTargets == {t1, t2}
MCPatches == {p1, p2}

(* Nothing flagged, one target, or two in a fixed order.                   *)
MCRankings == {<<>>, <<t1>>, <<t1, t2>>}
ShortRankings == {<<>>, <<t2, t1>>}
NoHistory == {}
OnePatch == {p1}
SecondTarget == {t2}

PatchSymmetry == Permutations(MCPatches)

=============================================================================
