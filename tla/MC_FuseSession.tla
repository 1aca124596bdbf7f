----------------------------- MODULE MC_FuseSession -----------------------------
EXTENDS FuseSession

CONSTANTS owner, root, other

MC_Uids == {owner, root, other}

=============================================================================
