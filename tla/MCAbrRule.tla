----------------------------- MODULE MCAbrRule -----------------------------
EXTENDS AbrRule

MCTiers       == <<200, 400, 610>>
MCConfidences == {2, 8, 9}
MCRows        == {0, 2}
MCCcBitrates  == {250, 500, 4000}
=============================================================================
