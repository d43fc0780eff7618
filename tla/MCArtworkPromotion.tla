------------------------- MODULE MCArtworkPromotion -------------------------
EXTENDS ArtworkPromotion

CONSTANTS r1, r2, r3, d1, d2

\* Two requests repeat one signed body; the third was signed for other metadata
\* of the same staged upload.
MCDigestOf == [r \in Requests |-> IF r = r3 THEN d2 ELSE d1]
=============================================================================
