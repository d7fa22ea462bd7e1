--------------------------- MODULE MCDedupDelivery ---------------------------
(* Small instance of DedupDelivery: the space wraps, the window slides.    *)
EXTENDS DedupDelivery
=============================================================================
