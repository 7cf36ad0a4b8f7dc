--------------------------- MODULE MCSensorIngest ---------------------------
(* A small instance of SensorIngest: two uploads that may carry two good    *)
(* readings, or each kind of reading the receiver or the database refuses.  *)
EXTENDS SensorIngest

Reading(fit, stamp) == [fit |-> fit, stamp |-> stamp]
Batch(stamp, readings) == [dtu |-> TRUE, stamp |-> stamp, readings |-> readings]

MCPayloads ==
  { Batch("near", <<Reading("fits", "near"), Reading("fits", "none")>>),
    Batch("none", <<Reading("fits", "none"), Reading("oversize", "near")>>),
    Batch("ahead", <<Reading("fits", "none")>>),
    Batch("near", <<Reading("fits", "near"), Reading("invalid", "near")>>),
    Batch("near", <<Reading("fits", "ahead")>>),
    Batch("near", <<>>),
    Batch("near", <<Reading("fits", "near"), Reading("fits", "near"), Reading("fits", "near")>>),
    [dtu |-> FALSE, stamp |-> "near", readings |-> <<Reading("fits", "near")>>] }
=============================================================================
