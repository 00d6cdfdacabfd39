--------------------------- MODULE MCStreamUpload ---------------------------
(* Instances of StreamUpload for TLC. *)
EXTENDS StreamUpload

CONSTANTS s1, r1, r2, nil

MCNil == nil
OneSession == {s1}
TwoRequests == {r1, r2}

AllCalls == {"cancel", "resume", "expire", "stop"}
=============================================================================
