--------------------------- MODULE MCReceiptUpload ---------------------------
(* Three uploads for three places: the two receipts of an order and a keyed import. *)
EXTENDS ReceiptUpload, TLC

CONSTANTS u1, u2, u3, payment, remainder, imported

MCKindOf ==
    [s \in Places |-> CASE s = payment -> "details"
                        [] s = remainder -> "final"
                        [] s = imported -> "import"]

SameUploads == Permutations({u1, u2, u3})
=============================================================================
