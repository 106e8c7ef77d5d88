---------------------------- MODULE MCProductImages ----------------------------
(* Three requests for the images of one product, one product to be created and one
   shop's logo. *)
EXTENDS ProductImages, TLC

CONSTANTS u1, u2, u3, bracelet, necklace, shop

SameUploads == Permutations({u1, u2, u3})
=============================================================================
