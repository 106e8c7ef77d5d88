--------------------------- MODULE MCImportOrderForm ---------------------------
(* Two sales; the first has two images, a wrong and a right one. *)
EXTENDS ImportOrderForm

CONSTANTS p, q, i, j, l

MCImagesOf == [s \in Sales |-> IF s = p THEN {i, j} ELSE {l}]
=============================================================================
