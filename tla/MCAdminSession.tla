---------------------------- MODULE MCAdminSession ----------------------------
(* Two admins who share a shop; one of them has a second shop. *)
EXTENDS AdminSession

CONSTANTS a, b, s, t

MCShopsOf == [x \in Admins |-> IF x = a THEN {s, t} ELSE {s}]
OneShopOf == [x \in Admins |-> {s}]
=============================================================================
