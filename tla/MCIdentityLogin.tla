--------------------------- MODULE MCIdentityLogin --------------------------
(* IdentityLogin for TLC: two logins of one wallet that share a nonce, one of *)
(* the same wallet from elsewhere, and one of another wallet on the same ip.  *)
EXTENDS IdentityLogin, TLC

CONSTANTS w1, w2, n1, n2, n3, ip1, ip2, d1, d2, here, there

ALogin(n, w, ip, d, p, t) ==
  [nonce |-> n, wallet |-> w, ip |-> ip, device |-> d, place |-> p,
   from |-> 1, until |-> t, wellFormed |-> TRUE, signed |-> TRUE]

MCLogins == {ALogin(n1, w1, ip1, d1, here, 4),
             ALogin(n2, w1, ip2, d2, there, 2),
             ALogin(n3, w2, ip1, d2, NoPlace, 4),
             [ALogin(n2, w1, ip2, d1, here, 4) EXCEPT !.signed = FALSE]}

SlotSymmetry == Permutations(Slots)
=============================================================================
