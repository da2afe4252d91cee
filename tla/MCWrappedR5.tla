----------------------------- MODULE MCWrappedR5 -----------------------------
(* Two users, one of which cannot take plain payments; allowances of nothing,*)
(* of one, of more than anybody owns, and the infinite one.                  *)
EXTENDS WrappedR5

FewApprovals == {0, 1, MaxUint - 1, MaxUint}

=============================================================================
