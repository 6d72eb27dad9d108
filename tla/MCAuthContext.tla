--------------------------- MODULE MCAuthContext ----------------------------
(* Symmetry for model checking the login dialogues and the account store.  *)
EXTENDS AuthContext, TLC

\* Passwords are only compared.  No fairness condition and no temporal property names one, so
\* that every behaviour of the quotient stands for a fair one of the model; of dialogues this
\* is not true.
Symmetry == Permutations(Passwords)
=============================================================================
