----------------------------- MODULE MCChatRoom -----------------------------
(* ChatRoom for TLC: its descriptors are interchangeable. *)
EXTENDS ChatRoom

Symmetry == Permutations(Fds)
=============================================================================
