---------------------------- MODULE MCTcpSocket -----------------------------
(* Instances of TcpSocket for TLC. *)
EXTENDS TcpSocket, TLC

Symmetry == Permutations(Sessions) \cup Permutations(Fds) \cup Permutations(Listeners)

=============================================================================
