--------------------------- MODULE MCConversation ---------------------------
(* Conversations, for TLC: two threads of one user, over both transports.   *)
EXTENDS Conversation, TLC

AnyTransport == {TRUE, FALSE}
InMemoryOnly == {FALSE}

\* The threads are alike.
Symmetry == Permutations(Threads)

=============================================================================
