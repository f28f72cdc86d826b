---------------------------- MODULE ReplyStream ----------------------------
(***************************************************************************)
(* What hiredis promises about the replies of one connection: they come    *)
(* out in the order the server sent them, each once and whole, until the   *)
(* connection fails; after that none comes out any more. What the server   *)
(* sends in breach of the protocol never comes out.                        *)
(***************************************************************************)
EXTENDS Sequences, Naturals

CONSTANTS Reply,   \* well-formed replies
          Broken   \* what is none

VARIABLES sent,    \* what the server has sent
          got,     \* replies handed to the program
          failed   \* the connection has failed

vars == <<sent, got, failed>>

Init == sent = << >> /\ got = << >> /\ failed = FALSE

Send == /\ \E r \in Reply \cup Broken : sent' = Append(sent, r)
        /\ UNCHANGED <<got, failed>>

Deliver == /\ ~failed
           /\ Len(got) < Len(sent)
           /\ sent[Len(got) + 1] \in Reply
           /\ got' = Append(got, sent[Len(got) + 1])
           /\ UNCHANGED <<sent, failed>>

Fail == /\ ~failed
        /\ failed' = TRUE
        /\ UNCHANGED <<sent, got>>

Next == Send \/ Deliver \/ Fail

Spec == Init /\ [][Next]_vars
=============================================================================
