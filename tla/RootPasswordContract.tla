------------------------ MODULE RootPasswordContract ------------------------
(***************************************************************************)
(* What root-password rotation promises to the people who use it: the      *)
(* password they want, the one Milvus accepts, and the one the connection  *)
(* Secret hands to clients follow each other, one rotation at a time.      *)
(***************************************************************************)
CONSTANTS Passwords, NoPassword

VARIABLES wanted,     \* the password the user, or the generator, chose
          accepted,   \* the password Milvus accepts for root
          published   \* the password clients read from the connection Secret

vars == <<wanted, accepted, published>>

Init == /\ wanted \in Passwords \cup {NoPassword}
        /\ accepted \in {NoPassword, wanted}
        /\ published = accepted

\* Before Milvus has a root user the wanted password may still be replaced.
Seed == /\ accepted = NoPassword
        /\ wanted' \in Passwords
        /\ UNCHANGED <<accepted, published>>

\* A rotation starts only when the previous one has reached the clients.
Rotate == /\ wanted = accepted
          /\ accepted = published
          /\ wanted' \in Passwords
          /\ UNCHANGED <<accepted, published>>

\* Milvus takes the wanted password: when root is created, or by a rotation.
Land == /\ wanted # NoPassword
        /\ accepted' = wanted
        /\ UNCHANGED <<wanted, published>>

\* Clients are only ever given a password that works.
Publish == /\ published' = accepted
           /\ UNCHANGED <<wanted, accepted>>

Next == Seed \/ Rotate \/ Land \/ Publish

Spec == Init /\ [][Next]_vars

FairSpec == Spec /\ WF_vars(Land) /\ WF_vars(Publish)
=============================================================================
