------------------------------ MODULE MCSystem ------------------------------
(***************************************************************************)
(* Instances of System for TLC.                                             *)
(***************************************************************************)
EXTENDS System

CONSTANTS c1, u1

Typing(password, tail) == LoginText(Auth(u1, password), tail)

\* The right password, or a wrong one too long for the buffer that goes on with a
\* login with the right one, or with a question about the user's token.
AnyLogin ==
  [c \in Conns |->
     {Typing("right", <<>>)}
       \cup {Typing("wrong", <<r>>) : r \in {Auth(u1, "right"), Verify(generateToken(u1))}}]

\* The right password, which may be one too long for the buffer that happens to go on
\* with the question.
RightOrLong ==
  [c \in Conns |-> {Typing("right", tail) : tail \in {<<>>, <<Verify(generateToken(u1))>>}}]

RightLogin == [c \in Conns |-> {Typing("right", <<>>)}]
=============================================================================
