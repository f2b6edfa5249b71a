---------------------------- MODULE MCAuthServer ----------------------------
(***************************************************************************)
(* Instances of AuthServer for TLC.                                         *)
(***************************************************************************)
EXTENDS AuthServerImplements

CONSTANTS c1, c2, u1, u2

Typed(u, password) == LoginText(Auth(u, password), <<>>)

\* What is typed is longer than the buffer, and goes on with a request.
Long(u, password, request) == LoginText(Auth(u, password), <<request>>)

\* Two sessions that log in as the same user; one of them may type more than fits, and
\* what does not fit is no request, or a question about the token of nobody.
OneUser ==
  [c \in Conns |->
     IF c = c1
     THEN {Typed(u1, "right"), Long(u1, "none", Rest),
           Long(u1, "wrong", Verify(generateToken(Blank)))}
     ELSE {Typed(u1, "right")}]

\* Two sessions, each with a user of its own; one of them mistypes.  Nobody types more
\* than fits: a session that leaves after its first answer would let the second end the
\* process.
OwnUser ==
  [c \in Conns |->
     IF c = c1 THEN {Typed(u1, p) : p \in {"right", "wrong"}} ELSE {Typed(u2, "right")}]

\* Everybody knows the password.
RightPassword == [c \in Conns |-> {Typed(u1, "right")}]

\* The password is mistyped.
WrongPassword == [c \in Conns |-> {Typed(u1, "wrong")}]
=============================================================================
