-------------------------- MODULE PipelinePromise --------------------------
(***************************************************************************)
(* What the server promises on each connection, with no listener, buffer,  *)
(* deadline or coroutine: the requests are taken one at a time in the      *)
(* order they are sent, each is answered before the next is taken, and     *)
(* none is taken after an answer that does not keep the connection.  The   *)
(* connection may come to its end at any time.                             *)
(***************************************************************************)
EXTENDS Naturals, Sequences

CONSTANTS Conn, MaxRequests

VARIABLES
  sent,     \* the number of requests the client has sent on each connection
  taken,    \* the numbers of those the server has taken, in order
  answers,  \* the answers: which request, and whether the connection is kept
  over      \* the connection has come to its end

vars == <<sent, taken, answers, over>>

Init ==
  /\ sent = [c \in Conn |-> 0] /\ taken = [c \in Conn |-> <<>>]
  /\ answers = [c \in Conn |-> <<>>] /\ over = [c \in Conn |-> FALSE]

Send(c) ==
  /\ ~over[c] /\ sent[c] < MaxRequests[c]
  /\ sent' = [sent EXCEPT ![c] = @ + 1]
  /\ UNCHANGED <<taken, answers, over>>

\* Every request taken so far has been answered.
Settled(c) == Len(answers[c]) = Len(taken[c])
Kept(c) == answers[c] # <<>> => answers[c][Len(answers[c])].keep

\* The end may come with the request, which then stays without an answer.
Take(c, last) ==
  /\ ~over[c] /\ Settled(c) /\ Kept(c) /\ Len(taken[c]) < sent[c]
  /\ taken' = [taken EXCEPT ![c] = Append(@, Len(@) + 1)]
  /\ over' = [over EXCEPT ![c] = last]
  /\ UNCHANGED <<sent, answers>>

\* The end may come with the answer, and does if it does not keep the
\* connection.
Answer(c, keep, last) ==
  /\ ~over[c] /\ ~Settled(c) /\ (keep \/ last)
  /\ answers' = [answers EXCEPT
       ![c] = Append(@, [n |-> Len(taken[c]), keep |-> keep])]
  /\ over' = [over EXCEPT ![c] = last]
  /\ UNCHANGED <<sent, taken>>

End(c) ==
  /\ over' = [over EXCEPT ![c] = TRUE]
  /\ UNCHANGED <<sent, taken, answers>>

Next == \E c \in Conn :
  \/ Send(c) \/ End(c)
  \/ \E last \in BOOLEAN : Take(c, last)
  \/ \E keep, last \in BOOLEAN : Answer(c, keep, last)

Spec == Init /\ [][Next]_vars
=============================================================================
