--------------------------- MODULE RequestService ---------------------------
(***************************************************************************)
(* What the server promises a client: its request is answered with a       *)
(* sequence of replies, of which it is shown one after the other, without  *)
(* a gap, up to the final one, unless it leaves before.                    *)
(***************************************************************************)
EXTENDS Naturals, Sequences

CONSTANTS Client, Answer,       \* the requests, and the replies there can be
          Final                 \* the replies that end a request

VARIABLES phase,                \* Client -> new, open, closed or left
          answers,              \* Client -> what has been computed for it
          seen                  \* Client -> what it has been shown

service == << phase, answers, seen >>

Init ==
  /\ phase = [c \in Client |-> "new"]
  /\ answers = [c \in Client |-> << >>]
  /\ seen = [c \in Client |-> << >>]

Open(c) ==
  /\ phase[c] = "new"
  /\ phase' = [phase EXCEPT ![c] = "open"]
  /\ UNCHANGED << answers, seen >>

\* One batch: a set of requests gets a reply each
Compute(S) ==
  /\ \A c \in S : phase[c] # "new"
  /\ \E f \in [S -> Answer] :
       answers' = [c \in Client |-> IF c \in S THEN Append(answers[c], f[c])
                                               ELSE answers[c]]
  /\ UNCHANGED << phase, seen >>

\* The next reply is shown; a final one closes the request
Show(c) ==
  /\ phase[c] = "open" /\ Len(seen[c]) < Len(answers[c])
  /\ LET a == answers[c][Len(seen[c]) + 1]
     IN  /\ seen' = [seen EXCEPT ![c] = Append(@, a)]
         /\ phase' = [phase EXCEPT ![c] = IF a \in Final THEN "closed" ELSE "open"]
  /\ UNCHANGED answers

Leave(c) ==
  /\ phase[c] \in {"open", "closed"}
  /\ phase' = [phase EXCEPT ![c] = "left"]
  /\ UNCHANGED << answers, seen >>

Next ==
  \/ \E c \in Client : Open(c) \/ Show(c) \/ Leave(c)
  \/ \E S \in SUBSET Client : Compute(S)

Spec == Init /\ [][Next]_service
=============================================================================
