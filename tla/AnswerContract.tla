----------------------------- MODULE AnswerContract -----------------------------
(***************************************************************************)
(* What the proxies promise about answers, with no ids, frames or chunks:  *)
(* every session calls as if it had a server of its own, at the end of a   *)
(* channel that may lose answers, but neither reorders nor repeats them,   *)
(* nor mixes them with those of other sessions.                            *)
(***************************************************************************)
EXTENDS Sequences

CONSTANTS Sessions, Calls, None

VARIABLES
  caller,    \* [Calls -> the session that made it, or None]
  asked,     \* calls that wait in their server
  underway,  \* calls whose answer is on its way
  before,    \* pairs of them, of one session: the first was answered earlier
  answers    \* [Calls -> the sessions its answers went out on, in order]

vars == <<caller, asked, underway, before, answers>>

Init ==
  /\ caller = [c \in Calls |-> None]
  /\ asked = {}
  /\ underway = {}
  /\ before = {}
  /\ answers = [c \in Calls |-> <<>>]

Ask(s, c) ==
  /\ caller[c] = None
  /\ caller' = [caller EXCEPT ![c] = s]
  /\ asked' = asked \cup {c}
  /\ UNCHANGED <<underway, before, answers>>

\* Some calls are answered; the answers of some of them are lost.
Answer(answered, kept) ==
  /\ asked' = asked \ answered
  /\ underway' = underway \cup kept
  /\ before' = before \cup {p \in underway \X kept : caller[p[1]] = caller[p[2]]}
  /\ UNCHANGED <<caller, answers>>

\* The oldest answers of a session leave its channel; some of them go out.
Take(s, taken, out) ==
  /\ \A c \in taken, d \in underway \ taken : <<d, c>> \notin before
  /\ underway' = underway \ taken
  /\ before' = before \cap (underway' \X underway')
  /\ answers' = [c \in Calls |-> IF c \in out THEN Append(answers[c], s) ELSE answers[c]]
  /\ UNCHANGED <<caller, asked>>

Next ==
  \/ \E s \in Sessions, c \in Calls : Ask(s, c)
  \/ \E answered \in SUBSET asked : \E kept \in SUBSET answered : Answer(answered, kept)
  \/ \E s \in Sessions :
       \E taken \in SUBSET {c \in underway : caller[c] = s} : \E out \in SUBSET taken :
         Take(s, taken, out)

Spec == Init /\ [][Next]_vars

=============================================================================
