----------------------------- MODULE StatusBoard -----------------------------
(***************************************************************************)
(* What `refittctl status` promises its callers, with no queue, no slot    *)
(* and no daemon loop.  The daemon takes numbered snapshots of its         *)
(* services and posts them on a board.  A caller who asks is answered with *)
(* what the board shows at one instant after the question, and what it     *)
(* shows then was taken after the question.  The board never goes back to  *)
(* an older snapshot.                                                      *)
(***************************************************************************)
EXTENDS Naturals

CONSTANT Clients      \* processes that may ask for the status

VARIABLES
  taken,      \* number of snapshots taken so far
  board,      \* the snapshot that callers are shown
  asked,      \* for each caller, the value of taken when it asked
  answer      \* for each caller, the snapshot it was answered with, or 0

vars == <<taken, board, asked, answer>>

Init ==
  /\ taken = 0
  /\ board = 0
  /\ asked = [c \in Clients |-> 0]
  /\ answer = [c \in Clients |-> 0]

\* A new question is about the services as they are from now on.
Ask(c) ==
  /\ asked' = [asked EXCEPT ![c] = taken]
  /\ answer' = [answer EXCEPT ![c] = 0]
  /\ UNCHANGED <<taken, board>>

Take ==
  /\ taken' = taken + 1
  /\ UNCHANGED <<board, asked, answer>>

\* Only the newest snapshot is ever posted.
Post ==
  /\ board < taken
  /\ board' = taken
  /\ UNCHANGED <<taken, asked, answer>>

Answer(c) ==
  /\ board > asked[c]
  /\ answer' = [answer EXCEPT ![c] = board]
  /\ UNCHANGED <<taken, board, asked>>

\* Callers that gave up, were answered, or were cut off, forget.
Forget(S) ==
  /\ answer' = [c \in Clients |-> IF c \in S THEN 0 ELSE answer[c]]
  /\ UNCHANGED <<taken, board, asked>>

Next ==
  \/ Take
  \/ Post
  \/ \E c \in Clients : Ask(c) \/ Answer(c)
  \/ \E S \in SUBSET Clients : Forget(S)

Spec == Init /\ [][Next]_vars
==============================================================================
