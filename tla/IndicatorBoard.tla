----------------------------- MODULE IndicatorBoard -----------------------------
(***************************************************************************)
(* What the synchronisation of the external indicators promises to those   *)
(* who read the indicators and the board of their states: an observation   *)
(* once stored stays, and the board calls a code successful only with an   *)
(* observation that is stored.  IndicatorSync implements it.               *)
(***************************************************************************)
CONSTANTS
  Codes,      \* the indicators
  Days        \* days an indicator can be observed on

VARIABLES
  stored,     \* per code the days it has an observation of
  board       \* per code its state and its last successful observation

boardVars == <<stored, board>>

BoardInit ==
  /\ stored = [c \in Codes |-> {}]
  /\ board = [c \in Codes |-> [status |-> "none", observed |-> 0]]

Store ==
  /\ stored' \in [Codes -> SUBSET Days]
  /\ \A c \in Codes : stored[c] \subseteq stored'[c]
  /\ UNCHANGED board

\* The codes of a provider are looked up, or could not be: what was last
\* observed stays on the board.
Announce(codes, status) ==
  /\ status \in {"checking", "failed"}
  /\ board' = [c \in Codes |-> IF c \in codes THEN [board[c] EXCEPT !.status = status]
                                              ELSE board[c]]
  /\ UNCHANGED stored

Confirm(codes) ==
  /\ \E newest \in [codes -> Days] :
       /\ \A c \in codes : newest[c] \in stored[c]
       /\ board' = [c \in Codes |->
            IF c \in codes THEN [status |-> "succeeded", observed |-> newest[c]]
                           ELSE board[c]]
  /\ UNCHANGED stored

BoardNext ==
  \/ Store
  \/ \E codes \in SUBSET Codes :
       \/ \E status \in {"checking", "failed"} : Announce(codes, status)
       \/ Confirm(codes)

BoardSpec == BoardInit /\ [][BoardNext]_boardVars
=============================================================================
