------------------------------- MODULE Answer -------------------------------
(***************************************************************************)
(* What a client that sent a request through MSAKI may rely on: it hears   *)
(* what the backend says, in order and nothing twice, possibly not to the  *)
(* end; and if it is told that it has heard a whole answer, it has.        *)
(***************************************************************************)
EXTENDS Sequences, SequencesExt

CONSTANTS Pieces, Done

VARIABLES
  said,    \* what the backend has said
  heard,   \* what has reached the client
  told     \* what the client can tell about the end: "nothing" so far

Verdicts == {"nothing", "whole", "cut", "refused"}

Init == said = <<>> /\ heard = <<>> /\ told = "nothing"

Speak ==
  /\ \E e \in Pieces : said' = Append(said, e)
  /\ UNCHANGED <<heard, told>>

(* The backend may go on after the word that ends an answer.               *)
IsWhole(h) == h = said \/ Done \in Range(h)

Hear ==
  /\ told = "nothing"
  /\ IsPrefix(heard, heard') /\ IsPrefix(heard', said)
  /\ told' \in Verdicts
  /\ told' = "whole" => IsWhole(heard')
  /\ UNCHANGED said

Spec == Init /\ [][Speak \/ Hear]_<<said, heard, told>>
=============================================================================
