----------------------------- MODULE MCLanding ------------------------------
(***************************************************************************)
(* Landing for TLC: most blocks one unit tall; How it works holds its list *)
(* of two units, the review section the card's footer in its middle. The  *)
(* wide viewport shows two units and the narrow one, too low for the page's *)
(* footer, one, so that the footer too can come under the bar.             *)
(***************************************************************************)
EXTENDS Landing

MCTop == [w \in BOOLEAN |->
    IF w THEN <<0, 1, 2, 4, 7, 8, 9, 10, 11, 12, 13, 14>>
         ELSE <<0, 1, 2, 5, 8, 9, 10, 11, 12, 13, 14, 15>>]
MCView == [w \in BOOLEAN |-> IF w THEN 2 ELSE 1]
MCCard == [w \in BOOLEAN |-> IF w THEN <<5, 6>> ELSE <<6, 7>>]
MCStart == [w \in BOOLEAN |-> IF w THEN 2 ELSE 3]

=============================================================================
