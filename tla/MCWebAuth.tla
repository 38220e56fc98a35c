----------------------------- MODULE MCWebAuth -----------------------------
(***************************************************************************)
(* WebAuth for TLC: one local part, four domains of which two begin alike, *)
(* two suggestions at most, passwords on both sides of each limit.         *)
(***************************************************************************)
EXTENDS WebAuth

MCText == {"", "a", "g.co", "g.com", "gm.com", "o.com"}
MCDomains == <<"g.com", "gm.com", "o.com">>
MCStartsWith == [t \in MCText |->
    CASE t = "g.com" -> {"", "g.co", "g.com"}
      [] t = "gm.com" -> {"", "gm.com"}
      [] OTHER -> {"", t}]
MCTyped == {<<"">>, <<"a", "">>, <<"a", "g.co">>}
MCDotted == {"g.co", "g.com", "gm.com", "o.com"}
MCLength == [p \in {"", "seven", "eight"} |->
    CASE p = "" -> 0 [] p = "seven" -> 7 [] OTHER -> 8]

=============================================================================
