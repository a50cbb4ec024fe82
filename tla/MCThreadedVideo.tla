-------------------------- MODULE MCThreadedVideo ---------------------------
(***************************************************************************)
(* An instance of ThreadedVideo for TLC: no button, each button alone, and *)
(* the menu button released with another one pressed.                      *)
(***************************************************************************)
EXTENDS ThreadedVideo

Nothing == [power |-> "none", ff |-> FALSE, menu |-> FALSE, quit |-> FALSE]

Combinations ==
    {Nothing, [Nothing EXCEPT !.quit = TRUE]} \cup
    {[Nothing EXCEPT !.power = p, !.menu = m] : p \in {"press", "release"}, m \in BOOLEAN} \cup
    {[Nothing EXCEPT !.ff = f, !.menu = m] : f, m \in BOOLEAN}
=============================================================================
