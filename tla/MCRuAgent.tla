------------------------------ MODULE MCRuAgent ------------------------------
(* Small instances of RuAgent for TLC. *)
EXTENDS RuAgent

CONSTANTS x1, x2

Exits == {x1, x2}

\* One exit, both, and the other one without a desync strategy.
Payloads == {[exits |-> {x1}, desync |-> TRUE],
             [exits |-> {x1, x2}, desync |-> TRUE],
             [exits |-> {x2}, desync |-> FALSE]}
=============================================================================
