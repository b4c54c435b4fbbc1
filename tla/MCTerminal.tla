----------------------------- MODULE MCTerminal -----------------------------
(* An instance of Terminal for TLC: a screen of twelve characters.         *)
EXTENDS Terminal

ShellPrompt == <<"#">>
=============================================================================
