-------------------------- MODULE MCPlayerVocations --------------------------
(***************************************************************************)
(* PlayerVocations for TLC: three ids, of which 1 and 2 can be drawn.      *)
(***************************************************************************)
EXTENDS PlayerVocations

\* a character that starts with its vocation in the list, and one without
MCStarter == <<[vocation |-> 1, level |-> 8, experience |-> 4200, star |-> 1,
                fragments |-> 0]>>
MCBare == <<>>

=============================================================================
