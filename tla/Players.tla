------------------------------- MODULE Players -------------------------------
(***************************************************************************)
(* Who is in the game.  The dispatcher thread runs every handler to its    *)
(* end, so each is one action; objects of the game refer to players by     *)
(* pointers that nothing invalidates when a player is removed.             *)
(***************************************************************************)
EXTENDS Integers, Sequences, SequencesExt, FiniteSetsExt

CONSTANTS
    Players,
    NoPlayer,           \* a null pointer
    Premium             \* the players with premium time

ASSUME PlayersAssumption == NoPlayer \notin Players /\ Premium \subseteq Players

VARIABLE online         \* the players of Game::players

=============================================================================
