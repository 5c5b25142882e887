------------------------------ MODULE MCBotChats ------------------------------
(* Instances of BotChats for model checking. *)
EXTENDS BotChats, TLC

Symmetry == Permutations(Chat) \cup Permutations(Eraser)

=============================================================================
