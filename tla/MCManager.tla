------------------------------ MODULE MCManager ------------------------------
(***************************************************************************)
(* Constants of the runs of Manager.  With one game code and two blocks    *)
(* the manager makes up to two games.                                      *)
(***************************************************************************)
EXTENDS Manager, TLC

CONSTANTS velo, dave, erin, gameCode, usersCode, usersA, usersB, outside, daoBets,
          thirds, halves

(* thirds does not sum to one *)
Halts      == {G!Halt, G!Resume}
Dismissals == {<<usersB, U!RemoveAdmin(Manager)>>}
Nothing    == {}
==============================================================================
