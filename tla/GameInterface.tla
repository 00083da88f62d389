--------------------------- MODULE GameInterface ---------------------------
(***************************************************************************)
(* A prediction game as the manager and the administrators see it: who may *)
(* administer it, whether it is halted, which wallets it pays, with which  *)
(* users contract it works, and whether a round is due, so that the next   *)
(* CloseRound has to ask the oracle for a price.  The game is a record; an *)
(* execute message is a record whose type is the name of the message.      *)
(* Bets and claims do not change what is seen here.                        *)
(*                                                                         *)
(* PredictionGame is shown to implement  Steps.                            *)
(***************************************************************************)
CONSTANTS
  Senders,         \* accounts that send messages or are administrators
  WalletLists,     \* lists of wallets a message may carry
  WholeLists,      \* those whose ratios sum to one
  UsersContracts   \* addresses a configuration may name

GameType ==
  [admins : SUBSET Senders, isHalted : BOOLEAN, dev_wallet_list : WalletLists,
   users_contract : UsersContracts, due : BOOLEAN]

(* fresh: the oracle has a usable price for the denoms of the due rounds *)
CloseRound(fresh)           == [type |-> "CloseRound", fresh |-> fresh]
Halt                        == [type |-> "Halt"]
Resume                      == [type |-> "Resume"]
AddAdmin(account)           == [type |-> "AddAdmin", admin |-> account]
RemoveAdmin(account)        == [type |-> "RemoveAdmin", admin |-> account]
ModifyDevWallet(wallets)    == [type |-> "ModifyDevWallet", dev_wallet_list |-> wallets]
UpdateConfig(users, wallets) ==
  [type |-> "UpdateConfig", users_contract |-> users, dev_wallet_list |-> wallets]

Messages ==
  {CloseRound(fresh) : fresh \in BOOLEAN} \cup {Halt, Resume}
    \cup {AddAdmin(a) : a \in Senders} \cup {RemoveAdmin(a) : a \in Senders}
    \cup {ModifyDevWallet(w) : w \in WalletLists}
    \cup {UpdateConfig(u, w) : u \in UsersContracts, w \in WalletLists}

(* The game after instantiate: the sender and the extra_admins administer *)
NewGame(admins, users, wallets) ==
  [admins |-> admins, isHalted |-> FALSE, dev_wallet_list |-> wallets,
   users_contract |-> users, due |-> FALSE]

(* Only CloseRound is open to everyone, and only it needs the game running *)
Accepts(game, sender, msg) ==
  /\ msg.type # "CloseRound" => sender \in game.admins
  /\ msg.type = "CloseRound" => ~game.isHalted /\ (game.due => msg.fresh)
  /\ msg.type = "RemoveAdmin" => game.admins \ {msg.admin} # {}
  /\ msg.type = "ModifyDevWallet" => msg.dev_wallet_list \in WholeLists

After(game, msg) ==
  CASE msg.type = "CloseRound"      -> [game EXCEPT !.due = FALSE]
    [] msg.type = "Halt"            -> [game EXCEPT !.isHalted = TRUE]
    [] msg.type = "Resume"          -> [game EXCEPT !.isHalted = FALSE]
    [] msg.type = "AddAdmin"        -> [game EXCEPT !.admins = @ \cup {msg.admin}]
    [] msg.type = "RemoveAdmin"     -> [game EXCEPT !.admins = @ \ {msg.admin}]
    [] msg.type = "ModifyDevWallet" ->
         [game EXCEPT !.dev_wallet_list = msg.dev_wallet_list]
    [] msg.type = "UpdateConfig"    ->
         [game EXCEPT !.users_contract = msg.users_contract,
                      !.dev_wallet_list = msg.dev_wallet_list]

(* Time makes a round due *)
FallsDue(game) == [game EXCEPT !.due = TRUE]

(* What may happen to a game *)
Steps(game, next) ==
  \/ \E sender \in Senders, msg \in Messages :
       Accepts(game, sender, msg) /\ next = After(game, msg)
  \/ next = FallsDue(game)

============================================================================
