--------------------------- MODULE UsersInterface ---------------------------
(***************************************************************************)
(* The users contract as the manager and the administrators see it: its    *)
(* administrators and the games it lists.  The contract is a record, an    *)
(* execute message a record whose type is the name of the message.         *)
(* Profiles and events do not change what is seen here.                    *)
(*                                                                         *)
(* Users is shown to implement  Steps.                                     *)
(***************************************************************************)
CONSTANTS
  Senders,   \* accounts that send messages or are administrators
  Games      \* addresses that may be listed

RegistryType == [admins : SUBSET Senders, gameContracts : SUBSET Games]

AddGames(addresses)  == [type |-> "AddGames", games |-> addresses]
AddGame(address)     == AddGames({address})
RemoveGame(address)  == [type |-> "RemoveGame", game |-> address]
AddAdmin(account)    == [type |-> "AddAdmin", admin |-> account]
RemoveAdmin(account) == [type |-> "RemoveAdmin", admin |-> account]

Messages ==
  {AddGames(set) : set \in SUBSET Games} \cup {RemoveGame(g) : g \in Games}
    \cup {AddAdmin(a) : a \in Senders} \cup {RemoveAdmin(a) : a \in Senders}

NewRegistry(admins) == [admins |-> admins, gameContracts |-> {}]

Accepts(registry, sender, msg) ==
  /\ sender \in registry.admins
  /\ msg.type = "RemoveAdmin" => registry.admins \ {msg.admin} # {}

After(registry, msg) ==
  CASE msg.type = "AddGames"    -> [registry EXCEPT !.gameContracts = @ \cup msg.games]
    [] msg.type = "RemoveGame"  -> [registry EXCEPT !.gameContracts = @ \ {msg.game}]
    [] msg.type = "AddAdmin"    -> [registry EXCEPT !.admins = @ \cup {msg.admin}]
    [] msg.type = "RemoveAdmin" -> [registry EXCEPT !.admins = @ \ {msg.admin}]

Steps(registry, next) ==
  \E sender \in Senders, msg \in Messages :
    Accepts(registry, sender, msg) /\ next = After(registry, msg)

============================================================================
