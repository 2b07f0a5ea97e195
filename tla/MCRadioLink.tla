---------------------------- MODULE MCRadioLink ----------------------------
(* A link, in two models and one run: its connections (RadioLink), and the  *)
(* commands that go over them (RadioCommands).  They share no state: a      *)
(* behaviour is one of either, as part says from the start, while the other *)
(* stands still, and the fairness is that of the one that runs.             *)
(*                                                                          *)
(* The cfg gives the connection objects: with three there can be the        *)
(* current one and two that are still being closed.  Commands: two channel  *)
(* slots, a contact and two calls at a time, next to the sync.              *)
EXTENDS RadioLink, RadioCommands

CONSTANTS s1, s2
MCSlots == <<s1, s2>>

VARIABLE part
all == <<part, vars, commandsVars>>

LinkInit ==
  /\ part \in {"connections", "commands"} /\ Init /\ CommandsInit
  /\ part = "commands" => ~standby /\ settings = CHOOSE s \in Settings : TRUE

LinkNext ==
  \/ part = "connections" /\ Next /\ UNCHANGED <<part, commandsVars>>
  \/ part = "commands" /\ CommandsNext /\ UNCHANGED <<part, vars>>

LinkSpec ==
  /\ LinkInit /\ [][LinkNext]_all
  /\ WF_vars(part = "connections" /\ Start) /\ WF_vars(part = "connections" /\ ReconnectTimerFires)
  /\ \A c \in Conns : /\ WF_vars(part = "connections" /\ CloseResolves(c))
                      /\ WF_vars(part = "connections" /\ (Opened(c) \/ ConnectFails(c)))
                      /\ WF_vars(part = "connections" /\ (Synced(c) \/ ConnectFails(c)))
  /\ WF_commandsVars(part = "commands" /\ SyncFails)
  /\ \A j \in Jobs : /\ WF_commandsVars(part = "commands" /\ (Starts(j) \/ Proceed(j) \/ Fails(j)))
                     /\ WF_commandsVars(part = "commands" /\ Timeout(j))
===========================================================================
