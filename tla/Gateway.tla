------------------------------ MODULE Gateway ------------------------------
(***************************************************************************)
(* The gateway's process (src/gateway/server.py): one HTTP server takes      *)
(* orders (OrderIntake, with the Desk that sends them), grants of the faucet *)
(* (Faucet) and the owners' records (Contacts), each request on a thread,    *)
(* and works out where stops must stand (RuleLines).  They share nothing but *)
(* the process: when it ends, each is left with what it had written down, or *)
(* for the lines with what stands on Hyperliquid.                           *)
(*                                                                         *)
(* A behaviour exercises one of the routes, a bound: what one does leaves    *)
(* the others' state alone, so their product would show nothing more.        *)
(***************************************************************************)
EXTENDS Desk, Faucet, Contacts, RuleLines

VARIABLE route   \* bound: the route the behaviour exercises

gatewayState == <<vars, faucetVars, contactsVars, linesVars, route>>

GatewayInit ==
  /\ Init /\ FaucetInit /\ ContactsInit /\ LinesInit
  /\ route \in {"order", "faucet", "contacts", "lines"}
  /\ route = "order" <=> \E d \in Deliveries : thread[d].at = "unsent"
  /\ route = "lines" => behind = 0
  /\ route # "lines" => mark = Min(Marks) /\ ways = Sides

\* do_POST, and what the other side does meanwhile.
OnOrders == route = "order" /\ Steps /\ UNCHANGED <<faucetVars, contactsVars, linesVars, route>>
OnFaucet == route = "faucet" /\ FaucetSteps /\ UNCHANGED <<vars, contactsVars, linesVars, route>>
OnContacts == route = "contacts" /\ ContactsSteps /\ UNCHANGED <<vars, faucetVars, linesVars, route>>
OnLines == route = "lines" /\ LinesSteps /\ UNCHANGED <<vars, faucetVars, contactsVars, route>>

\* The process ends, and the host starts it again (main).  The lines are worked out afresh each time.
ProcessEnds == route # "lines" /\ Restart /\ FaucetCrash /\ StopAndStart /\ UNCHANGED <<deskVars, linesVars, route>>

GatewayNext == OnOrders \/ OnFaucet \/ OnContacts \/ OnLines \/ ProcessEnds

GatewaySpec == GatewayInit /\ [][GatewayNext]_gatewayState
=============================================================================
