---------------------------- MODULE MCBackground ----------------------------
(* Two models of what the server does on its timers, in one run: monitors    *)
(* and alerts, and the subscriptions and feeds of browsers.  They share no   *)
(* state: a behaviour is one of TelemetryMonitors or one of BrowserAccess,   *)
(* as part says from the start, while the other stands still, and the        *)
(* fairness is that of the one that runs.                                    *)
(*                                                                           *)
(* Three contacts of which one is out of reach, and a rule that is about one *)
(* contact or about the radio's own battery, over two values.  Two endpoints,*)
(* two tabs and one place in the feed, two sessions.                         *)
EXTENDS TelemetryMonitors, BrowserAccess

CONSTANTS c1, c2, c3

MCContacts  == {c1, c2, c3}
MCSilent    == {c3}
MCValues    == {0, 1}
MCRuleSpecs == {[subject |-> c1,  comparator |-> "above", threshold |-> 0],
                [subject |-> Own, comparator |-> "below", threshold |-> 1]}

VARIABLE part
all == <<part, vars, accessVars>>

BackgroundInit == part \in {"monitors", "access"} /\ Init /\ AccessInit

BackgroundNext ==
  \/ part = "monitors" /\ Next /\ UNCHANGED <<part, accessVars>>
  \/ part = "access" /\ AccessNext /\ UNCHANGED <<part, vars>>

BackgroundSpec ==
  /\ BackgroundInit /\ [][BackgroundNext]_all
  /\ WF_vars(part = "monitors" /\ Tick)
  /\ \A q \in Requests : WF_vars(part = "monitors" /\ Answer(q))
  /\ WF_accessVars(part = "access" /\ Publish) /\ WF_accessVars(part = "access" /\ Heartbeat)
  /\ \A e \in Endpoints : /\ WF_accessVars(part = "access" /\ WindowPasses(e))
                          /\ WF_accessVars(part = "access" /\ SendEnds(e))
=============================================================================
