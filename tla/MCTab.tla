------------------------------- MODULE MCTab --------------------------------
(* Two models of a browser tab, in one run: the radio it drives, and the     *)
(* timeline.  They share no state: a behaviour is one of BrowserRadio or one *)
(* of TimelineView, as part says from the start, while the other stands      *)
(* still, and the fairness is that of the one that runs.                     *)
(*                                                                           *)
(* A frame that waits on the radio and a send, two sessions, a queue of one  *)
(* record.  A battery sample and an advert of one radio.  The functions of   *)
(* the timeline, the conversations and shared channels are evaluated too.    *)
EXTENDS BrowserRadio, TimelineView, MCTimelineQueries, MCConversations, MCChannelSecrets

MCHappenings == 1..2
MCRadioOf    == <<1, 1>>
MCKindOf     == <<"telemetry", "advert">>

VARIABLE part
all == <<part, vars, timelineVars>>

TabInit ==
  /\ part \in {"radio", "timeline"} /\ Init /\ TimelineInit
  /\ part = "radio" => known = {} /\ \A h \in Happenings : at[h] = 0

TabNext ==
  \/ part = "radio" /\ Next /\ UNCHANGED <<part, timelineVars>>
  \/ part = "timeline" /\ TimelineNext /\ UNCHANGED <<part, vars>>

TabSpec ==
  /\ TabInit /\ [][TabNext]_all
  /\ WF_vars(part = "radio" /\ SyncDrains) /\ WF_vars(part = "radio" /\ (ReadOne \/ ReadEmpty))
  /\ \A o \in Outgoing : /\ WF_vars(part = "radio" /\ (Accepted(o) \/ Refused(o)))
                         /\ WF_vars(part = "radio" /\ AckTimeout(o))
  /\ \A j \in Jobs : WF_vars(part = "radio" /\ \E t \in tasks : t.job = j /\ TaskEnds(t))
  /\ WF_timelineVars(part = "timeline" /\ Bootstraps)
  /\ WF_timelineVars(part = "timeline" /\ (Loads \/ \E c \in calls : Fails(c)))
=============================================================================
