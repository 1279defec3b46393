-------------------------- MODULE PropertyReplica ---------------------------
(***************************************************************************)
(* What the synchronization of property maps promises                      *)
(* (src/components/render/scene_render/interchange/include/render/scene/   *)
(* interchange/property_synchronizer.h): the reader's copy of a map only   *)
(* takes states the source had, in the order in which the source had them, *)
(* and forgets a map that was destroyed before it learns of a new one with *)
(* the same identifier.  Some states a copy cannot take: it shows less of  *)
(* them, and there is no copy if there was none.  Whole states travel; that*)
(* the code sends layouts apart from the maps that use them is not visible *)
(* here.                                                                   *)
(***************************************************************************)
EXTENDS Sequences

CONSTANTS Maps,    \* identifiers of property maps
          States,  \* what a map may contain
          Blank,   \* what a copy shows of the states it cannot take
          None     \* no map

VARIABLES source,   \* the maps at the writer
          gone,     \* identifiers of destroyed maps, to be reported
          channel,  \* states and removals on their way, among other things
          replica   \* the copies at the reader

vars == <<source, gone, channel, replica>>

Message(m, s) == [map |-> m, state |-> s]

Init ==
  /\ source = [m \in Maps |-> None]
  /\ gone = {}
  /\ channel = <<>>
  /\ replica = [m \in Maps |-> None]

\* A map is created or changed.
Change(m, s) ==
  /\ source' = [source EXCEPT ![m] = s]
  /\ UNCHANGED <<gone, channel, replica>>

\* A map is destroyed: the reader is to be told if it knows the map.
Destroy(m) ==
  /\ source[m] # None
  /\ source' = [source EXCEPT ![m] = None]
  /\ gone' \in {gone, gone \cup {m}}
  /\ UNCHANGED <<channel, replica>>

\* The current state of a map is sent, never before the removal of the map
\* that had its identifier.
Send(m) ==
  /\ source[m] # None /\ m \notin gone
  /\ channel' = Append(channel, Message(m, source[m]))
  /\ UNCHANGED <<source, gone, replica>>

SendRemoval(m) ==
  /\ m \in gone
  /\ gone' = gone \ {m}
  /\ channel' = Append(channel, Message(m, None))
  /\ UNCHANGED <<source, replica>>

\* Something is sent that is about no map.
SendOther ==
  /\ channel' = Append(channel, Message(None, None))
  /\ UNCHANGED <<source, gone, replica>>

\* What is left of a copy that is given the state s.
Taken(copy, s) == IF s \notin DOMAIN Blank THEN s
                  ELSE IF copy = None THEN None ELSE Blank[s]

Receive ==
  /\ channel # <<>>
  /\ replica' = IF Head(channel).map = None THEN replica
                ELSE [replica EXCEPT ![Head(channel).map] = Taken(@, Head(channel).state)]
  /\ channel' = Tail(channel)
  /\ UNCHANGED <<source, gone>>

Next ==
  \/ \E m \in Maps :
       \/ \E s \in States : Change(m, s)
       \/ Destroy(m)
       \/ Send(m)
       \/ SendRemoval(m)
  \/ SendOther \/ Receive

Spec == Init /\ [][Next]_vars
=============================================================================
