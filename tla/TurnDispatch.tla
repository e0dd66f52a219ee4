--------------------------- MODULE TurnDispatch ---------------------------
(***************************************************************************)
(* What the harness promises its channels, without queues, agents, acks or *)
(* timers: an accepted event waits, is taken into a turn of its channel,   *)
(* and is settled once. A channel has one turn at a time, an event is in   *)
(* one turn at a time, and a turn that did not get anywhere puts its       *)
(* events back to wait. AcpHarness is shown to implement this.             *)
(***************************************************************************)
EXTENDS FiniteSets

CONSTANTS Channels, Events

VARIABLES
    waiting,    \* accepted events in no turn
    turn,       \* the events of the turn running on each channel
    settled     \* events that are done with, one way or the other

vars == <<waiting, turn, settled>>

Known == waiting \cup settled \cup UNION {turn[ch] : ch \in Channels}

Init ==
    /\ waiting = {}
    /\ turn = [ch \in Channels |-> {}]
    /\ settled = {}

(* Waiting events may be given up: a full queue drops one, a removed       *)
(* channel drops all of its own, a steer hands one to the running turn.    *)
GiveUp(S) ==
    /\ S \subseteq waiting
    /\ waiting' = waiting \ S
    /\ settled' = settled \cup S
    /\ UNCHANGED turn

(* A new event is accepted, perhaps at the cost of others, or refused. *)
Arrive(e, S) ==
    /\ e \notin Known
    /\ S \subseteq waiting
    /\ \/ waiting' = (waiting \ S) \cup {e} /\ settled' = settled \cup S
       \/ S = {} /\ waiting' = waiting /\ settled' = settled \cup {e}
    /\ UNCHANGED turn

(* A turn starts on a channel that has none. *)
Start(ch, S) ==
    /\ turn[ch] = {}
    /\ S # {} /\ S \subseteq waiting
    /\ turn' = [turn EXCEPT ![ch] = S]
    /\ waiting' = waiting \ S
    /\ UNCHANGED settled

(* A turn ends. Its events, and any that were waiting, are divided between *)
(* those that wait (again) and those that are settled; none disappears.    *)
Finish(ch, S) ==
    /\ turn[ch] # {}
    /\ S \subseteq waiting \cup turn[ch]
    /\ turn' = [turn EXCEPT ![ch] = {}]
    /\ settled' = settled \cup S
    /\ waiting' = (waiting \cup turn[ch]) \ S

Next ==
    \/ \E e \in Events, S \in SUBSET waiting : Arrive(e, S)
    \/ \E S \in SUBSET waiting : GiveUp(S)
    \/ \E ch \in Channels, S \in SUBSET waiting : Start(ch, S)
    \/ \E ch \in Channels : \E S \in SUBSET (waiting \cup turn[ch]) : Finish(ch, S)

Spec == Init /\ [][Next]_vars
=============================================================================
