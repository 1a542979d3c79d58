----------------------------- MODULE VirtualPad -----------------------------
(***************************************************************************)
(* What the controller tool promises its users, without threads, buffers   *)
(* or locks: one pad that plays one input at a time.  A posted input waits *)
(* until the pad takes it, replacing one that still waits.  The input the  *)
(* pad holds is offered to the console at least once before it is replaced *)
(* or released; a long press is released by another input only.            *)
(***************************************************************************)
CONSTANTS
  Inputs,   \* what a call can ask for
  Neutral,  \* no button pressed, sticks centred
  Off       \* the console shows no pad

Presses == [state : Inputs, long : BOOLEAN]
Rest    == [state |-> Neutral, long |-> FALSE]
Nothing == [state |-> Off, long |-> FALSE]

VARIABLES
  held,     \* the press the pad plays
  waiting,  \* the press posted last, Nothing when the pad has taken it
  offered,  \* the console has been given what is held
  shown     \* what the console shows
vars == <<held, waiting, offered, shown>>

Init ==
  /\ held = Rest
  /\ waiting = Nothing
  /\ offered = FALSE
  /\ shown = Off

Post ==
  /\ waiting' \in Presses
  /\ UNCHANGED <<held, offered, shown>>

\* The console may refuse what it is offered, and then shows what it did.
Offer ==
  /\ ~offered
  /\ offered' = TRUE
  /\ shown' \in {held.state, shown}
  /\ UNCHANGED <<held, waiting>>

Take ==
  /\ offered
  /\ waiting # Nothing
  /\ held' = waiting
  /\ waiting' = Nothing
  /\ offered' = FALSE
  /\ UNCHANGED shown

Release ==
  /\ offered
  /\ waiting = Nothing
  /\ ~held.long
  /\ held' = Rest
  /\ offered' = FALSE
  /\ UNCHANGED <<waiting, shown>>

Keep ==
  /\ offered
  /\ waiting = Nothing
  /\ held.long
  /\ offered' = FALSE
  /\ UNCHANGED <<held, waiting, shown>>

Plug ==
  /\ shown = Off
  /\ shown' = Neutral
  /\ UNCHANGED <<held, waiting, offered>>

Unplug ==
  /\ shown' = Off
  /\ UNCHANGED <<held, waiting, offered>>

Next == Post \/ Offer \/ Take \/ Release \/ Keep \/ Plug \/ Unplug

Spec == Init /\ [][Next]_vars
=============================================================================
