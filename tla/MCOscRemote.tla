----------------------------- MODULE MCOscRemote -----------------------------
(* Small request sets for the model checker; one fader unit is 0.5.        *)
EXTENDS OscRemote

R(p, v) == [param |-> p, value |-> v]

\* One request of every kind: for each cell of the faders, for the toggle, for a
\* button with a cell of its own, and one that sets the flag and stores nothing.
RaceRequests ==
  {R("fader1", 2), R("fader2", 2), R("fader3", 2), R("push1", 0), R("push3", 1),
   R("toggle1", 0), R("toggle1", 1)}

\* The sliders of the settings screen.
SettingsRequests == {R(p, 2) : p \in {"fader3", "fader4", "fader5", "fader6"}}
=============================================================================
