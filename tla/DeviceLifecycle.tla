--------------------------- MODULE DeviceLifecycle ---------------------------
(***************************************************************************)
(* What a Device promises about its State, whatever kind of device it is: *)
(* the moves the state machine of the specification allows.  Initialize   *)
(* once; open or reopen (from a state that is not linked, or with a new   *)
(* config) into Linking, or straight to ConfigError or LinkError; a link  *)
(* attempt ends in LinkReady or LinkError; a ready link lingers or breaks; *)
(* Close and Dispose from any live state; past Disposing only Destructing. *)
(***************************************************************************)
EXTENDS Device

VARIABLE state

Live == {s \in States : s < Disposing}

Step(s, t) ==
    \/ s = Initializing /\ t = Initialized
    \/ s \in Live \ {Initializing} /\ t \in {Linking, ConfigError, LinkError}
    \/ s = Linking /\ t = LinkReady
    \/ s = LinkReady /\ t \in {Lingering, LinkBroken}
    \/ s \in Live /\ t \in {Closed, Disposing}
    \/ s = Disposing /\ t = Destructing

Init == state = Initializing

Next == \E t \in States : Step(state, t) /\ state' = t

Spec == Init /\ [][Next]_state
=============================================================================
