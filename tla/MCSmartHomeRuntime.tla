------------------------- MODULE MCSmartHomeRuntime -------------------------
(* Instances of SmartHomeRuntime for TLC. *)
EXTENDS SmartHomeRuntime, TLC

CONSTANTS d1, d2, one, other, scene, twice

On(d) == [device |-> d, does |-> "on"]
Off(d) == [device |-> d, does |-> "off"]
Toggle(d) == [device |-> d, does |-> "toggle"]

\* Each content a run may use: a single command and another one of the same
\* device, a scene over two devices, and two commands of one device.
AllCommands ==
    (one :> <<On(d1)>>) @@ (other :> <<Toggle(d1)>>)
        @@ (scene :> <<On(d1), Toggle(d2)>>) @@ (twice :> <<On(d1), Off(d1)>>)
Ordered == [k \in Contents |-> AllCommands[k]]

=============================================================================
