------------------------ MODULE MCResidentForward ------------------------
(* ResidentForward with two layers and every -ngl. *)
EXTENDS ResidentForward

AnyNGL == 0..NumLayers
AllNGL == {NumLayers}

\* No device call fails but for want of room, all may, or all but those on the
\* device KV.
Faults == {{}, FaultKinds, FaultKinds \ {"append", "attention"}}

NoFaults == {{}}

BothSizes == {2, CtxLen}

TooSmall == {1}
=============================================================================
