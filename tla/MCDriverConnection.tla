--------------------------- MODULE MCDriverConnection --------------------------
EXTENDS DriverConnection

CONSTANTS film, still

(* The first transfer of either kind belongs to a request. *)
MCReference == [r \in Request |-> IF r = film THEN CHOOSE t \in Video : TRUE
                                  ELSE IF r = still THEN CHOOSE t \in Image : TRUE ELSE None]

(* An agent's frames: those of a session, and those of the handshake. *)
Traffic == {f \in Frame : f.kind \in {"ready", "response", "chunk", "garbage", "close"}}
Greeting == {f \in Frame : f.kind \notin {"chunk", "garbage"}}
MCSent == {Traffic, Greeting}
=============================================================================
