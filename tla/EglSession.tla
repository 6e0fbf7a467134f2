----------------------------- MODULE EglSession -----------------------------
(***************************************************************************)
(* What the EGL readback path of a soft video encoder promises (spec 4.3,  *)
(* 5): GPU resources live in one session.  A session is opened once, and   *)
(* every context, surface or program is created when it opens; a program   *)
(* is only linked in a context with a surface.  Closing the session        *)
(* releases everything it holds at once, and a frame is rendered on the    *)
(* GPU only while a session is open.  Nothing is created, and nothing is   *)
(* released, between these steps.                                          *)
(***************************************************************************)
VARIABLES
    session,     \* "closed" or "open"
    held,        \* the GPU objects the session holds
    lastFrame    \* the path the last extracted frame took

sessionVars == <<session, held, lastFrame>>

Objects == {"context", "surface", "program"}
Paths == {"none", "cpu", "gpu"}

SessionInit ==
    /\ session = "closed"
    /\ held = {}
    /\ lastFrame = "none"

\* The session opens with the objects its setup managed to create.
Open ==
    /\ session = "closed"
    /\ session' = "open"
    /\ held' \in SUBSET Objects
    /\ "program" \in held' => {"context", "surface"} \subseteq held'
    /\ UNCHANGED lastFrame

\* Closing releases all of the session's objects.
Close ==
    /\ session = "open"
    /\ session' = "closed"
    /\ held' = {}
    /\ UNCHANGED lastFrame

\* A frame is extracted; only an open session renders one on the GPU.
Extract ==
    /\ lastFrame' \in {"none", "cpu"} \cup
                      (IF session = "open" THEN {"gpu"} ELSE {})
    /\ UNCHANGED <<session, held>>

SessionNext == Open \/ Close \/ Extract

SessionSpec == SessionInit /\ [][SessionNext]_sessionVars

====
