---------------------------- MODULE PortContract ----------------------------
(***************************************************************************)
(* What the two ports of a soft video encoder promise their client (spec 3, *)
(* 4.2): the input and output port definitions it publishes always        *)
(* describe one configuration (geometry, framerate, bitrate, input color   *)
(* format), with the buffer sizes that configuration implies, and a        *)
(* change replaces both definitions at once.  How a configuration is       *)
(* turned into port definitions is a parameter: InDefOf and OutDefOf.      *)
(***************************************************************************)
CONSTANTS
    Widths, Heights, Framerates, Bitrates,
    Colors,                 \* input color formats the component supports
    InDefOf(_, _, _, _),    \* input definition of (width, height, framerate, color)
    OutDefOf(_, _, _)       \* output definition of (width, height, bitrate)

VARIABLES inPort, outPort

portVars == <<inPort, outPort>>

\* The pair of definitions of one configuration.
Describes(in, out, w, h, fr, br, c) ==
    in = InDefOf(w, h, fr, c) /\ out = OutDefOf(w, h, br)

ContractInit ==
    \E w \in Widths, h \in Heights, fr \in Framerates, br \in Bitrates,
       c \in Colors : Describes(inPort, outPort, w, h, fr, br, c)

\* Both ports move to the definitions of a new configuration together.
Republish ==
    \E w \in Widths, h \in Heights, fr \in Framerates, br \in Bitrates,
       c \in Colors : Describes(inPort', outPort', w, h, fr, br, c)

ContractSpec == ContractInit /\ [][Republish]_portVars

====
