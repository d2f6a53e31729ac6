------------------------------- MODULE Startup ------------------------------
(***************************************************************************)
(* The beginning of main (src/src/main.c): parse_cli, then the display     *)
(* set-up for the configured connector and plane, then the receiver with   *)
(* the configured payload type (payload_type_matches of                    *)
(* src/src/udp_receiver.c). ensure_single_instance, between the first two, *)
(* is module SingleInstance; what follows is module Pipeline.              *)
(***************************************************************************)
EXTENDS Config, Modeset

vars == <<parseVars, displayVars>>

Init == ParseInit /\ DisplayInit

parse_step == ParseNext /\ UNCHANGED displayVars

\* open of cfg.card_path and the call of atomic_modeset_maxhz. The arguments
\* are not looked at again.
main_modeset ==
  /\ parser = "ok"
  /\ \E b \in Boards : call_modeset(b, cfg.connector_name, cfg.plane_id)
  /\ parser' = "used" /\ argv' = <<>> /\ i' = 1
  /\ UNCHANGED <<file, line, section, cfg>>

display_step == DisplayStep /\ UNCHANGED parseVars

Next == parse_step \/ main_modeset \/ display_step

Spec == Init /\ [][Next]_vars

\* Mutant: a negative configuration is compared like any other.
Mutant_negative_compared(pt, expected) == pt = expected % 256

\* payload_type_matches for a packet whose second byte carries pt (a shorter one
\* passes only a negative configuration). The comparison is one of bytes.
payload_type_matches(pt, expected) == expected < 0 \/ pt = expected % 256

TypeOK == ParseTypeOK /\ DisplayTypeOK

Accepted == {pt \in 0..127 : payload_type_matches(pt, cfg.vid_pt)}

\* From the last --vid-pt of the command line to the receiver's filter, through
\* parse_int_arg's cast to int and the filter's cast to a byte: a payload type
\* selects exactly its own packets and a negative number selects all. Beyond
\* 127 nothing is promised: the number loses its upper bits.
FilterFollowsConfig ==
  parser = "ok" /\ Unambiguous /\ CliSettings("vid_pt") # {} =>
    LET n == Numbers[argv[Last(CliSettings("vid_pt"), Before) + 1]]
    IN /\ n \in 0..127 => Accepted = {n}
       /\ n < 0 /\ n >= -IntMax - 1 => Accepted = 0..127
=============================================================================
