----------------------------- MODULE MCStartup ------------------------------
(***************************************************************************)
(* A small instance of Startup: command lines of up to three arguments     *)
(* and longer ones put together from pairs, two INI files, and boards with *)
(* up to two connectors, three modes, two CRTCs and two planes.            *)
(***************************************************************************)
EXTENDS Startup, FiniteSets, TLC

\* Plane 1 is the video's own plane or the primary one, as the board has it.
Words == {"--config", "--connector", "--plane-id", "--vid-pt", "--record-video",
          "--no-record-video", "--record-mode", "--gst-log", "--help", "--other",
          "a.ini", "HDMI-A-1", "1", "2", "-1", "append", "wide"}
Short == UNION {[1..n -> Words] : n \in 0..3}
Tails == {<<"--plane-id", "2">>, <<"--record-video", "a.ini">>, <<"--vid-pt", "1">>,
          <<"--record-mode", "append">>, <<"--no-record-video", "--gst-log">>,
          <<"--connector", "HDMI-A-1">>, <<"--config", "b.ini">>,
          <<"--card", "--config">>, <<"--udp-port", "">>, <<"--verbose", "--card">>}
Long == {a \o b : a \in Tails \cup {<<>>}, b \in Tails}
MCCommandLines ==
  Short \cup Long \cup {<<"--config", f>> \o t : f \in {"a.ini", "b.ini", ""}, t \in Long}
        \cup {t \o <<"--config", f>> : f \in {"a.ini", "b.ini"}, t \in Long}

Set(key, text) == [kind |-> "set", key |-> key, text |-> text]
Section(name) == [kind |-> "section", name |-> name]

MCFiles ==
  [p \in {"a.ini", "b.ini"} |->
     IF p = "a.ini"
     THEN <<Set(<<"connector">>, "DP-1"), Set(<<"plane_id">>, "2"),
            [kind |-> "noise"], Section("record"),
            Set(<<"enable">>, "yes"), Set(<<"mode">>, "standard"),
            Set(<<"path">>, "/data"), Set(<<"record", "enable">>, "no")>>
     ELSE <<Set(<<"record", "path">>, "/sd"), Section("video"),
            Set(<<"video_payload_type">>, "wide"), Set(<<"vid_pt">>, "x"),
            Set(<<"gst_log">>, "1"), Set(<<"record", "mode">>, "none"),
            Set(<<"card_path">>, "/dev/dri/card1"), Section("net"),
            Set(<<"udp_port">>, "2"), Set(<<"appsink_max_buffers">>, "1")>>]

\* "wide" is a number beyond an int: cut to 353 and then, as a byte, to 97.
MCNumbers == "1" :> 1 @@ "2" :> 2 @@ "-1" :> -1 @@ "wide" :> 2 * (IntMax + 1) + 353

MkMode(w, h, hz, clk, pref) ==
  [hdisplay |-> w, vdisplay |-> h, vrefresh |-> hz, clock |-> clk,
   htotal |-> 10, vtotal |-> 10, preferred |-> pref]
\* The rate of the third one is rounded from 59.5 to 60 by its clock.
SomeModes == {MkMode(4, 3, 60, 5, 0), MkMode(8, 5, 60, 6, 1),
              [MkMode(8, 5, 0, 6, 0) EXCEPT !.htotal = 101, !.vtotal = 1],
              MkMode(4, 3, 120, 9, 0)}
ModeLists == {<<>>} \cup {<<x>> : x \in SomeModes}
             \cup {l \in [1..3 -> SomeModes] : Cardinality({l[1], l[2], l[3]}) = 3}

\* Encoder 1 is on CRTC 1, encoder 2 on none; both can drive CRTC 2.
MkBoard(l1, l2, conn1, enc1, encs2, primary, answers) ==
  [connectors |-> <<[name |-> "DP-1", connected |-> conn1, modes |-> l1,
                     encoder |-> enc1, encoders |-> <<1>>],
                    [name |-> "HDMI-A-1", connected |-> TRUE, modes |-> l2,
                     encoder |-> 0, encoders |-> encs2]>>,
   encoders |-> <<[crtc |-> 1, possible |-> {2}], [crtc |-> 0, possible |-> {1, 2}]>>,
   planes |-> <<[primary |-> primary = 1, possible |-> {1, 2}],
                [primary |-> primary = 2, possible |-> {1}]>>,
   crtcs |-> 2,
   answers |-> answers]
All == ({"connector", "encoder", "crtc", "plane"} \X {1, 2})
\* Every list of modes on a board that answers, and every board that does not
\* answer everything with few modes.
MCBoards ==
  {MkBoard(l, <<>>, TRUE, 1, <<2>>, 1, All) : l \in ModeLists}
  \cup {MkBoard(<<MkMode(4, 3, 60, 5, 0)>>, <<MkMode(8, 5, 60, 6, 1)>>, conn1, enc1, encs2,
                primary, All \ missing) :
          conn1 \in BOOLEAN, enc1 \in {0, 1}, encs2 \in {<<>>, <<1, 2>>, <<2>>},
          primary \in {1, 2},
          missing \in {{}, {<<"connector", 1>>}, {<<"encoder", 1>>},
                       {<<"encoder", 1>>, <<"encoder", 2>>}, {<<"crtc", 1>>},
                       {<<"crtc", 1>>, <<"crtc", 2>>}, {<<"plane", 1>>}}}
=============================================================================
