------------------------------ MODULE MCParts -------------------------------
(* Parts with one program to block, two devices, two sessions of one process, *)
(* two installers, a tag in many spellings, and programs with odd names.      *)
EXTENDS Parts

MCRecommended == [m \in Modifiers |-> IF m = "CtrlAlt" THEN Apps ELSE {}]
MCDisks == {c \in LegacyConfigs :
    /\ c.step + 1 = c.large /\ c.freq = 1 /\ c.rest = 0
    /\ c.step = 1 <=> c.modifier = "CtrlAlt" /\ c.black = {}
    /\ c.step = 1 \/ c.look = "Opaque"}
TwoOfOne == [s \in {1, 2} |-> 7]
MCLists == {<<>>, <<1, 2>>, <<2, 1>>, <<2, 3, 1, 4, 5>>}
MCQueries == [q \in {"", "m"} |-> IF q = "" THEN 1..5 ELSE {2, 3}]
MCTag(v, numbers, plain) ==
    [v |-> v, parts |-> [i \in DOMAIN numbers |-> [number |-> numbers[i], plain |-> plain]]]
MCNumbers == {<<0, 1, 12>>, <<0, 2, 0>>, <<0, 1, 9>>, <<1, 0>>, <<1, 0, -1>>, <<1, 0, 0, 0>>}
MCAnswers == [draft : BOOLEAN, prerelease : BOOLEAN,
              tag : {MCTag(v, n, p) : v \in BOOLEAN, n \in MCNumbers, p \in BOOLEAN}]
MCRunning == MCTag(FALSE, <<0, 1, 12>>, TRUE)
MCTyped == {Name("", <<>>, FALSE), Name("game", <<>>, TRUE),
            Name("game", <<"exe">>, FALSE), Name("longname", <<"app">>, FALSE)}
MCExtensions == {"exe", "app"}
MCCut == [s \in {"", "game", "longname", "long"} |-> IF s = "longname" THEN "long" ELSE s]
MCRecommendedLists == [os \in {"windows", "macos", "linux"} |-> {{}, {Name("game", <<>>, TRUE)}}]
MCBlock(p, f) == [ProductName |-> p, FileDescription |-> f]
MCVersion == [listed |-> MCBlock("generic", None), english |-> MCBlock("Game", "a game")]
MCWindow(n, own, title, version) == [program |-> n, own |-> own, title |-> title, version |-> version]
MCGame == Name("game", <<"exe">>, TRUE)
MCOther == Name("longname", <<"app">>, FALSE)
MCDesktops == [os \in {"windows", "macos", "linux"} |->
    IF os = "windows"
    THEN {<<MCWindow(MCGame, FALSE, "", MCVersion), MCWindow(MCGame, FALSE, "text", None)>>,
          <<MCWindow(Name("game", <<>>, FALSE), FALSE, "text", None), MCWindow(MCOther, TRUE, "text", None)>>,
          <<MCWindow(MCOther, FALSE, None, None), MCWindow(MCGame, FALSE, "", None)>>}
    ELSE {<<MCWindow(Name("game", <<>>, os = "macos"), FALSE, None, None)>>,
          <<MCWindow(MCOther, FALSE, None, None)>>}]
MCStartTexts == {<<>>,
    <<Heading("hotkeys"), Pair("volume_up", Combo(<<"Ctrl", "M">>)),
      Heading("general"), Pair("modifier", Word("Alt"))>>,
    <<Heading("general"), Pair("overlay_duration_ms", Decimal(300)), Pair("modifier", Word("Ctrl")),
      Heading("hotkeys"), Pair("toggle_mute", Combo(<<>>)),
      Heading("blacklist"), Item(2, "Game"), Item(0, "game")>>,
    <<Heading("color_thresholds"), Pair("green_up_to", Decimal(90))>>}
MCNewLines == {Heading("general"), Heading("hotkeys"), Heading("color_thresholds"), [kind |-> "bad"],
    Pair("volume_step", Decimal(20)), Pair("volume_step", Word("x")), Pair("modifier", Word("Alt")),
    Pair("volume_step_large", Decimal(30)), Pair("volume_up", Combo(<<"Alt", "KeyM">>)),
    Pair("green_up_to", Decimal(200)), Item(0, "game"), Item(1, "Game"), [kind |-> "blank"]}
MCTidy == [n \in {"Game", "game"} |-> "game"]
MCStrokes == [held : {{}, {"Ctrl"}, {"Alt", "Ctrl"}}, key : {"KeyM", "Minus", "Escape", "Backspace"}]
MCTextWidth == [t \in {"Ctrl", "Alt", "CapsLock", "up", "down", "M", "V", "R", " and ", ", ",
                        "is used by another app.", "are used by another app."} |->
    IF t = "Ctrl" THEN 24 ELSE IF t = "Alt" THEN 18 ELSE IF t = "CapsLock" THEN 52
    ELSE IF t = " and " THEN 28 ELSE IF t = ", " THEN 7
    ELSE IF t = "is used by another app." THEN 130
    ELSE IF t = "are used by another app." THEN 136 ELSE 10]
MCHeard == {[level |-> 50, muted |-> FALSE], [level |-> 100, muted |-> TRUE]}
MCBounds == {[green |-> 40, blue |-> 75], [green |-> 50, blue |-> 75]}
MCActions == {"VolumeUp", "VolumeDown", "ToggleMute", "OpenMixer", "Reset50"}
MCStatuses == {[a \in MCActions |-> "Registered"],
               [a \in MCActions |-> IF a \in {"ToggleMute", "Reset50"} THEN "Conflicted"
                                    ELSE IF a = "VolumeUp" THEN "Disabled" ELSE None]}
=============================================================================
