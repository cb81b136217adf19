------------------------------ MODULE IdTables ------------------------------
(***************************************************************************)
(* The tables that give ids of the client a name: the commands of CMDS     *)
(* (cs_cmd.h), and the two enumerations of internal_notification_ids.h     *)
(* with the functions that name their members.  A name is the number it    *)
(* stands for; the text is left out.                                       *)
(***************************************************************************)
EXTENDS Integers

Unknown == 0

(* CMDS, 150 rows at a time. *)
Cmds1 ==
    (1 .. 63) \cup (65 .. 69) \cup (72 .. 75) \cup (78 .. 81) \cup
    (83 .. 100) \cup (113 .. 119) \cup (128 .. 137) \cup (160 .. 175)
    \cup (257 .. 268) \cup (513 .. 518) \cup {142, 143, 270, 520, 521}

Cmds2 ==
    (522 .. 525) \cup (528 .. 534) \cup (546 .. 549) \cup (576 .. 584)
    \cup (592 .. 636) \cup (640 .. 692) \cup (694 .. 705) \cup
    (708 .. 721) \cup {544, 590}

Cmds3 ==
    (722 .. 730) \cup (735 .. 768) \cup (1025 .. 1029) \cup
    (1281 .. 1291) \cup (1312 .. 1317) \cup (1797 .. 1799) \cup
    (1801 .. 1825) \cup (1828 .. 1836) \cup (1840 .. 1843) \cup
    (2049 .. 2061) \cup (2063 .. 2077) \cup (2079 .. 2081) \cup
    (2305 .. 2308) \cup {771, 772, 1032, 1033, 1793, 1794, 2320, 2321,
    2562}

Cmds4 ==
    (2833 .. 2843) \cup (3073 .. 3081) \cup (3328 .. 3335) \cup
    (3585 .. 3591) \cup (3600 .. 3602) \cup (3665 .. 3673) \cup
    (3680 .. 3686) \cup (3841 .. 3849) \cup (4000 .. 4007) \cup
    (4097 .. 4104) \cup (4353 .. 4365) \cup (4368 .. 4374) \cup
    (5121 .. 5123) \cup (5377 .. 5386) \cup (5393 .. 5396) \cup
    (5633 .. 5658) \cup {2817, 2818, 3345, 3593, 4609, 4610, 4865, 4866}

Cmds5 ==
    (5659 .. 5672) \cup (5890 .. 5897) \cup (5904 .. 5913) \cup
    (5920 .. 5932) \cup (5936 .. 5945) \cup (5952 .. 5955) \cup
    (6401 .. 6404) \cup (6657 .. 6665) \cup (6672 .. 6674) \cup
    (6915 .. 6922) \cup (6947 .. 6960) \cup (7169 .. 7176) \cup
    (8193 .. 8206) \cup (8208 .. 8217) \cup (8234 .. 8238) \cup
    (8240 .. 8243) \cup (8448 .. 8453) \cup {6144, 6929, 6930, 6932,
    6934, 8223}

Cmds6 ==
    (8454 .. 8457) \cup (8464 .. 8473) \cup (8480 .. 8489) \cup
    (8496 .. 8516) \cup (8529 .. 8537) \cup (8544 .. 8567) \cup
    (8577 .. 8579) \cup (8581 .. 8601) \cup (8608 .. 8616) \cup
    (8705 .. 8709) \cup (8961 .. 8966) \cup (9729 .. 9737) \cup
    (9985 .. 9989) \cup (10241 .. 10248) \cup {9217, 9218, 9297, 9298,
    9473, 9474}

Cmds7 ==
    (10257 .. 10265) \cup (10272 .. 10277) \cup (10497 .. 10500) \cup
    (12289 .. 12313) \cup (12320 .. 12329) \cup (12545 .. 12559) \cup
    (12576 .. 12585) \cup (12592 .. 12594) \cup (12596 .. 12601) \cup
    (12608 .. 12617) \cup (12624 .. 12630) \cup (12801 .. 12809) \cup
    (12816 .. 12825) \cup (12832 .. 12835) \cup (13057 .. 13065) \cup
    (13072 .. 13074) \cup (13105 .. 13107) \cup (13313 .. 13315) \cup
    {12336, 12337, 13569, 13570}

Cmds8 ==
    (13571 .. 13577) \cup (13825 .. 13833) \cup (13840 .. 13844) \cup
    (13857 .. 13864) \cup (14081 .. 14090) \cup (14096 .. 14100) \cup
    (14337 .. 14343) \cup (14353 .. 14361) \cup (14609 .. 14611) \cup
    (16385 .. 16388) \cup (16657 .. 16663) \cup (17169 .. 17172) \cup
    (17409 .. 17422) \cup (17665 .. 17673) \cup (17680 .. 17689) \cup
    (17921 .. 17925) \cup (18433 .. 18441) \cup (18448 .. 18450) \cup
    (20737 .. 20740) \cup {14368, 14593, 16641, 16642, 16897, 16898,
    17153, 17424, 17425, 18177, 18689, 18705, 18706, 18721, 18722, 20481,
    20482, 20742}

Cmds9 ==
    (20753 .. 20758) \cup (20769 .. 20777) \cup (20784 .. 20793) \cup
    (20800 .. 20803) \cup (20993 .. 20999) \cup (21249 .. 21251) \cup
    (21761 .. 21766) \cup (21841 .. 21847) \cup (22017 .. 22022) \cup
    (22273 .. 22280) \cup (22287 .. 22289) \cup (22785 .. 22793) \cup
    (22800 .. 22802) \cup (24577 .. 24581) \cup (24833 .. 24841) \cup
    (24865 .. 24873) \cup (25089 .. 25097) \cup (25104 .. 25107) \cup
    (25109 .. 25113) \cup (25345 .. 25349) \cup (25601 .. 25609) \cup
    {21505, 22283, 22285, 22529, 22530, 22609, 22610, 22816, 22817, 24880,
    24881, 25616, 25857, 25858}

Cmds10 ==
    (26113 .. 26121) \cup (26369 .. 26373) \cup (26881 .. 26887) \cup
    (27137 .. 27143) \cup {25859, 60929}

(* CMDS_SIZE rows: no id is in two of them. *)
CmdIds ==
    Cmds1 \cup Cmds2 \cup Cmds3 \cup Cmds4 \cup Cmds5
    \cup Cmds6 \cup Cmds7 \cup Cmds8 \cup Cmds9 \cup Cmds10

(* cmd_name, by way of find_cmd. *)
CmdName(id) == IF id \in CmdIds THEN id ELSE Unknown

-----------------------------------------------------------------------------
(* Game events.  The first seven also arrive as the bits of a float.       *)

FloatEvents ==
    { <<1, 1065353216>>, <<2, 1073741824>>, <<3, 1077936128>>, <<4, 1082130432>>,
      <<5, 1084227584>>, <<6, 1086324736>>, <<7, 1088421888>> }
FloatCases ==
    { <<1, 1065353216>>, <<2, 1073741824>>, <<3, 1077936128>>, <<4, 1082130432>>,
      <<5, 1084227584>>, <<6, 1086324736>>, <<7, 1088421888>> }

GameEvents ==
    (1 .. 133)

GameCases1 ==
    (1 .. 75)

GameCases2 ==
    (76 .. 133)

(* GetMHGameEventIDName.  Mutation: without the cases of the floats.       *)
IntegersOnly(id) == IF id \in GameCases1 \cup GameCases2 THEN id ELSE Unknown
GameEventName(id) ==
    IF \E e \in FloatCases : e[2] = id THEN (CHOOSE e \in FloatCases : e[2] = id)[1]
    ELSE IF id \in GameCases1 \cup GameCases2 THEN id ELSE Unknown

-----------------------------------------------------------------------------
(* Logic events. *)

LogicEvents1 ==
    (1 .. 33) \cup (35 .. 104) \cup (106 .. 152)

LogicEvents2 ==
    (153 .. 237) \cup (249 .. 310) \cup (1000 .. 1002)

LogicEvents3 ==
    (311 .. 460)

LogicEvents4 ==
    (461 .. 497) \cup (499 .. 611)

LogicEvents5 ==
    (612 .. 740)

LogicCases1 ==
    (1 .. 33) \cup (35 .. 76)

LogicCases2 ==
    (77 .. 104) \cup (106 .. 152)

LogicCases3 ==
    (153 .. 223) \cup (1000 .. 1002) \cup {250}

LogicCases4 ==
    (224 .. 237) \cup (251 .. 310) \cup {249}

LogicCases5 ==
    (311 .. 385)

LogicCases6 ==
    (386 .. 460)

LogicCases7 ==
    (461 .. 497) \cup (499 .. 536)

LogicCases8 ==
    (537 .. 611)

LogicCases9 ==
    (612 .. 686)

LogicCases10 ==
    (687 .. 740)

LogicEvents == LogicEvents1 \cup LogicEvents2 \cup LogicEvents3 \cup LogicEvents4 \cup LogicEvents5

(* GetMHLogicEventIDName. *)
LogicEventName(id) ==
    IF id \in LogicCases1 \cup LogicCases2 \cup LogicCases3 \cup LogicCases4 \cup LogicCases5
              \cup LogicCases6 \cup LogicCases7 \cup LogicCases8 \cup LogicCases9 \cup LogicCases10
    THEN id ELSE Unknown

=============================================================================
