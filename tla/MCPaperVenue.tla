---------------------------- MODULE MCPaperVenue ----------------------------
(* A small instance of PaperVenue for TLC. *)
EXTENDS PaperVenue, TLC

\* A YES bid and a NO bid that one print may cross together.
MCSide == "o1" :> "yes" @@ "o2" :> "no"
MCLimit == "o1" :> 2 @@ "o2" :> 2
=============================================================================
