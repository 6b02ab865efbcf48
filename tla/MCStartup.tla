----------------------------- MODULE MCStartup -----------------------------
(***************************************************************************)
(* Small instance of Startup for TLC: configurations with no zone, one     *)
(* zone, two zones and an unnamed zone, with and without the optional      *)
(* sections.                                                               *)
(***************************************************************************)
EXTENDS Startup

CONSTANTS z1, z2

Text(list, http, section, secs, count) ==
  [zones |-> list, api |-> http, tcp |-> section, idle |-> secs, max |-> count]

McTexts ==
  {Text(<<>>, FALSE, FALSE, None, None), Text(<<z1>>, FALSE, FALSE, None, None),
   Text(<<z1, z2>>, TRUE, TRUE, Some(5), None), Text(<<z1, Unnamed>>, FALSE, TRUE, None, Some(7))}
=============================================================================
