------------------------------- MODULE MCFrame -------------------------------
(***************************************************************************)
(* Small instances of Frame: two fonts on a wide and a narrow display.  The *)
(* large font does not change the size of the narrow one.                  *)
(***************************************************************************)
EXTENDS Frame

CONSTANTS t1, t2, d1, d2

Font == {"small", "large"}
Modes == Font \X BOOLEAN

\* Cells on d1 and on d2 for every font and orientation.
Fits ==
  [m \in Modes |->
     [d \in Display |->
        IF d = d2 THEN 1
        ELSE IF m = <<"small", FALSE>> THEN 2 ELSE 1]]

MainUses ==
  {{"plug", "vt", "pointer"}, {"plug", "vt", "colours"}, {"plug", "vt", "zoom"},
   {"plug", "vt", "turn"}, {"vt", "wide"}, {"pointer", "hide"}, {"switch"},
   {"vt", "pointer", "cursor"}, {"plug", "pointer", "cursor"},
   {"pointer", "hide", "turn", "cursor"},
   {"pointer", "cursor", "close"}, {"pointer", "rail"}}
SwitchUses == {{"switch"}}
CloseUses == {{"pointer", "cursor", "close"}}

\* The terminals are alike.
Symmetry == Permutations(Terminal)
=============================================================================
