--------------------------- MODULE MCServerWorkspace ---------------------------
(* Small instances of ServerWorkspace: the volume's root and one folder in it. *)
EXTENDS ServerWorkspace

TwoDirectories == {".", "plugins"}
===============================================================================
