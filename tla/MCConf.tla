-------------------------------- MODULE MCConf --------------------------------
(***************************************************************************)
(* A small instance of Conf: a colour and another option with a parser.     *)
(***************************************************************************)
EXTENDS Conf
=============================================================================
