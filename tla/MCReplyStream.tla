---------------------------- MODULE MCReplyStream ----------------------------
(* The model-checked instance of ReplyStream takes all its parameters from *)
(* the configuration.                                                      *)
EXTENDS ReplyStream
=============================================================================
