----------------------------- MODULE MCChannels -----------------------------
(***************************************************************************)
(* A small instance of ChannelTexts: two characters, a foreign one, and    *)
(* texts of five symbols.  A wildcard of five symbols has channel names of *)
(* six below its prefix, as its text loses two symbols to the ".*".        *)
(***************************************************************************)
EXTENDS ChannelTexts
=============================================================================
