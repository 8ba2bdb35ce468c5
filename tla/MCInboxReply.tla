------------------------------ MODULE MCInboxReply ----------------------------
(***************************************************************************)
(* One sender, one reply at a time, two messages that leave questions: is  *)
(* the question a reply decides the one its ping asked?                    *)
(***************************************************************************)
EXTENDS ChannelInbox
===============================================================================
