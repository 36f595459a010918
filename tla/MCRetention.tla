---------------------------- MODULE MCRetention ----------------------------
(***************************************************************************)
(* What happens to tickets besides the panel, checked part by part: the    *)
(* archival of completed ones and the replies of the community inbox.      *)
(* The parts share no state, so each behaviour is one of one of them while *)
(* the other stays as it was.                                              *)
(***************************************************************************)
EXTENDS TicketRetention, CommunityReplies, TLC

VARIABLE part

storeVars == << part, allVars, replyVars >>

StoreInit == part \in {"archive", "inbox"} /\ RetentionInit /\ RepliesInit

StoreNext ==
  /\ UNCHANGED part
  /\ \/ part = "archive" /\ RetentionNext /\ UNCHANGED replyVars
     \/ part = "inbox" /\ RepliesNext /\ UNCHANGED allVars

StoreSpec == StoreInit /\ [][StoreNext]_storeVars

\* Students and replies are interchangeable: no definition tells one from another.
InboxSymmetry == Permutations(Students) \cup Permutations(Replies)
=============================================================================
