----------------------------- MODULE MCEvidence -----------------------------
(***************************************************************************)
(* A menu of evidence inputs for TLC: the dispatch is sent at time 1, one  *)
(* record of each kind would complete the review, and around them are a    *)
(* pre-dispatch record, negative and unfinished ones, an acknowledgement   *)
(* edited twice in one second and deleted, a later one never edited, a     *)
(* dismissed review, a comment of somebody else and a status too far from  *)
(* the review.                                                             *)
(***************************************************************************)
EXTENDS EvidenceStream

In(kind, source, created, at, valid, authentic, verdict) ==
    [kind |-> kind, source |-> source, created |-> created, at |-> at,
     valid |-> valid, authentic |-> authentic, verdict |-> verdict]

MCInputs ==
    { In("status", 1, 1, 1, TRUE, TRUE, "complete"),
      In("status", 2, 2, 2, TRUE, TRUE, "complete"),
      In("status", 3, 2, 2, TRUE, TRUE, "negative"),
      In("status", 4, 5, 5, TRUE, TRUE, "complete"),
      In("review", 1, 2, 2, TRUE, TRUE, "complete"),
      In("review", 1, 2, 2, FALSE, TRUE, "incomplete"),
      In("review", 2, 3, 3, TRUE, TRUE, "negative"),
      In("issue_comment", 1, 2, 2, TRUE, TRUE, "incomplete"),
      In("issue_comment", 1, 2, 3, TRUE, TRUE, "complete"),
      In("issue_comment", 1, 2, 3, TRUE, TRUE, "incomplete"),
      In("issue_comment", 1, 2, 3, FALSE, TRUE, "complete"),
      In("issue_comment", 2, 2, 2, TRUE, TRUE, "complete"),
      In("issue_comment", 3, 2, 4, TRUE, FALSE, "complete") }
=============================================================================
