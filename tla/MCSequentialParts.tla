--------------------------- MODULE MCSequentialParts ---------------------------
(* The instances of the three parts together.                              *)
EXTENDS SequentialParts, MCDocumentPreparation, MCAnswerEvidence, MCListing
=================================================================================
