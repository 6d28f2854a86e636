-------------------------- MODULE MCCorrespondence --------------------------
(* CorrespondenceDispatch with one dispatch, two workers and one recipient,    *)
(* whose row is the sample.                                                    *)
EXTENDS CorrespondenceDispatch, TLC
=============================================================================
