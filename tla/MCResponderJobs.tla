-------------------------- MODULE MCResponderJobs --------------------------
(***************************************************************************)
(* A webhook and a mail, and two administrators.  Of the three retries the *)
(* first two are immediate and the third is delayed; the violation run has *)
(* the delays the code starts with.                                        *)
(***************************************************************************)
EXTENDS ResponderJobs, TLC

CONSTANTS hook, mail

MCKind == (hook :> "webhook") @@ (mail :> "email")
MCKindHook == (hook :> "webhook")
MCDelays == <<0, 0, 1620>>
DefaultDelays == <<180, 540, 1620>>
=============================================================================
